------------------------- MODULE RetireQueuesProofs -------------------------
(***************************************************************************)
(* Proofs about RetireQueues for every number of queues, slots, fences and *)
(* generations: its type invariant; that a token reported complete, or     *)
(* forgotten by a reset, stands for finished operators; that the slots     *)
(* name distinct queues; and that the registry implements RetireContract.  *)
(***************************************************************************)
EXTENDS RetireQueues, TLAPS, WellFoundedInduction

(* The inductive invariant.  It is stated slot by slot, for a slot record   *)
(* and a state of the device given as arguments, so that each critical      *)
(* section can be followed through the records it computes.                 *)

\* Everything token t stands for is in the finished commands d.
Covered(t, d) == 1..t.upto \subseteq d[t.queue]

\* A barrier that has finished was preceded by everything before it.
DeviceOK(sub, bar, d) ==
    \A q \in Queues :
       /\ d[q] \subseteq 1..sub[q]
       /\ \A n \in bar[q] : n \in 1..sub[q] /\ (n \in d[q] => 1..(n - 1) \subseteq d[q])

\* What slot s at index i owes to the tokens taken from it.
SlotOK(s, i, toks, bar, d) ==
    /\ s.retired < s.open
    /\ s.fences # {} => s.queue # NoQueue
    /\ \A f \in s.fences : f.generation < s.open /\ f.at \in bar[s.queue]
    /\ \A t \in toks : t.slot = i /\ t.incarnation = s.incarnation =>
          /\ t.queue = s.queue
          /\ t.generation <= s.open
          /\ \A f \in s.fences : t.generation <= f.generation => t.upto < f.at
          /\ t.generation <= s.retired => Covered(t, d)

TokensOK(toks, sub, inc) ==
    \A t \in toks : /\ t.incarnation \in 1..inc
                    /\ t.upto <= sub[t.queue]

RegistryOK(S, c, inc) ==
    \A i \in Slots : /\ S[i].incarnation <= inc
                     /\ S[i].queue # NoQueue => S[i].incarnation # 0
                     /\ i > c => S[i] = EmptySlot

SlotsOK(S, toks, bar, d) == \A i \in Slots : SlotOK(S[i], i, toks, bar, d)

\* The latest snapshot claims no more of a registered slot than the slot does.
SnapshotOK(S, snap, inc) ==
    \A i \in Slots :
       /\ snap[i].incarnation <= inc
       /\ snap[i].incarnation # 0 /\ snap[i].incarnation = S[i].incarnation =>
             snap[i].retired <= S[i].retired

ForgottenOK(S, toks, d) ==
    \A t \in toks : S[t.slot].incarnation # t.incarnation => Covered(t, d)

\* No token is taken while a reset drains, and what is left to drain covers
\* every token of a registered slot.
ResetOK(S, toks, d) ==
    /\ reset.at \in {"copy", "wait", "accept"} => ~accepting
    /\ reset.at = "wait" /\ reset.drained =>
          \A t \in toks : S[t.slot].incarnation = t.incarnation =>
             t.queue \in reset.waits \/ Covered(t, d)

IInv == /\ TypeOK
        /\ DeviceOK(submitted, barriers, done)
        /\ TokensOK(issued, submitted, incarnations)
        /\ RegistryOK(slots, count, incarnations)
        /\ SlotsOK(slots, issued, barriers, done)
        /\ SnapshotOK(slots, snapshot, incarnations)
        /\ ForgottenOK(slots, issued, done)
        /\ ResetOK(slots, issued, done)

-----------------------------------------------------------------------------
(* The helpers of the critical sections.                                    *)

\* Polling changes what it says it changes, and keeps the type of the slot.
LEMMA PolledFields ==
    ASSUME NEW s \in SlotRecord, NEW high \in Nat, NEW unanswered
    PROVE  LET p == Polled(s, high, unanswered) IN
           /\ p.queue = s.queue /\ p.incarnation = s.incarnation
           /\ p.open = s.open /\ p.pending = s.pending
           /\ p.fences \subseteq s.fences /\ p.retired = high
           /\ p \in SlotRecord
  BY DEF Polled, SlotRecord, Completed

\* Closing a batch changes what it says it changes, likewise.
LEMMA FencedFields ==
    ASSUME NEW s \in SlotRecord, NEW n \in Nat, s.queue \in Queues,
           submitted[s.queue] = n
    PROVE  /\ Fenced(s).queue = s.queue /\ Fenced(s).incarnation = s.incarnation
           /\ Fenced(s).retired = s.retired /\ Fenced(s).open = s.open + 1
           /\ Fenced(s).fences = s.fences \cup {[generation |-> s.open, at |-> n + 1]}
           /\ Fenced(s) \in SlotRecord
  BY DEF Fenced, SlotRecord

\* Polling a slot retires only generations whose tokens are covered, and
\* keeps what the slot owes to the others (poll_retire_queue_locked).
LEMMA PollKeeps ==
    ASSUME TypeOK, DeviceOK(submitted, barriers, done),
           NEW s \in SlotRecord, NEW i \in Slots,
           SlotOK(s, i, issued, barriers, done),
           NEW unanswered, NEW high \in 0..MaxGeneration,
           IsRetiredBy(high, s, unanswered)
    PROVE  LET p == Polled(s, high, unanswered) IN
           /\ p \in SlotRecord
           /\ SlotOK(p, i, issued, barriers, done)
           /\ s.retired <= p.retired
           /\ p.queue = s.queue /\ p.incarnation = s.incarnation
           /\ p.open = s.open /\ p.pending = s.pending
           /\ p.fences \subseteq s.fences
  <1> DEFINE p == Polled(s, high, unanswered)
  <1>1. /\ p.queue = s.queue /\ p.incarnation = s.incarnation
        /\ p.open = s.open /\ p.pending = s.pending
        /\ p.fences \subseteq s.fences /\ p.retired = high
        /\ p \in SlotRecord
    BY PolledFields, RetireAssumption
  <1>2. high = s.retired \/ \E f \in Completed(s, unanswered) : high = f.generation
    BY DEF IsRetiredBy
  <1>3. s.retired <= high
    BY DEF IsRetiredBy, SlotRecord
  <1>4. high < s.open
    BY <1>2 DEF SlotOK, Completed
  <1>5. ASSUME NEW t \in issued, t.slot = i, t.incarnation = s.incarnation,
               t.generation <= high
        PROVE  Covered(t, done)
    <2>1. CASE high = s.retired
      BY <2>1, <1>5 DEF SlotOK
    <2>2. CASE \E f \in Completed(s, unanswered) : high = f.generation
      <3>1. PICK f \in Completed(s, unanswered) : high = f.generation
        BY <2>2
      <3>2. f \in s.fences /\ f.at \in done[s.queue]
        BY <3>1 DEF Completed
      <3>3. f.at \in barriers[s.queue] /\ s.queue \in Queues
        BY <3>2 DEF SlotOK, SlotRecord
      <3>4. 1..(f.at - 1) \subseteq done[s.queue]
        BY <3>2, <3>3 DEF DeviceOK
      <3>5. t.upto < f.at /\ t.queue = s.queue
        BY <1>5, <3>1, <3>2 DEF SlotOK
      <3>6. t.upto \in Nat /\ f.at \in Nat
        BY <3>2 DEF TypeOK, Token, SlotRecord
      <3>. QED
        BY <3>4, <3>5, <3>6 DEF Covered
    <2>. QED
      BY <1>2, <2>1, <2>2
  <1>6. SlotOK(p, i, issued, barriers, done)
    BY <1>1, <1>4, <1>5 DEF SlotOK
  <1>. QED
    BY <1>1, <1>3, <1>6

\* A slot keeps its promises while the device moves on.
LEMMA DeviceGrows ==
    ASSUME NEW s \in SlotRecord, NEW i, NEW toks \in SUBSET Token,
           NEW bar, NEW d, NEW bar2, NEW d2,
           SlotOK(s, i, toks, bar, d),
           \A q \in Queues : bar[q] \subseteq bar2[q] /\ d[q] \subseteq d2[q]
    PROVE  SlotOK(s, i, toks, bar2, d2)
  BY DEF SlotOK, SlotRecord, Covered, Token

\* Barriers submitted at the end of their queues keep the device in order.
LEMMA BarriersKeepOrder ==
    ASSUME TypeOK, DeviceOK(submitted, barriers, done), NEW F, NEW S,
           SubmitBarriers(F, S)
    PROVE  /\ DeviceOK(submitted', barriers', done')
           /\ submitted' \in [Queues -> Nat] /\ barriers' \in [Queues -> SUBSET Nat]
           /\ done' = done
           /\ \A q \in Queues : /\ submitted[q] <= submitted'[q]
                                /\ barriers[q] \subseteq barriers'[q]
           /\ \A i \in F : S[i].queue \in Queues =>
                 submitted[S[i].queue] + 1 \in barriers'[S[i].queue]
  BY DEF TypeOK, DeviceOK, SubmitBarriers

\* A new fence comes after every operator its generation's tokens stand for
\* (submit_retire_fence_locked).
LEMMA FenceKeeps ==
    ASSUME NEW sub \in [Queues -> Nat], NEW s \in SlotRecord, NEW i \in Slots,
           NEW toks \in SUBSET Token, NEW bar, NEW d,
           sub = submitted,
           SlotOK(s, i, toks, bar, d),
           \A t \in toks : t.upto <= sub[t.queue],
           s.queue \in Queues, sub[s.queue] + 1 \in bar[s.queue]
    PROVE  /\ Fenced(s) \in SlotRecord
           /\ SlotOK(Fenced(s), i, toks, bar, d)
           /\ Fenced(s).queue = s.queue /\ Fenced(s).incarnation = s.incarnation
           /\ Fenced(s).retired = s.retired
  <1>1. /\ Fenced(s).queue = s.queue /\ Fenced(s).incarnation = s.incarnation
        /\ Fenced(s).retired = s.retired /\ Fenced(s).open = s.open + 1
        /\ Fenced(s).fences = s.fences \cup {[generation |-> s.open,
                                              at |-> sub[s.queue] + 1]}
        /\ Fenced(s) \in SlotRecord
    BY FencedFields
  <1>2. /\ s.open \in Nat /\ s.retired \in Nat
        /\ \A f \in s.fences : f.generation \in Nat /\ f.at \in Nat
        /\ \A t \in toks : t.generation \in Nat /\ t.upto \in Nat
    BY DEF SlotRecord, Token
  <1>3. /\ Fenced(s).retired < Fenced(s).open
        /\ Fenced(s).queue # NoQueue
    BY <1>1, <1>2, RetireAssumption DEF SlotOK
  <1>4. ASSUME NEW f \in Fenced(s).fences
        PROVE  f.generation < Fenced(s).open /\ f.at \in bar[Fenced(s).queue]
    BY <1>1, <1>2, <1>4 DEF SlotOK
  <1>5. ASSUME NEW t \in toks, t.slot = i, t.incarnation = Fenced(s).incarnation
        PROVE  /\ t.queue = Fenced(s).queue
               /\ t.generation <= Fenced(s).open
               /\ \A f \in Fenced(s).fences : t.generation <= f.generation => t.upto < f.at
               /\ t.generation <= Fenced(s).retired => Covered(t, d)
    <2>1. t.queue = s.queue /\ t.generation <= s.open /\ t.upto <= sub[s.queue]
      BY <1>1, <1>5 DEF SlotOK
    <2>2. sub[s.queue] \in Nat
      OBVIOUS
    <2>. QED
      BY <1>1, <1>2, <1>5, <2>1, <2>2 DEF SlotOK
  <1>. QED
    BY <1>1, <1>3, <1>4, <1>5 DEF SlotOK

-----------------------------------------------------------------------------
(* Registering a queue.                                                     *)

\* What aimdo_xpu_note_queue_locked leaves behind: the registry as it was but
\* for at most one empty slot taken into use under a fresh incarnation.
Extends(S, c, inc) ==
    /\ S \in [Slots -> SlotRecord]
    /\ c \in 0..MaxTracked
    /\ inc \in 0..MaxIncarnation /\ incarnations <= inc
    /\ RegistryOK(S, c, inc)
    /\ \A i \in Slots :
          \/ S[i] = slots[i]
          \/ /\ slots[i] = EmptySlot
             /\ accepting
             /\ S[i].incarnation > incarnations
             /\ S[i].fences = {} /\ S[i].retired = 0

\* A lookup finds the queue, refuses it, loses it in an empty slot, or adds it.
LEMMA NotedExtends ==
    ASSUME TypeOK, RegistryOK(slots, count, incarnations),
           NEW q \in Queues, NEW throws \in BOOLEAN, NEW n \in Noted(q, throws)
    PROVE  /\ Extends(n.reg.slots, n.reg.count, n.reg.inc)
           /\ n.slot \in 0..MaxTracked
           /\ n.slot # 0 => /\ accepting
                            /\ n.reg.slots[n.slot].queue = q
  <1> DEFINE known == {i \in 1..count : slots[i].queue = q}
             same  == [slots |-> slots, count |-> count, inc |-> incarnations]
             fresh == FreshSlot(q, incarnations + 1)
             grown == [slots EXCEPT ![count + 1] = fresh]
             added == [slots |-> grown,
                       count |-> count + 1, inc |-> incarnations + 1]
             lost  == [slots |-> slots, count |-> count + 1, inc |-> incarnations]
             full  == count >= MaxTracked \/ incarnations >= MaxIncarnation
  <1>1. \/ n = [slot |-> 0, reg |-> same]
        \/ accepting /\ \E i \in known : n = [slot |-> i, reg |-> same]
        \/ accepting /\ ~full /\ n = [slot |-> 0, reg |-> lost]
        \/ accepting /\ ~full /\ n = [slot |-> count + 1, reg |-> added]
    <2>. HIDE DEF known, same, added, lost, full
    <2>1. n \in IF accepting /\ known # {}
               THEN {[slot |-> i, reg |-> same] : i \in known}
               ELSE IF ~accepting \/ full
               THEN {[slot |-> 0, reg |-> same]}
               ELSE IF throws
               THEN {[slot |-> 0, reg |-> same], [slot |-> 0, reg |-> lost]}
               ELSE {[slot |-> count + 1, reg |-> added]}
      BY DEF Noted, known, same, added, lost, full
    <2>. QED
      BY <2>1
  <1>2. /\ slots \in [Slots -> SlotRecord] /\ count \in 0..MaxTracked
        /\ incarnations \in 0..MaxIncarnation
        /\ MaxTracked \in Nat /\ MaxIncarnation \in Nat
    BY RetireAssumption DEF TypeOK
  <1>3. Extends(slots, count, incarnations)
    BY <1>2 DEF Extends
  <1>4. CASE n = [slot |-> 0, reg |-> same]
    BY <1>2, <1>3, <1>4
  <1>5. CASE accepting /\ \E i \in known : n = [slot |-> i, reg |-> same]
    BY <1>2, <1>3, <1>5
  <1>6. CASE accepting /\ ~full /\ n = [slot |-> 0, reg |-> lost]
    <2>1. count + 1 \in 0..MaxTracked
      BY <1>2, <1>6
    <2>2. RegistryOK(slots, count + 1, incarnations)
      BY <1>2 DEF RegistryOK, Slots
    <2>3. Extends(slots, count + 1, incarnations)
      BY <1>2, <2>1, <2>2 DEF Extends
    <2>. QED
      BY <1>2, <1>6, <2>3
  <1>7. CASE accepting /\ ~full /\ n = [slot |-> count + 1, reg |-> added]
    <2>1. count + 1 \in Slots /\ slots[count + 1] = EmptySlot
      BY <1>2, <1>7 DEF RegistryOK, Slots
    <2>2. fresh \in SlotRecord
      BY <1>2 DEF SlotRecord, FreshSlot
    <2>3. /\ fresh.queue = q /\ fresh.incarnation = incarnations + 1
          /\ fresh.fences = {} /\ fresh.retired = 0
      BY DEF FreshSlot
    <2>. HIDE DEF fresh
    <2>4. /\ grown \in [Slots -> SlotRecord]
          /\ grown[count + 1] = fresh
          /\ \A i \in Slots : i # count + 1 => grown[i] = slots[i]
      BY <1>2, <2>1, <2>2
    <2>. HIDE DEF grown
    <2>5. RegistryOK(grown, count + 1, incarnations + 1)
      <3>. SUFFICES ASSUME NEW i \in Slots
                    PROVE  /\ grown[i].incarnation <= incarnations + 1
                           /\ grown[i].queue # NoQueue => grown[i].incarnation # 0
                           /\ i > count + 1 => grown[i] = EmptySlot
        BY DEF RegistryOK
      <3>1. CASE i = count + 1
        BY <1>2, <2>3, <2>4, <3>1
      <3>2. CASE i # count + 1
        <4>1. grown[i] = slots[i] /\ slots[i].incarnation \in Nat
          BY <1>2, <2>4, <3>2 DEF SlotRecord
        <4>2. /\ slots[i].incarnation <= incarnations
              /\ slots[i].queue # NoQueue => slots[i].incarnation # 0
              /\ i > count => slots[i] = EmptySlot
          BY DEF RegistryOK
        <4>3. i \in Nat
          BY <1>2 DEF Slots
        <4>. QED
          BY <1>2, <4>1, <4>2, <4>3
      <3>. QED
        BY <3>1, <3>2
    <2>6. Extends(grown, count + 1, incarnations + 1)
      <3>1. ASSUME NEW i \in Slots
            PROVE  \/ grown[i] = slots[i]
                   \/ /\ slots[i] = EmptySlot
                      /\ accepting
                      /\ grown[i].incarnation > incarnations
                      /\ grown[i].fences = {} /\ grown[i].retired = 0
        BY <1>2, <1>7, <2>1, <2>3, <2>4
      <3>. QED
        BY <1>2, <1>7, <2>4, <2>5, <3>1 DEF Extends
    <2>. QED
      BY <1>2, <1>7, <2>1, <2>3, <2>4, <2>6
  <1>. QED
    BY <1>1, <1>4, <1>5, <1>6, <1>7

-----------------------------------------------------------------------------
(* The registry under the ledger of tokens: what IInv says of the slots,     *)
(* for a registry S that takes the place of the current one.                 *)
Ledger(S, inc) ==
    /\ SlotsOK(S, issued, barriers, done)
    /\ TokensOK(issued, submitted, inc)
    /\ SnapshotOK(S, snapshot, inc)
    /\ ForgottenOK(S, issued, done)

\* A registered queue changes nothing for the tokens that are out.
LEMMA ExtendsKeeps ==
    ASSUME IInv, NEW S, NEW c, NEW inc, Extends(S, c, inc)
    PROVE  Ledger(S, inc)
  <1>1. /\ issued \subseteq Token /\ S \in [Slots -> SlotRecord]
        /\ slots \in [Slots -> SlotRecord]
        /\ incarnations \in Nat /\ inc \in Nat /\ incarnations <= inc
        /\ snapshot \in [Slots -> [incarnation : Nat, retired : Nat]]
    BY RetireAssumption DEF IInv, TypeOK, Extends
  <1>2. \A t \in issued : /\ t.slot \in Slots /\ t.incarnation \in Nat
                          /\ t.incarnation \in 1..incarnations
                          /\ t.upto <= submitted[t.queue]
    BY <1>1 DEF IInv, TokensOK, Token
  <1>3. TokensOK(issued, submitted, inc)
    BY <1>1, <1>2 DEF TokensOK
  <1>4. ASSUME NEW i \in Slots
        PROVE  /\ SlotOK(S[i], i, issued, barriers, done)
               /\ snapshot[i].incarnation <= inc
               /\ snapshot[i].incarnation # 0
                     /\ snapshot[i].incarnation = S[i].incarnation =>
                        snapshot[i].retired <= S[i].retired
               /\ \A t \in issued : t.slot = i /\ S[i].incarnation # t.incarnation =>
                                       Covered(t, done)
    <2>1. /\ SlotOK(slots[i], i, issued, barriers, done)
          /\ snapshot[i].incarnation <= incarnations
          /\ snapshot[i].incarnation # 0
                /\ snapshot[i].incarnation = slots[i].incarnation =>
                   snapshot[i].retired <= slots[i].retired
          /\ \A t \in issued : t.slot = i /\ slots[i].incarnation # t.incarnation =>
                                  Covered(t, done)
      BY DEF IInv, SlotsOK, SnapshotOK, ForgottenOK
    <2>2. snapshot[i].incarnation \in Nat
      BY <1>1
    <2>3. CASE S[i] = slots[i]
      BY <1>1, <2>1, <2>2, <2>3
    <2>4. CASE /\ slots[i] = EmptySlot
               /\ S[i].incarnation > incarnations
               /\ S[i].fences = {} /\ S[i].retired = 0
      <3>1. slots[i].incarnation = 0
        BY <2>4 DEF EmptySlot, FreshSlot
      <3>2. S[i].incarnation \in Nat /\ S[i].open \in Nat \ {0}
        BY <1>1 DEF SlotRecord
      <3>3. \A t \in issued : S[i].incarnation # t.incarnation
        BY <1>1, <1>2, <2>4, <3>2
      <3>4. SlotOK(S[i], i, issued, barriers, done)
        BY <2>4, <3>2, <3>3 DEF SlotOK
      <3>5. \A t \in issued : t.slot = i => Covered(t, done)
        BY <1>2, <2>1, <3>1
      <3>6. snapshot[i].incarnation # S[i].incarnation
        BY <1>1, <2>1, <2>2, <2>4, <3>2
      <3>. QED
        BY <1>1, <2>1, <2>2, <3>4, <3>5, <3>6
    <2>. QED
      BY <2>3, <2>4 DEF Extends
  <1>. QED
    BY <1>2, <1>3, <1>4 DEF Ledger, SlotsOK, SnapshotOK, ForgottenOK

-----------------------------------------------------------------------------
(* One lemma per action: it keeps the inductive invariant.                   *)

\* The empty registry.
LEMMA InitIInv == Init => IInv
  <1>. SUFFICES ASSUME Init PROVE IInv
    OBVIOUS
  <1>1. EmptySlot \in SlotRecord
    BY RetireAssumption DEF EmptySlot, FreshSlot, SlotRecord
  <1>2. TypeOK
    <2>1. slots \in [Slots -> SlotRecord]
      BY <1>1 DEF Init
    <2>2. snapshot \in [Slots -> [incarnation : Nat, retired : Nat]]
      BY DEF Init
    <2>3. reset \in ResetRecord
      BY DEF Init, NoReset, ResetRecord
    <2>4. /\ submitted \in [Queues -> Nat]
          /\ barriers \in [Queues -> SUBSET Nat] /\ done \in [Queues -> SUBSET Nat]
      BY DEF Init
    <2>5. count \in 0..MaxTracked /\ incarnations \in 0..MaxIncarnation
      BY RetireAssumption DEF Init
    <2>. QED
      BY <2>1, <2>2, <2>3, <2>4, <2>5 DEF Init, TypeOK
  <1>3. DeviceOK(submitted, barriers, done)
    BY DEF Init, DeviceOK
  <1>4. RegistryOK(slots, count, incarnations)
    BY DEF Init, RegistryOK, EmptySlot, FreshSlot
  <1>5. SlotsOK(slots, issued, barriers, done)
    BY DEF Init, SlotsOK, SlotOK, EmptySlot, FreshSlot
  <1>6. SnapshotOK(slots, snapshot, incarnations)
    BY DEF Init, SnapshotOK
  <1>. QED
    BY <1>2, <1>3, <1>4, <1>5, <1>6
    DEF Init, IInv, TokensOK, ForgottenOK, ResetOK, NoReset

\* An operator is submitted behind everything the tokens stand for.
LEMMA SubmitKeeps ==
    ASSUME IInv, NEW q \in Queues, Submit(q)
    PROVE  IInv'
  <1>. USE DEF Submit, device, registry
  <1>0. submitted' \in [Queues -> Nat]
    BY DEF IInv, TypeOK
  <1>1. TypeOK'
    BY <1>0 DEF IInv, TypeOK
  <1>2. DeviceOK(submitted, barriers, done)'
    BY DEF IInv, TypeOK, DeviceOK
  <1>3. TokensOK(issued, submitted, incarnations)'
    BY DEF IInv, TypeOK, TokensOK, Token
  <1>. QED
    BY <1>1, <1>2, <1>3
    DEF IInv, RegistryOK, SlotsOK, SlotOK, SnapshotOK, ForgottenOK, ResetOK, Covered

\* Finishing a command only adds to what is covered.
LEMMA FinishKeeps ==
    ASSUME IInv, NEW q \in Queues, NEW n \in 1..submitted[q], Finish(q, n)
    PROVE  IInv'
  <1>. USE DEF Finish, registry
  <1>1. /\ done \in [Queues -> SUBSET Nat] /\ submitted \in [Queues -> Nat]
        /\ issued \in SUBSET Token /\ slots \in [Slots -> SlotRecord]
        /\ DeviceOK(submitted, barriers, done)
    BY DEF IInv, TypeOK
  <1>2. /\ done' \in [Queues -> SUBSET Nat]
        /\ \A r \in Queues : done[r] \subseteq done'[r]
        /\ \A r \in Queues \ {q} : done'[r] = done[r]
        /\ done'[q] = done[q] \cup {n}
    BY <1>1
  <1>3. TypeOK'
    BY <1>2 DEF IInv, TypeOK
  <1>4. DeviceOK(submitted, barriers, done)'
    BY <1>1, <1>2 DEF DeviceOK
  <1>5. SlotsOK(slots, issued, barriers, done)'
    BY <1>1, <1>2, DeviceGrows DEF IInv, SlotsOK
  <1>6. \A t \in issued : Covered(t, done) => Covered(t, done')
    BY <1>1, <1>2 DEF Covered, Token
  <1>. QED
    BY <1>3, <1>4, <1>5, <1>6
    DEF IInv, TokensOK, RegistryOK, SnapshotOK, ForgottenOK, ResetOK

\* A consumer queue is registered.
LEMMA RegisterKeeps ==
    ASSUME IInv, NEW q \in Queues, NEW throws \in BOOLEAN, Register(q, throws)
    PROVE  IInv'
  <1>. USE DEF Register, MayThrow, device
  <1>1. PICK n \in Noted(q, throws) : /\ slots' = n.reg.slots
                                      /\ count' = n.reg.count
                                      /\ incarnations' = n.reg.inc
    OBVIOUS
  <1>2. Extends(slots', count', incarnations')
    BY <1>1, NotedExtends DEF IInv
  <1>3. Ledger(slots', incarnations')
    BY <1>2, ExtendsKeeps
  <1>4. TypeOK'
    BY <1>2, RetireAssumption DEF IInv, TypeOK, Extends
  <1>5. ResetOK(slots, issued, done)'
    <2>1. CASE accepting
      BY <2>1 DEF IInv, ResetOK, TypeOK
    <2>2. CASE ~accepting
      <3>1. \A i \in Slots : slots'[i] = slots[i]
        BY <1>2, <2>2 DEF Extends
      <3>. QED
        BY <3>1 DEF IInv, ResetOK, TypeOK, Token
    <2>. QED
      BY <2>1, <2>2
  <1>. QED
    BY <1>2, <1>3, <1>4, <1>5
    DEF IInv, Extends, Ledger, TokensOK, SlotsOK, SlotOK, SnapshotOK, ForgottenOK,
        DeviceOK, Covered

\* The steps of a reset that leave the slots alone.
LEMMA ResetBeginKeeps ==
    ASSUME IInv, NEW caller \in {"set_queues", "cleanup"}, ResetBegin(caller)
    PROVE  IInv'
  <1>. USE DEF ResetBegin, device
  <1>1. TypeOK'
    BY DEF IInv, TypeOK, ResetRecord
  <1>. QED
    BY <1>1 DEF IInv, DeviceOK, TokensOK, RegistryOK, SlotsOK, SlotOK, SnapshotOK,
                ForgottenOK, ResetOK, Covered

\* What is left to drain covers every slot of the registry.
LEMMA ResetCopyKeeps ==
    ASSUME IInv, ResetCopy
    PROVE  IInv'
  <1>. USE DEF ResetCopy, device, registry
  <1>0. reset \in ResetRecord /\ slots \in [Slots -> SlotRecord]
        /\ count \in 0..MaxTracked /\ MaxTracked \in Nat
    BY RetireAssumption DEF IInv, TypeOK
  <1>1. TypeOK'
    <2>1. {slots[i].queue : i \in 1..count} \ {NoQueue} \in SUBSET Queues
      BY <1>0 DEF SlotRecord, Slots
    <2>2. reset' \in ResetRecord
      BY <1>0, <2>1 DEF ResetRecord
    <2>. QED
      BY <2>2 DEF IInv, TypeOK
  <1>2. ASSUME NEW t \in issued, slots[t.slot].incarnation = t.incarnation
        PROVE  t.queue \in {slots[i].queue : i \in 1..count} \ {NoQueue}
    <2>1. /\ t.slot \in Slots /\ t.queue \in Queues /\ t.incarnation # 0
          /\ t.slot \in Nat /\ count \in Nat
      <3>1. t \in Token /\ t.incarnation # 0
        BY DEF IInv, TypeOK, TokensOK
      <3>. QED
        BY <1>0, <3>1 DEF Token, Slots
    <2>2. slots[t.slot] # EmptySlot
      BY <1>2, <2>1 DEF EmptySlot, FreshSlot
    <2>3. t.slot \in 1..count
      BY <2>1, <2>2 DEF IInv, RegistryOK, Slots
    <2>4. t.queue = slots[t.slot].queue
      BY <1>2, <2>1 DEF IInv, SlotsOK, SlotOK
    <2>. QED
      BY <2>1, <2>3, <2>4, RetireAssumption
  <1>3. ResetOK(slots, issued, done)'
    BY <1>2 DEF IInv, ResetOK, TypeOK
  <1>. QED
    BY <1>1, <1>3 DEF IInv, DeviceOK, TokensOK, RegistryOK, SlotsOK, SlotOK,
                      SnapshotOK, ForgottenOK, Covered

\* A queue that was waited for has finished everything; a wait that threw
\* clears the drain.
LEMMA ResetWaitKeeps ==
    ASSUME IInv, NEW q \in Queues, NEW throws \in BOOLEAN, ResetWait(q, throws)
    PROVE  IInv'
  <1>. USE DEF ResetWait, MayThrow, device, registry
  <1>1. TypeOK'
    <2>1. reset \in ResetRecord /\ faults \in Nat
      BY DEF IInv, TypeOK
    <2>2. reset' \in ResetRecord
      BY <2>1 DEF ResetRecord
    <2>3. faults' \in Nat
      BY <2>1
    <2>. QED
      BY <2>2, <2>3 DEF IInv, TypeOK
  <1>2. ASSUME NEW t \in issued, t.queue = q, ~throws
        PROVE  Covered(t, done)
    BY <1>2 DEF IInv, TypeOK, TokensOK, Token, Covered
  <1>3. ResetOK(slots, issued, done)'
    BY <1>2 DEF IInv, ResetOK, TypeOK
  <1>. QED
    BY <1>1, <1>3 DEF IInv, DeviceOK, TokensOK, RegistryOK, SlotsOK, SlotOK,
                      SnapshotOK, ForgottenOK, Covered

\* A drained reset forgets the slots: every token of theirs is covered.
LEMMA ResetEndKeeps ==
    ASSUME IInv, ResetEnd
    PROVE  IInv'
  <1>. USE DEF ResetEnd, device
  <1>0. EmptySlot \in SlotRecord /\ EmptySlot.incarnation = 0
        /\ EmptySlot.retired = 0 /\ EmptySlot.open = 1 /\ EmptySlot.fences = {}
    BY RetireAssumption DEF EmptySlot, FreshSlot, SlotRecord
  <1>1. TypeOK'
    <2>1. slots' \in [Slots -> SlotRecord] /\ count' \in 0..MaxTracked
      BY <1>0, RetireAssumption DEF IInv, TypeOK
    <2>2. reset' \in ResetRecord
      BY DEF IInv, TypeOK, NoReset, ResetRecord
    <2>. QED
      BY <2>1, <2>2 DEF IInv, TypeOK
  <1>2. ResetOK(slots, issued, done)'
    BY DEF IInv, ResetOK, NoReset, TypeOK
  <1>3. CASE ~reset.drained
    BY <1>1, <1>2, <1>3
    DEF IInv, DeviceOK, TokensOK, RegistryOK, SlotsOK, SlotOK, SnapshotOK,
        ForgottenOK, Covered
  <1>4. CASE reset.drained
    <2>1. \A t \in issued : Covered(t, done)
      BY <1>4 DEF IInv, ResetOK, ForgottenOK
    <2>2. \A i \in Slots : slots'[i] = EmptySlot
      BY <1>4
    <2>3. \A t \in issued : t.incarnation # 0
      BY DEF IInv, TokensOK
    <2>4. RegistryOK(slots, count, incarnations)'
      <3>1. EmptySlot.queue = NoQueue
        BY DEF EmptySlot, FreshSlot
      <3>2. 0 <= incarnations'
        BY RetireAssumption DEF IInv, TypeOK
      <3>. QED
        BY <1>0, <2>2, <3>1, <3>2 DEF RegistryOK
    <2>5. SlotsOK(slots, issued, barriers, done)'
      BY <1>0, <2>2, <2>3 DEF SlotsOK, SlotOK
    <2>6. SnapshotOK(slots, snapshot, incarnations)'
      BY <1>0, <2>2 DEF IInv, SnapshotOK
    <2>7. ForgottenOK(slots, issued, done)'
      BY <2>1 DEF ForgottenOK, Covered
    <2>. QED
      BY <1>1, <1>2, <2>4, <2>5, <2>6, <2>7 DEF IInv, DeviceOK, TokensOK
  <1>. QED
    BY <1>3, <1>4

\* Opening the registry again, and entering its first queue.
LEMMA AcceptKeeps ==
    ASSUME IInv, Accept \/ RuntimeInit
    PROVE  IInv'
  <1>. USE DEF Accept, RuntimeInit, device
  <1>1. TypeOK'
    <2>1. reset \in ResetRecord
      BY DEF IInv, TypeOK
    <2>2. reset' \in ResetRecord /\ accepting' \in BOOLEAN
      BY <2>1 DEF ResetRecord
    <2>. QED
      BY <2>2 DEF IInv, TypeOK
  <1>2. /\ reset'.at \in {"copy", "wait", "accept"} => ~accepting'
        /\ reset'.at # "wait" \/ reset' = reset
    <2>1. reset \in ResetRecord
      BY DEF IInv, TypeOK
    <2>. QED
      BY <2>1 DEF ResetRecord
  <1>. QED
    BY <1>1, <1>2 DEF IInv, DeviceOK, TokensOK, RegistryOK, SlotsOK, SlotOK,
                      SnapshotOK, ForgottenOK, ResetOK, Covered

\* The initial queue is registered, and the registry closed when that fails.
LEMMA NoteInitialKeeps ==
    ASSUME IInv, NEW throws \in BOOLEAN, NoteInitial(throws)
    PROVE  IInv'
  <1>. USE DEF NoteInitial, MayThrow, device
  <1>1. PICK n \in Noted(InitialQueue, throws) : /\ slots' = n.reg.slots
                                                 /\ count' = n.reg.count
                                                 /\ incarnations' = n.reg.inc
                                                 /\ accepting' = (n.slot # 0)
    OBVIOUS
  <1>2. Extends(slots', count', incarnations')
    BY <1>1, NotedExtends, RetireAssumption DEF IInv
  <1>3. Ledger(slots', incarnations')
    BY <1>2, ExtendsKeeps
  <1>4. reset' \in ResetRecord
    BY DEF NoReset, ResetRecord
  <1>5. TypeOK'
    BY <1>1, <1>2, <1>4, RetireAssumption DEF IInv, TypeOK, Extends
  <1>6. ResetOK(slots, issued, done)'
    BY DEF ResetOK, NoReset
  <1>. QED
    BY <1>2, <1>3, <1>5, <1>6
    DEF IInv, Extends, Ledger, TokensOK, SlotsOK, SlotOK, SnapshotOK, ForgottenOK,
        DeviceOK, Covered

\* Taking a token from the open generation of a slot whose queue is q.
LEMMA TokenKeeps ==
    ASSUME NEW p \in SlotRecord, NEW i \in Slots, NEW q \in Queues, NEW n \in Nat,
           SlotOK(p, i, issued, barriers, done), p.queue = q
    PROVE  LET u == IF p.pending < BatchUses
                    THEN [p EXCEPT !.pending = @ + 1] ELSE p
               tok == [slot |-> i, incarnation |-> p.incarnation,
                       generation |-> p.open, queue |-> q, upto |-> n]
           IN  /\ u \in SlotRecord /\ tok \in Token
               /\ u.queue = q /\ u.incarnation = p.incarnation
               /\ u.retired = p.retired
               /\ SlotOK(u, i, issued \cup {tok}, barriers, done)
  <1> DEFINE u == IF p.pending < BatchUses
                  THEN [p EXCEPT !.pending = @ + 1] ELSE p
             tok == [slot |-> i, incarnation |-> p.incarnation,
                     generation |-> p.open, queue |-> q, upto |-> n]
  <1>1. /\ u \in SlotRecord /\ u.queue = q /\ u.incarnation = p.incarnation
        /\ u.retired = p.retired /\ u.open = p.open /\ u.fences = p.fences
    BY DEF SlotRecord
  <1>2. /\ tok \in Token /\ tok.queue = q /\ tok.generation = p.open
        /\ tok.incarnation = p.incarnation /\ tok.slot = i
    BY DEF Token, SlotRecord
  <1>3. /\ p.open \in Nat /\ p.retired \in Nat
        /\ \A f \in p.fences : f.generation \in Nat
    BY DEF SlotRecord
  <1>. HIDE DEF u, tok
  <1>4. SlotOK(u, i, issued \cup {tok}, barriers, done)
    BY <1>1, <1>2, <1>3 DEF SlotOK
  <1>. QED
    BY <1>1, <1>2, <1>4 DEF u, tok

\* A slot of the registry has a queue only under an incarnation that was given.
LEMMA RegisteredSlot ==
    ASSUME NEW S \in [Slots -> SlotRecord], NEW c \in Nat, NEW inc \in Nat,
           RegistryOK(S, c, inc), NEW i \in Slots, S[i].queue \in Queues
    PROVE  S[i].incarnation \in 1..inc /\ i <= c
  <1>1. S[i].queue # NoQueue /\ S[i].incarnation \in Nat /\ i \in Nat
    <2>1. S[i] \in SlotRecord
      OBVIOUS
    <2>2. NoQueue \notin Queues
      BY RetireAssumption
    <2>3. i \in Nat
      BY RetireAssumption DEF Slots
    <2>. QED
      BY <2>1, <2>2, <2>3 DEF SlotRecord
  <1>2. S[i] # EmptySlot
    BY <1>1 DEF EmptySlot, FreshSlot
  <1>. QED
    BY <1>1, <1>2 DEF RegistryOK

\* Handing out a token: register, poll, count the use, close a full batch.
LEMMA TokenCurrentKeeps ==
    ASSUME IInv, NEW q \in Queues, NEW throws \in BOOLEAN,
           NEW unanswered, NEW refused, TokenCurrent(q, throws, unanswered, refused)
    PROVE  IInv'
  <1>1. PICK n \in Noted(q, throws) :
          /\ count' = n.reg.count
          /\ incarnations' = n.reg.inc
          /\ IF n.slot = 0
             THEN /\ slots' = n.reg.slots
                  /\ UNCHANGED <<device, issued>>
             ELSE \E high \in 0..MaxGeneration :
                  LET s == n.reg.slots[n.slot]
                      p == Polled(s, high, unanswered)
                      u == IF p.pending < BatchUses
                           THEN [p EXCEPT !.pending = @ + 1] ELSE p
                      F == {i \in {n.slot} \ refused :
                               u.pending >= BatchUses /\ CanFence(u)}
                  IN  /\ IsRetiredBy(high, s, unanswered)
                      /\ IF p.open > MaxGeneration
                         THEN /\ slots' = [n.reg.slots EXCEPT ![n.slot] = p]
                              /\ UNCHANGED <<device, issued>>
                         ELSE /\ issued' = issued \cup {[slot        |-> n.slot,
                                                         incarnation |-> p.incarnation,
                                                         generation  |-> p.open,
                                                         queue       |-> q,
                                                         upto        |-> submitted[q]]}
                              /\ slots' = [n.reg.slots EXCEPT ![n.slot] =
                                             IF F # {} THEN Fenced(u) ELSE u]
                              /\ SubmitBarriers(F, n.reg.slots)
    BY DEF TokenCurrent
  <1>2. /\ UNCHANGED <<accepting, reset, snapshot>>
        /\ faults' \in Nat
    <2>1. faults \in Nat
      BY DEF IInv, TypeOK
    <2>2. /\ UNCHANGED <<accepting, reset, snapshot>>
          /\ MayThrow(throws \/ unanswered # {} \/ refused # {})
      BY Zenon DEF TokenCurrent
    <2>. QED
      BY <2>1, <2>2 DEF MayThrow
  <1> DEFINE S == n.reg.slots
             k == n.slot
  <1>3. /\ Extends(S, count', incarnations')
        /\ k \in 0..MaxTracked
        /\ k # 0 => accepting /\ S[k].queue = q
    BY <1>1, NotedExtends DEF IInv
  <1>4. Ledger(S, incarnations')
    BY <1>3, ExtendsKeeps
  <1>5. /\ S \in [Slots -> SlotRecord] /\ RegistryOK(S, count', incarnations')
        /\ count' \in 0..MaxTracked /\ incarnations' \in 0..MaxIncarnation
        /\ MaxTracked \in Nat /\ MaxIncarnation \in Nat /\ MaxGeneration \in Nat
    BY <1>3, RetireAssumption DEF Extends
  <1>6. /\ SlotsOK(S, issued, barriers, done)
        /\ TokensOK(issued, submitted, incarnations')
        /\ SnapshotOK(S, snapshot, incarnations')
        /\ ForgottenOK(S, issued, done)
    BY <1>4 DEF Ledger
  <1>. HIDE DEF S
  <1>7. CASE k = 0
    <2>1. slots' = S /\ UNCHANGED <<device, issued>>
      BY <1>1, <1>7 DEF S
    <2>2. TypeOK'
      BY <1>2, <1>5, <2>1 DEF IInv, TypeOK, device
    <2>3. ResetOK(slots, issued, done)'
      <3>1. CASE accepting
        BY <1>2, <3>1 DEF IInv, ResetOK, TypeOK
      <3>2. CASE ~accepting
        <4>1. \A i \in Slots : slots'[i] = slots[i]
          BY <1>3, <2>1, <3>2 DEF Extends
        <4>. QED
          BY <1>2, <2>1, <4>1 DEF IInv, ResetOK, TypeOK, Token, device
      <3>. QED
        BY <3>1, <3>2
    <2>. QED
      BY <1>2, <1>5, <1>6, <2>1, <2>2, <2>3
      DEF IInv, DeviceOK, TokensOK, SlotsOK, SlotOK, SnapshotOK, ForgottenOK,
          Covered, device
  <1>8. CASE k # 0
    <2>1. /\ k \in Slots /\ accepting /\ S[k].queue = q
          /\ S[k] \in SlotRecord /\ SlotOK(S[k], k, issued, barriers, done)
      BY <1>3, <1>5, <1>6, <1>8 DEF Slots, SlotsOK
    <2>2. PICK high \in 0..MaxGeneration :
            LET p == Polled(S[k], high, unanswered)
                u == IF p.pending < BatchUses
                     THEN [p EXCEPT !.pending = @ + 1] ELSE p
                F == {i \in {k} \ refused : u.pending >= BatchUses /\ CanFence(u)}
            IN  /\ IsRetiredBy(high, S[k], unanswered)
                /\ IF p.open > MaxGeneration
                   THEN /\ slots' = [S EXCEPT ![k] = p]
                        /\ UNCHANGED <<device, issued>>
                   ELSE /\ issued' = issued \cup {[slot        |-> k,
                                                   incarnation |-> p.incarnation,
                                                   generation  |-> p.open,
                                                   queue       |-> q,
                                                   upto        |-> submitted[q]]}
                        /\ slots' = [S EXCEPT ![k] =
                                       IF F # {} THEN Fenced(u) ELSE u]
                        /\ SubmitBarriers(F, S)
      BY <1>1, <1>8 DEF S
    <2> DEFINE p == Polled(S[k], high, unanswered)
               u == IF p.pending < BatchUses
                    THEN [p EXCEPT !.pending = @ + 1] ELSE p
               F == {i \in {k} \ refused : u.pending >= BatchUses /\ CanFence(u)}
               tok == [slot |-> k, incarnation |-> p.incarnation,
                       generation |-> p.open, queue |-> q, upto |-> submitted[q]]
    <2>3. /\ p \in SlotRecord
          /\ SlotOK(p, k, issued, barriers, done)
          /\ S[k].retired <= p.retired
          /\ p.queue = S[k].queue /\ p.incarnation = S[k].incarnation
      BY <2>1, <2>2, PollKeeps DEF IInv
    <2>4. /\ submitted \in [Queues -> Nat] /\ issued \subseteq Token
          /\ submitted[q] \in Nat
      BY DEF IInv, TypeOK
    <2>5. /\ u \in SlotRecord /\ tok \in Token
          /\ u.queue = q /\ u.incarnation = p.incarnation /\ u.retired = p.retired
          /\ SlotOK(u, k, issued \cup {tok}, barriers, done)
      BY <2>1, <2>3, <2>4, TokenKeeps
    <2>6. ResetOK(slots, issued, done)'
      BY <1>2, <2>1 DEF IInv, ResetOK
    <2>7. S[k].incarnation \in 1..incarnations' /\ k <= count'
      BY <1>5, <2>1, RegisteredSlot
    <2>8. p.open > MaxGeneration =>
             slots' = [S EXCEPT ![k] = p] /\ UNCHANGED <<device, issued>>
      BY <2>2
    <2>9. ~(p.open > MaxGeneration) =>
             /\ issued' = issued \cup {tok}
             /\ slots' = [S EXCEPT ![k] = IF F # {} THEN Fenced(u) ELSE u]
             /\ SubmitBarriers(F, S)
      BY <2>2
    <2>10. \A t \in issued : t.slot \in Slots
      BY <2>4 DEF Token
    <2>11. F \subseteq {k}
      OBVIOUS
    <2>. HIDE DEF p, u, F, tok
    <2>12. ASSUME NEW w \in SlotRecord, slots' = [S EXCEPT ![k] = w],
                  w.queue = q, w.incarnation = p.incarnation, p.retired <= w.retired
           PROVE  /\ slots' \in [Slots -> SlotRecord]
                  /\ RegistryOK(slots, count, incarnations)'
                  /\ SnapshotOK(slots, snapshot, incarnations)'
                  /\ ForgottenOK(slots', issued, done)
                  /\ slots'[k] = w /\ \A i \in Slots : i # k => slots'[i] = S[i]
      <3>1. /\ slots' \in [Slots -> SlotRecord]
            /\ slots'[k] = w /\ \A i \in Slots : i # k => slots'[i] = S[i]
        BY <1>5, <2>1, <2>12
      <3>2. \A i \in Slots : slots'[i].incarnation = S[i].incarnation
        BY <2>3, <2>12, <3>1
      <3>3. \A i \in Slots : S[i].retired <= slots'[i].retired
        <4>1. \A i \in Slots : S[i].retired \in Nat
          BY <1>5 DEF SlotRecord
        <4>2. p.retired \in Nat /\ w.retired \in Nat
          BY <2>3, <2>12 DEF SlotRecord
        <4>3. S[k].retired <= slots'[k].retired
          BY <2>1, <2>3, <2>12, <3>1, <4>1, <4>2
        <4>. QED
          BY <3>1, <4>1, <4>3
      <3>4. RegistryOK(slots', count', incarnations')
        <4>1. k \in Nat /\ count' \in Nat /\ ~(k > count')
          BY <1>5, <2>1, <2>7 DEF Slots
        <4>. QED
          BY <1>5, <2>1, <2>7, <3>1, <3>2, <4>1 DEF RegistryOK
      <3>5. SnapshotOK(slots', snapshot, incarnations')
        <4>1. \A i \in Slots : snapshot[i].retired \in Nat /\ S[i].retired \in Nat
                               /\ slots'[i].retired \in Nat
          BY <1>5, <3>1 DEF IInv, TypeOK, SlotRecord
        <4>. QED
          BY <1>6, <3>2, <3>3, <4>1 DEF SnapshotOK
      <3>. QED
        BY <1>2, <1>6, <2>10, <3>1, <3>2, <3>4, <3>5 DEF ForgottenOK
    <2>13. CASE p.open > MaxGeneration
      <3>1. slots' = [S EXCEPT ![k] = p] /\ UNCHANGED <<device, issued>>
        BY <2>8, <2>13
      <3>2. /\ slots' \in [Slots -> SlotRecord]
            /\ RegistryOK(slots, count, incarnations)'
            /\ SnapshotOK(slots, snapshot, incarnations)'
            /\ ForgottenOK(slots', issued, done)
            /\ slots'[k] = p /\ \A i \in Slots : i # k => slots'[i] = S[i]
        <4>1. p.retired <= p.retired
          BY <2>3 DEF SlotRecord
        <4>. QED
          BY <2>1, <2>3, <2>12, <3>1, <4>1
      <3>3. TypeOK'
        BY <1>2, <1>5, <3>1, <3>2 DEF IInv, TypeOK, device
      <3>4. SlotsOK(slots', issued, barriers, done)
        BY <1>6, <2>3, <3>2 DEF SlotsOK
      <3>. QED
        BY <1>2, <1>6, <2>6, <3>1, <3>2, <3>3, <3>4
        DEF IInv, DeviceOK, TokensOK, SlotsOK, SlotOK, ForgottenOK, Covered, device
    <2>14. CASE ~(p.open > MaxGeneration)
      <3> DEFINE w == IF F # {} THEN Fenced(u) ELSE u
      <3>1. /\ issued' = issued \cup {tok}
            /\ slots' = [S EXCEPT ![k] = w]
            /\ SubmitBarriers(F, S)
        BY <2>9, <2>14
      <3>2. /\ DeviceOK(submitted', barriers', done')
            /\ submitted' \in [Queues -> Nat] /\ barriers' \in [Queues -> SUBSET Nat]
            /\ done' = done
            /\ \A r \in Queues : /\ submitted[r] <= submitted'[r]
                                 /\ barriers[r] \subseteq barriers'[r]
            /\ \A i \in F : S[i].queue \in Queues =>
                  submitted[S[i].queue] + 1 \in barriers'[S[i].queue]
        BY <3>1, BarriersKeepOrder DEF IInv
      <3>3. /\ issued' \in SUBSET Token
            /\ tok.queue = q /\ tok.upto = submitted[q] /\ tok.slot = k
            /\ tok.incarnation = p.incarnation
        BY <2>4, <2>5, <3>1 DEF tok
      <3>4. \A t \in issued' : t.upto <= submitted[t.queue]
        BY <1>6, <2>4, <3>1, <3>3 DEF TokensOK
      <3>5. SlotOK(u, k, issued', barriers', done')
        BY <2>5, <3>1, <3>2, <3>3, DeviceGrows
      <3>6. /\ w \in SlotRecord /\ w.queue = q /\ w.incarnation = p.incarnation
            /\ w.retired = p.retired
            /\ SlotOK(w, k, issued', barriers', done')
        <4>1. CASE F # {}
          <5>1. submitted[q] + 1 \in barriers'[q]
            BY <2>1, <2>11, <3>2, <4>1
          <5>. QED
            BY <2>1, <2>4, <2>5, <3>3, <3>4, <3>5, <4>1, <5>1, FenceKeeps
        <4>2. CASE F = {}
          BY <2>5, <3>5, <4>2
        <4>. QED
          BY <4>1, <4>2
      <3>. HIDE DEF w
      <3>7. /\ slots' \in [Slots -> SlotRecord]
            /\ RegistryOK(slots, count, incarnations)'
            /\ SnapshotOK(slots, snapshot, incarnations)'
            /\ ForgottenOK(slots', issued, done)
            /\ slots'[k] = w /\ \A i \in Slots : i # k => slots'[i] = S[i]
        <4>1. p.retired <= w.retired
          BY <2>3, <3>6 DEF SlotRecord
        <4>. QED
          BY <2>12, <3>1, <3>6, <4>1
      <3>8. TypeOK'
        BY <1>2, <1>5, <3>2, <3>3, <3>7 DEF IInv, TypeOK
      <3>9. TokensOK(issued, submitted, incarnations)'
        <4>1. ASSUME NEW t \in issued'
              PROVE  t.incarnation \in 1..incarnations' /\ t.upto <= submitted'[t.queue]
          <5>1. /\ t.upto \in Nat /\ t.queue \in Queues
                /\ submitted[t.queue] \in Nat /\ submitted'[t.queue] \in Nat
            BY <2>4, <3>2, <3>3 DEF Token
          <5>2. t.upto <= submitted'[t.queue]
            BY <3>2, <3>4, <5>1
          <5>3. t.incarnation \in 1..incarnations'
            BY <1>6, <2>3, <2>7, <3>1, <3>3 DEF TokensOK
          <5>. QED
            BY <5>2, <5>3
        <4>. QED
          BY <4>1 DEF TokensOK
      <3>10. SlotsOK(slots, issued, barriers, done)'
        <4>1. ASSUME NEW i \in Slots, i # k
              PROVE  SlotOK(S[i], i, issued', barriers', done')
          <5>1. SlotOK(S[i], i, issued, barriers', done')
            BY <1>5, <1>6, <2>4, <3>2, DeviceGrows DEF SlotsOK
          <5>. QED
            BY <3>1, <3>3, <4>1, <5>1 DEF SlotOK
        <4>. QED
          BY <3>6, <3>7, <4>1 DEF SlotsOK
      <3>11. ForgottenOK(slots, issued, done)'
        BY <3>1, <3>2, <3>3, <3>6, <3>7 DEF ForgottenOK, Covered
      <3>. QED
        BY <2>6, <3>2, <3>7, <3>8, <3>9, <3>10, <3>11 DEF IInv
    <2>. QED
      BY <2>13, <2>14
  <1>. QED
    BY <1>7, <1>8

\* A pressure boundary polls every slot and closes partial batches.
LEMMA SnapshotKeeps ==
    ASSUME IInv, NEW force \in BOOLEAN, NEW unanswered, NEW refused,
           Snapshot(force, unanswered, refused)
    PROVE  IInv'
  <1>1. PICK high \in [Slots -> 0..MaxGeneration] :
          LET P == [i \in Slots |-> Polled(slots[i], high[i], unanswered)]
              F == {i \in 1..count \ refused : force /\ CanFence(P[i])}
          IN  /\ \A i \in Slots : IsRetiredBy(high[i], slots[i], unanswered)
              /\ slots' = [i \in Slots |-> IF i \in F THEN Fenced(P[i]) ELSE P[i]]
              /\ SubmitBarriers(F, P)
              /\ snapshot' = [i \in Slots |->
                    IF i <= count THEN [incarnation |-> P[i].incarnation,
                                        retired     |-> P[i].retired]
                                  ELSE [incarnation |-> 0, retired |-> 0]]
    BY DEF Snapshot
  <1>2. /\ UNCHANGED <<count, incarnations, accepting, reset, issued>>
        /\ faults' \in Nat
    BY DEF Snapshot, MayThrow, IInv, TypeOK
  <1> DEFINE P == [i \in Slots |-> Polled(slots[i], high[i], unanswered)]
             F == {i \in 1..count \ refused : force /\ CanFence(P[i])}
  <1>3. /\ slots \in [Slots -> SlotRecord] /\ issued \in SUBSET Token
        /\ submitted \in [Queues -> Nat] /\ done \in [Queues -> SUBSET Nat]
        /\ count \in 0..MaxTracked /\ incarnations \in Nat
        /\ \A t \in issued : t.slot \in Slots /\ t.upto <= submitted[t.queue]
    BY RetireAssumption DEF IInv, TypeOK, TokensOK, Token
  <1>4. /\ \A i \in Slots : IsRetiredBy(high[i], slots[i], unanswered)
        /\ SubmitBarriers(F, P)
        /\ \A i \in Slots : slots'[i] = IF i \in F THEN Fenced(P[i]) ELSE P[i]
        /\ DOMAIN slots' = Slots /\ slots' = [i \in Slots |-> slots'[i]]
    BY <1>1
  <1>5. /\ snapshot' = [i \in Slots |-> snapshot'[i]]
        /\ \A i \in Slots : snapshot'[i] =
             IF i <= count THEN [incarnation |-> P[i].incarnation,
                                 retired     |-> P[i].retired]
                           ELSE [incarnation |-> 0, retired |-> 0]
    BY <1>1
  <1>6. ASSUME NEW i \in Slots
        PROVE  /\ P[i] \in SlotRecord
               /\ SlotOK(P[i], i, issued, barriers, done)
               /\ P[i].queue = slots[i].queue /\ P[i].incarnation = slots[i].incarnation
               /\ slots[i] = EmptySlot => P[i] = EmptySlot
    <2>1. /\ SlotOK(slots[i], i, issued, barriers, done)
          /\ slots[i] \in SlotRecord /\ high[i] \in 0..MaxGeneration
      BY <1>3 DEF IInv, SlotsOK
    <2>2. P[i] = Polled(slots[i], high[i], unanswered)
      OBVIOUS
    <2>3. /\ P[i] \in SlotRecord
          /\ SlotOK(P[i], i, issued, barriers, done)
          /\ P[i].queue = slots[i].queue /\ P[i].incarnation = slots[i].incarnation
      BY <1>4, <2>1, <2>2, PollKeeps DEF IInv
    <2>4. ASSUME slots[i] = EmptySlot PROVE P[i] = EmptySlot
      <3>1. slots[i].fences = {} /\ slots[i].retired = 0
        BY <2>4 DEF EmptySlot, FreshSlot
      <3>2. Completed(slots[i], unanswered) = {}
        BY <3>1 DEF Completed
      <3>3. high[i] = 0
        BY <1>4, <3>1, <3>2 DEF IsRetiredBy
      <3>. QED
        BY <2>2, <2>4, <3>2, <3>3 DEF Polled, EmptySlot, FreshSlot
    <2>. QED
      BY <2>3, <2>4
  <1>7. /\ DeviceOK(submitted', barriers', done')
        /\ submitted' \in [Queues -> Nat] /\ barriers' \in [Queues -> SUBSET Nat]
        /\ done' = done
        /\ \A r \in Queues : /\ submitted[r] <= submitted'[r]
                             /\ barriers[r] \subseteq barriers'[r]
        /\ \A i \in F : P[i].queue \in Queues =>
              submitted[P[i].queue] + 1 \in barriers'[P[i].queue]
    BY <1>4, BarriersKeepOrder DEF IInv
  <1>8. F \subseteq 1..count /\ \A i \in F : P[i].queue # NoQueue
    BY DEF CanFence
  <1>. HIDE DEF P, F
  <1>9. ASSUME NEW i \in Slots
        PROVE  /\ slots'[i] \in SlotRecord
               /\ SlotOK(slots'[i], i, issued, barriers', done')
               /\ slots'[i].incarnation = slots[i].incarnation
               /\ slots'[i].queue = slots[i].queue
               /\ slots'[i].retired = P[i].retired
    <2>1. SlotOK(P[i], i, issued, barriers', done')
      BY <1>3, <1>6, <1>7, DeviceGrows
    <2>2. CASE i \in F
      <3>1. P[i].queue \in Queues /\ P[i] \in SlotRecord
        BY <1>6, <1>8, <2>2 DEF SlotRecord
      <3>2. submitted[P[i].queue] + 1 \in barriers'[P[i].queue]
        BY <1>7, <2>2, <3>1
      <3>. QED
        BY <1>3, <1>4, <1>6, <2>1, <2>2, <3>1, <3>2, FenceKeeps
    <2>3. CASE i \notin F
      BY <1>4, <1>6, <2>1, <2>3
    <2>. QED
      BY <2>2, <2>3
  <1>10. ASSUME NEW i \in Slots
         PROVE  snapshot'[i] \in [incarnation : Nat, retired : Nat]
    <2>1. P[i].incarnation \in Nat /\ P[i].retired \in Nat
      BY <1>6 DEF SlotRecord
    <2>. QED
      BY <1>5, <2>1
  <1>11. TypeOK'
    <2>1. slots' \in [Slots -> SlotRecord]
      BY <1>4, <1>9
    <2>2. snapshot' \in [Slots -> [incarnation : Nat, retired : Nat]]
      BY <1>5, <1>10
    <2>. QED
      BY <1>2, <1>3, <1>7, <2>1, <2>2 DEF IInv, TypeOK
  <1>12. TokensOK(issued, submitted, incarnations)'
    <2>1. ASSUME NEW t \in issued
          PROVE  t.upto <= submitted'[t.queue]
      <3>1. /\ t.upto \in Nat /\ t.queue \in Queues
            /\ submitted[t.queue] \in Nat /\ submitted'[t.queue] \in Nat
        BY <1>3, <1>7 DEF Token
      <3>. QED
        BY <1>3, <1>7, <3>1
    <2>. QED
      BY <1>2, <2>1 DEF IInv, TokensOK
  <1>13. RegistryOK(slots, count, incarnations)'
    <2>1. ASSUME NEW i \in Slots, i > count
          PROVE  slots'[i] = EmptySlot
      <3>1. slots[i] = EmptySlot
        BY <2>1 DEF IInv, RegistryOK
      <3>2. i \notin F
        BY <1>3, <1>8, <2>1 DEF Slots
      <3>. QED
        BY <1>4, <1>6, <3>1, <3>2
    <2>. QED
      BY <1>2, <1>9, <2>1 DEF IInv, RegistryOK
  <1>14. SnapshotOK(slots, snapshot, incarnations)'
    <2>1. ASSUME NEW i \in Slots
          PROVE  /\ snapshot'[i].incarnation <= incarnations
                 /\ snapshot'[i].incarnation # 0 =>
                       snapshot'[i].retired <= slots'[i].retired
      <3>1. P[i].incarnation = slots[i].incarnation /\ P[i].retired \in Nat
            /\ slots[i].incarnation <= incarnations
        BY <1>6 DEF SlotRecord, IInv, RegistryOK
      <3>. QED
        BY <1>3, <1>5, <1>9, <3>1
    <2>. QED
      BY <1>2, <2>1 DEF SnapshotOK
  <1>15. ForgottenOK(slots, issued, done)' /\ ResetOK(slots, issued, done)'
    BY <1>2, <1>3, <1>7, <1>9 DEF IInv, ForgottenOK, ResetOK, Covered
  <1>. QED
    BY <1>2, <1>7, <1>9, <1>11, <1>12, <1>13, <1>14, <1>15 DEF IInv, SlotsOK

-----------------------------------------------------------------------------
(* The theorems.                                                            *)

\* Every step keeps the invariant.
LEMMA NextIInv == IInv /\ [Next]_vars => IInv'
  <1>. SUFFICES ASSUME IInv, [Next]_vars PROVE IInv'
    OBVIOUS
  <1>1. CASE DeviceNext
    BY <1>1, SubmitKeeps, FinishKeeps DEF DeviceNext
  <1>2. CASE Consume
    BY <1>2, RegisterKeeps, TokenCurrentKeeps DEF Consume
  <1>3. CASE Boundary
    BY <1>3, SnapshotKeeps DEF Boundary
  <1>4. CASE Reset
    <2>1. ASSUME NEW q \in Queues, NEW throws \in BOOLEAN, ResetWait(q, throws)
          PROVE  IInv'
      BY <2>1, ResetWaitKeeps
    <2>. QED
      BY <1>4, <2>1, ResetBeginKeeps, ResetCopyKeeps, ResetEndKeeps, AcceptKeeps,
         NoteInitialKeeps DEF Reset
  <1>5. CASE UNCHANGED vars
    BY <1>5 DEF vars, device, registry, IInv, TypeOK, DeviceOK, TokensOK, RegistryOK,
                SlotsOK, SlotOK, SnapshotOK, ForgottenOK, ResetOK, Covered
  <1>. QED
    BY <1>1, <1>2, <1>3, <1>4, <1>5 DEF Next

\* So it holds in every reachable state.
LEMMA Inductive == Spec => []IInv
  BY InitIInv, NextIInv, PTL DEF Spec

\* The state of the registry stays within its types whatever the table sizes,
\* generation counters and driver failures.
THEOREM TypeCorrect == Spec => []TypeOK
  <1>1. IInv => TypeOK
    BY DEF IInv
  <1>. QED
    BY Inductive, <1>1, PTL

\* A reset forgets no unfinished work: a token whose registration is gone
\* stands for finished operators (aimdo_xpu_retire_reset clears the registry
\* only after a complete drain).
THEOREM ForgottenTokensFinished == Spec => []ForgottenTokensAreDone
  <1>1. IInv => ForgottenTokensAreDone
    BY DEF IInv, ForgottenOK, ForgottenTokensAreDone, Covered
  <1>. QED
    BY Inductive, <1>1, PTL

\* A token the latest snapshot completes is covered: either its slot is still
\* registered under its incarnation and has retired its generation, or its slot
\* was drained.
LEMMA CompleteCovered ==
    ASSUME IInv, NEW t \in issued, Complete(t, snapshot)
    PROVE  Covered(t, done)
  <1>1. /\ t.slot \in Slots /\ t.incarnation # 0 /\ t.generation \in Nat
        /\ slots[t.slot].retired \in Nat /\ snapshot[t.slot].retired \in Nat
    BY DEF IInv, TypeOK, Token, TokensOK, SlotRecord
  <1>2. CASE slots[t.slot].incarnation = t.incarnation
    <2>1. snapshot[t.slot].retired <= slots[t.slot].retired
      BY <1>1, <1>2 DEF IInv, SnapshotOK, Complete
    <2>2. t.generation <= slots[t.slot].retired
      BY <1>1, <2>1 DEF Complete
    <2>. QED
      BY <1>1, <1>2, <2>2 DEF IInv, SlotsOK, SlotOK
  <1>3. CASE slots[t.slot].incarnation # t.incarnation
    BY <1>3 DEF IInv, ForgottenOK
  <1>. QED
    BY <1>2, <1>3

\* Whatever snapshot a token is compared with, one it accepts stands for
\* finished operators (aimdo_xpu_retire_snapshot and vbar_retire_complete).
THEOREM CompleteTokensFinished == Spec => []CompleteTokensAreDone
  <1>1. IInv => CompleteTokensAreDone
    BY CompleteCovered DEF CompleteTokensAreDone, Covered
  <1>. QED
    BY Inductive, <1>1, PTL

-----------------------------------------------------------------------------
(* The names of the slots.                                                  *)

\* The used slots of registry S name distinct queues and incarnations.
Distinct(S, c) ==
    \A i, j \in 1..c :
       i # j /\ S[i].queue # NoQueue =>
          /\ S[i].queue # S[j].queue
          /\ S[i].incarnation # S[j].incarnation

\* Registries S and T give every slot the same name.
SameNames(S, T) ==
    \A i \in Slots : /\ S[i].queue = T[i].queue
                     /\ S[i].incarnation = T[i].incarnation

\* Only the names of the slots matter to their distinctness.
LEMMA NamesKeepDistinct ==
    ASSUME NEW S, NEW T, NEW c \in 0..MaxTracked, SameNames(S, T), Distinct(S, c)
    PROVE  Distinct(T, c)
  BY RetireAssumption DEF SameNames, Distinct, Slots

\* Registering a queue enters it once, under an incarnation nobody had: a queue
\* already in the table is found there, and a slot that was counted but not
\* filled has the name of no queue (aimdo_xpu_note_queue_locked).
LEMMA NotedDistinct ==
    ASSUME TypeOK, RegistryOK(slots, count, incarnations), Distinct(slots, count),
           NEW q \in Queues, NEW throws \in BOOLEAN, NEW n \in Noted(q, throws)
    PROVE  Distinct(n.reg.slots, n.reg.count)
  <1> DEFINE known == {i \in 1..count : slots[i].queue = q}
             same  == [slots |-> slots, count |-> count, inc |-> incarnations]
             fresh == FreshSlot(q, incarnations + 1)
             grown == [slots EXCEPT ![count + 1] = fresh]
             added == [slots |-> grown,
                       count |-> count + 1, inc |-> incarnations + 1]
             lost  == [slots |-> slots, count |-> count + 1, inc |-> incarnations]
             full  == count >= MaxTracked \/ incarnations >= MaxIncarnation
  <1>1. \/ n.reg = same
        \/ ~full /\ n.reg = lost
        \/ ~full /\ known = {} /\ n.reg = added
    <2>1. n \in IF accepting /\ known # {}
               THEN {[slot |-> i, reg |-> same] : i \in known}
               ELSE IF ~accepting \/ full
               THEN {[slot |-> 0, reg |-> same]}
               ELSE IF throws
               THEN {[slot |-> 0, reg |-> same], [slot |-> 0, reg |-> lost]}
               ELSE {[slot |-> count + 1, reg |-> added]}
      BY DEF Noted
    <2>. HIDE DEF known, same, added, lost, full
    <2>. QED
      BY <2>1
  <1>2. /\ slots \in [Slots -> SlotRecord] /\ count \in 0..MaxTracked
        /\ incarnations \in Nat /\ MaxTracked \in Nat
        /\ Slots = 1..MaxTracked
    BY RetireAssumption DEF TypeOK, Slots
  <1>3. /\ \A i \in 1..count : /\ i \in Slots
                               /\ slots[i].incarnation \in Nat
                               /\ slots[i].incarnation <= incarnations
                               /\ slots[i].queue # NoQueue => slots[i].incarnation # 0
        /\ ~full => count + 1 \in Slots /\ slots[count + 1] = EmptySlot
    BY <1>2 DEF RegistryOK, SlotRecord
  <1>4. CASE n.reg = same
    BY <1>4
  <1>5. CASE ~full /\ n.reg = lost
    <2>1. slots[count + 1].queue = NoQueue /\ slots[count + 1].incarnation = 0
      BY <1>3, <1>5 DEF EmptySlot, FreshSlot
    <2>2. Distinct(slots, count + 1)
      <3>. SUFFICES ASSUME NEW i \in 1..(count + 1), NEW j \in 1..(count + 1),
                           i # j, slots[i].queue # NoQueue
                    PROVE  /\ slots[i].queue # slots[j].queue
                           /\ slots[i].incarnation # slots[j].incarnation
        BY DEF Distinct
      <3>1. i \in 1..count
        BY <1>2, <2>1
      <3>2. CASE j \in 1..count
        BY <3>1, <3>2 DEF Distinct
      <3>3. CASE j = count + 1
        BY <1>3, <2>1, <3>1, <3>3
      <3>. QED
        BY <1>2, <3>2, <3>3
    <2>. QED
      BY <1>5, <2>2
  <1>6. CASE ~full /\ known = {} /\ n.reg = added
    <2>1. fresh.queue = q /\ fresh.incarnation = incarnations + 1
      BY DEF FreshSlot
    <2>2. \A i \in 1..count : slots[i].queue # q
      BY <1>6
    <2>. HIDE DEF fresh, known
    <2>3. /\ grown[count + 1] = fresh
          /\ \A i \in 1..count : grown[i] = slots[i]
      BY <1>2, <1>3, <1>6
    <2>. HIDE DEF grown
    <2>4. Distinct(grown, count + 1)
      <3>. SUFFICES ASSUME NEW i \in 1..(count + 1), NEW j \in 1..(count + 1),
                           i # j, grown[i].queue # NoQueue
                    PROVE  /\ grown[i].queue # grown[j].queue
                           /\ grown[i].incarnation # grown[j].incarnation
        BY DEF Distinct
      <3>1. CASE i \in 1..count /\ j \in 1..count
        BY <2>3, <3>1 DEF Distinct
      <3>2. CASE i \in 1..count /\ j = count + 1
        BY <1>2, <1>3, <2>1, <2>2, <2>3, <3>2
      <3>3. CASE i = count + 1 /\ j \in 1..count
        BY <1>2, <1>3, <2>1, <2>2, <2>3, <3>3
      <3>. QED
        BY <1>2, <3>1, <3>2, <3>3
    <2>. QED
      BY <1>6, <2>4
  <1>. QED
    BY <1>1, <1>4, <1>5, <1>6

\* Polling and closing a batch leave every slot its name.
LEMMA NamesOfSlots ==
    ASSUME NEW s, NEW high, NEW unanswered
    PROVE  /\ Polled(s, high, unanswered).queue = s.queue
           /\ Polled(s, high, unanswered).incarnation = s.incarnation
           /\ Fenced(s).queue = s.queue
           /\ Fenced(s).incarnation = s.incarnation
  BY DEF Polled, Fenced

\* Handing out a token may register the queue, and renames no slot.
LEMMA TokenCurrentDistinct ==
    ASSUME TypeOK, RegistryOK(slots, count, incarnations), Distinct(slots, count),
           NEW q \in Queues, NEW throws \in BOOLEAN,
           NEW unanswered, NEW refused, TokenCurrent(q, throws, unanswered, refused)
    PROVE  Distinct(slots', count')
  <1>1. PICK n \in Noted(q, throws) :
          /\ count' = n.reg.count
          /\ incarnations' = n.reg.inc
          /\ IF n.slot = 0
             THEN /\ slots' = n.reg.slots
                  /\ UNCHANGED <<device, issued>>
             ELSE \E high \in 0..MaxGeneration :
                  LET s == n.reg.slots[n.slot]
                      p == Polled(s, high, unanswered)
                      u == IF p.pending < BatchUses
                           THEN [p EXCEPT !.pending = @ + 1] ELSE p
                      F == {i \in {n.slot} \ refused :
                               u.pending >= BatchUses /\ CanFence(u)}
                  IN  /\ IsRetiredBy(high, s, unanswered)
                      /\ IF p.open > MaxGeneration
                         THEN /\ slots' = [n.reg.slots EXCEPT ![n.slot] = p]
                              /\ UNCHANGED <<device, issued>>
                         ELSE /\ issued' = issued \cup {[slot        |-> n.slot,
                                                         incarnation |-> p.incarnation,
                                                         generation  |-> p.open,
                                                         queue       |-> q,
                                                         upto        |-> submitted[q]]}
                              /\ slots' = [n.reg.slots EXCEPT ![n.slot] =
                                             IF F # {} THEN Fenced(u) ELSE u]
                              /\ SubmitBarriers(F, n.reg.slots)
    BY DEF TokenCurrent
  <1> DEFINE S == n.reg.slots
             k == n.slot
  <1>2. /\ Extends(S, count', n.reg.inc) /\ k \in 0..MaxTracked
        /\ Distinct(S, count')
    BY <1>1, NotedExtends, NotedDistinct
  <1>3. S \in [Slots -> SlotRecord] /\ count' \in 0..MaxTracked
    BY <1>2 DEF Extends
  <1>4. CASE k = 0
    BY <1>1, <1>2, <1>4
  <1>5. CASE k # 0
    <2>1. PICK high \in 0..MaxGeneration :
            LET p == Polled(S[k], high, unanswered)
                u == IF p.pending < BatchUses
                     THEN [p EXCEPT !.pending = @ + 1] ELSE p
                F == {i \in {k} \ refused : u.pending >= BatchUses /\ CanFence(u)}
            IN  IF p.open > MaxGeneration
                THEN slots' = [S EXCEPT ![k] = p]
                ELSE slots' = [S EXCEPT ![k] = IF F # {} THEN Fenced(u) ELSE u]
      BY <1>1, <1>5
    <2> DEFINE p == Polled(S[k], high, unanswered)
               u == IF p.pending < BatchUses
                    THEN [p EXCEPT !.pending = @ + 1] ELSE p
    <2>2. slots' \in {[S EXCEPT ![k] = p], [S EXCEPT ![k] = Fenced(u)],
                      [S EXCEPT ![k] = u]}
      BY <2>1
    <2>3. p.queue = S[k].queue /\ p.incarnation = S[k].incarnation
      BY NamesOfSlots
    <2>. HIDE DEF p
    <2>4. u.queue = S[k].queue /\ u.incarnation = S[k].incarnation
      BY <2>3
    <2>. HIDE DEF u, S
    <2>5. Fenced(u).queue = S[k].queue /\ Fenced(u).incarnation = S[k].incarnation
      BY <2>4, NamesOfSlots
    <2>6. SameNames(S, slots')
      BY <1>3, <2>2, <2>3, <2>4, <2>5 DEF SameNames
    <2>. QED
      BY <1>2, <1>3, <2>6, NamesKeepDistinct DEF S
  <1>. QED
    BY <1>4, <1>5

\* A pressure boundary polls and fences the slots, and renames none.
LEMMA SnapshotDistinct ==
    ASSUME TypeOK, Distinct(slots, count), NEW force \in BOOLEAN,
           NEW unanswered, NEW refused, Snapshot(force, unanswered, refused)
    PROVE  Distinct(slots', count')
  <1>1. PICK high \in [Slots -> 0..MaxGeneration] :
          LET P == [i \in Slots |-> Polled(slots[i], high[i], unanswered)]
              F == {i \in 1..count \ refused : force /\ CanFence(P[i])}
          IN  slots' = [i \in Slots |-> IF i \in F THEN Fenced(P[i]) ELSE P[i]]
    BY DEF Snapshot
  <1>2. count' = count /\ count \in 0..MaxTracked
    BY DEF Snapshot, TypeOK
  <1> DEFINE P == [i \in Slots |-> Polled(slots[i], high[i], unanswered)]
  <1>3. ASSUME NEW i \in Slots
        PROVE  slots'[i] \in {P[i], Fenced(P[i])}
    BY <1>1
  <1>4. ASSUME NEW i \in Slots
        PROVE  P[i].queue = slots[i].queue /\ P[i].incarnation = slots[i].incarnation
    BY NamesOfSlots
  <1>. HIDE DEF P
  <1>5. SameNames(slots, slots')
    <2>1. \A i \in Slots : Fenced(P[i]).queue = P[i].queue
                           /\ Fenced(P[i]).incarnation = P[i].incarnation
      BY NamesOfSlots
    <2>. QED
      BY <1>3, <1>4, <2>1 DEF SameNames
  <1>. QED
    BY <1>2, <1>5, NamesKeepDistinct

\* Distinctness is inductive: a reset empties the table, and only a
\* registration adds to it.
LEMMA NextDistinct ==
    IInv /\ Distinct(slots, count) /\ [Next]_vars => Distinct(slots', count')
  <1>. SUFFICES ASSUME IInv, Distinct(slots, count), [Next]_vars
                PROVE  Distinct(slots', count')
    OBVIOUS
  <1>1. TypeOK /\ RegistryOK(slots, count, incarnations)
    BY DEF IInv
  <1>2. CASE UNCHANGED <<slots, count>>
    BY <1>2
  <1>3. CASE DeviceNext
    <2>1. UNCHANGED <<slots, count>>
      BY <1>3 DEF DeviceNext, Submit, Finish, registry
    <2>. QED
      BY <1>2, <2>1
  <1>4. CASE Consume
    <2>1. ASSUME NEW q \in Queues, NEW throws \in BOOLEAN, Register(q, throws)
          PROVE  Distinct(slots', count')
      <3>1. PICK n \in Noted(q, throws) : slots' = n.reg.slots /\ count' = n.reg.count
        BY <2>1 DEF Register
      <3>. QED
        BY <1>1, <3>1, NotedDistinct
    <2>. QED
      BY <1>1, <1>4, <2>1, TokenCurrentDistinct DEF Consume
  <1>5. CASE Boundary
    BY <1>1, <1>5, SnapshotDistinct DEF Boundary
  <1>6. CASE Reset
    <2>1. ASSUME NEW throws \in BOOLEAN, NoteInitial(throws)
          PROVE  Distinct(slots', count')
      <3>1. PICK n \in Noted(InitialQueue, throws) :
              slots' = n.reg.slots /\ count' = n.reg.count
        BY <2>1 DEF NoteInitial
      <3>. QED
        BY <1>1, <3>1, NotedDistinct, RetireAssumption
    <2>2. ASSUME ResetEnd, count' = 0
          PROVE  Distinct(slots', count')
      BY <2>2 DEF Distinct
    <2>3. ResetEnd => count' = 0 \/ UNCHANGED <<slots, count>>
      BY DEF ResetEnd
    <2>4. ASSUME NEW caller, ResetBegin(caller) PROVE UNCHANGED <<slots, count>>
      BY <2>4 DEF ResetBegin
    <2>5. ASSUME NEW q, NEW throws, ResetWait(q, throws)
          PROVE  UNCHANGED <<slots, count>>
      BY <2>5 DEF ResetWait, registry
    <2>6. ResetCopy \/ Accept \/ RuntimeInit => UNCHANGED <<slots, count>>
      BY DEF ResetCopy, Accept, RuntimeInit, registry
    <2>7. \/ \E throws \in BOOLEAN : NoteInitial(throws)
          \/ ResetEnd
          \/ UNCHANGED <<slots, count>>
      BY <1>6, <2>4, <2>5, <2>6, Zenon DEF Reset
    <2>8. CASE ResetEnd
      BY <1>2, <2>2, <2>3, <2>8
    <2>. QED
      BY <1>2, <2>1, <2>7, <2>8
  <1>7. CASE UNCHANGED vars
    BY <1>2, <1>7 DEF vars, registry
  <1>. QED
    BY <1>3, <1>4, <1>5, <1>6, <1>7 DEF Next

\* No queue is registered twice and no incarnation is given twice, so that a
\* slot index and an incarnation identify the queue a token was taken for
\* (aimdo_xpu_note_queue_locked, after any sequence of resets and failures).
THEOREM SlotsDistinct == Spec => []SlotsAreDistinct
  <1>1. Init => SlotsAreDistinct
    BY DEF Init, SlotsAreDistinct
  <1>2. IInv /\ SlotsAreDistinct /\ [Next]_vars => SlotsAreDistinct'
    BY NextDistinct DEF Distinct, SlotsAreDistinct
  <1>. QED
    BY Inductive, <1>1, <1>2, PTL DEF Spec

-----------------------------------------------------------------------------
(* The registry implements its contract.                                    *)

\* A bounded set of numbers has a largest one, or is empty.
LEMMA LargestExists ==
    ASSUME NEW F \in SUBSET Nat, NEW b \in Nat, \A m \in F : m <= b
    PROVE  \E n \in {0} \cup F : \A m \in F : m <= n
  <1> DEFINE R == {ss \in Nat \X Nat : ss[1] < ss[2]}
             bounds == {n \in Nat : \A m \in F : m <= n}
  <1>1. \E n \in bounds : \A k \in bounds : ~(k < n)
    <2>1. b \in bounds
      OBVIOUS
    <2>2. IsWellFoundedOn(R, Nat)
      BY NatLessThanWellFounded DEF OpToRel
    <2>3. PICK n \in bounds : \A k \in bounds : <<k, n>> \notin R
      <3>1. bounds \subseteq Nat /\ bounds # {}
        BY <2>1
      <3>. HIDE DEF bounds, R
      <3>. QED
        BY <2>2, <3>1, WFMin, Zenon
    <2>4. ASSUME NEW k \in bounds, k < n PROVE FALSE
      BY <2>3, <2>4
    <2>. QED
      BY <2>4
  <1>2. PICK n \in bounds : \A k \in bounds : ~(k < n)
    BY <1>1
  <1>3. n \in F \/ n = 0
    <2>. SUFFICES ASSUME n \notin F, n # 0 PROVE FALSE
      OBVIOUS
    <2>1. n - 1 \in bounds /\ n - 1 < n
      OBVIOUS
    <2>. QED
      BY <1>2, <2>1
  <1>. QED
    BY <1>2, <1>3

\* The longest prefix of each queue that the latest snapshot reports.
Reported == [q \in Queues |->
               CHOOSE n \in {0} \cup Frontier(q) : \A m \in Frontier(q) : m <= n]

\* What the snapshot reports is finished.
ReportIsFinished ==
    /\ Reported \in [Queues -> Nat]
    /\ \A q \in Queues : 1..Reported[q] \subseteq done[q]

\* It covers only finished commands: it is the prefix of a completed token.
LEMMA ReportsFinished == IInv => ReportIsFinished
  <1>. SUFFICES ASSUME IInv, NEW q \in Queues
                PROVE  Reported[q] \in Nat /\ 1..Reported[q] \subseteq done[q]
    BY DEF ReportIsFinished, Reported
  <1>1. /\ submitted[q] \in Nat
        /\ \A t \in issued : t.upto \in Nat
    BY DEF IInv, TypeOK, Token
  <1>2. /\ Frontier(q) \in SUBSET Nat
        /\ \A m \in Frontier(q) : m <= submitted[q]
    BY <1>1 DEF Frontier, IInv, TokensOK
  <1>3. \E n \in {0} \cup Frontier(q) : \A m \in Frontier(q) : m <= n
    BY <1>1, <1>2, LargestExists
  <1>4. Reported[q] = CHOOSE n \in {0} \cup Frontier(q) : \A m \in Frontier(q) : m <= n
    BY DEF Reported
  <1>5. Reported[q] \in {0} \cup Frontier(q)
    BY <1>3, <1>4
  <1>6. \A m \in Frontier(q) : 1..m \subseteq done[q]
    BY CompleteCovered DEF Frontier, Covered
  <1>. QED
    BY <1>2, <1>5, <1>6

\* While only the device moves, the snapshot reports what it did.
LEMMA DeviceReports ==
    ASSUME IInv, IInv', DeviceNext
    PROVE  Contract!DeviceStep
  <1>1. /\ UNCHANGED <<issued, snapshot>>
        /\ \A q \in Queues : submitted[q] <= submitted'[q] /\ done[q] \subseteq done'[q]
    <2>1. ASSUME NEW q \in Queues, Submit(q)
          PROVE  /\ UNCHANGED <<issued, snapshot>>
                 /\ \A r \in Queues : submitted[r] <= submitted'[r]
                                      /\ done[r] \subseteq done'[r]
      BY <2>1 DEF Submit, IInv, TypeOK
    <2>2. ASSUME NEW q \in Queues, NEW n, Finish(q, n)
          PROVE  /\ UNCHANGED <<issued, snapshot>>
                 /\ \A r \in Queues : submitted[r] <= submitted'[r]
                                      /\ done[r] \subseteq done'[r]
      BY <2>2 DEF Finish, IInv, TypeOK
    <2>. QED
      BY <2>1, <2>2 DEF DeviceNext
  <1>2. /\ submitted' \in [Queues -> Nat] /\ done' \in [Queues -> SUBSET Nat]
        /\ \A q \in Queues : done'[q] \subseteq 1..submitted'[q]
    BY DEF IInv, TypeOK, DeviceOK
  <1>3. Reported' = Reported
    BY <1>1 DEF Reported, Frontier, Complete
  <1>. QED
    BY <1>1, <1>2, <1>3 DEF Contract!DeviceStep, Reported

\* Every step of the registry and of its clients that leaves the device's
\* progress alone reports, before and after, only finished commands.
LEMMA OthersReport ==
    ASSUME IInv, IInv', UNCHANGED done,
           \A q \in Queues : submitted[q] <= submitted'[q]
    PROVE  Contract!Report
  <1>1. ReportIsFinished'
    BY ReportsFinished, PTL
  <1>2. submitted' \in [Queues -> Nat]
    BY DEF IInv, TypeOK
  <1>. QED
    BY <1>1, <1>2 DEF ReportIsFinished, Contract!Report, Contract!Reportable, Reported

\* Every step maps to a step of the contract or leaves its variables alone.
LEMMA StepsReport == IInv /\ IInv' /\ [Next]_vars => [Contract!Next]_Contract!contractVars
  <1>. SUFFICES ASSUME IInv, IInv', [Next]_vars
                PROVE  [Contract!Next]_Contract!contractVars
    OBVIOUS
  <1>1. /\ submitted \in [Queues -> Nat] /\ submitted' \in [Queues -> Nat]
    BY DEF IInv, TypeOK
  <1>2. CASE DeviceNext
    BY <1>2, DeviceReports DEF Contract!Next
  <1>3. CASE UNCHANGED vars
    <2>1. UNCHANGED <<submitted, done>> /\ Reported' = Reported
      BY <1>3 DEF vars, device, Reported, Frontier, Complete
    <2>. QED
      BY <2>1 DEF Contract!contractVars, Reported
  <1>4. ASSUME UNCHANGED done, \A q \in Queues : submitted[q] <= submitted'[q]
        PROVE  Contract!Next
    BY <1>4, OthersReport DEF Contract!Next
  <1>5. ASSUME UNCHANGED device PROVE Contract!Next
    BY <1>1, <1>4, <1>5 DEF device
  <1>6. ASSUME NEW F, NEW S, SubmitBarriers(F, S) PROVE Contract!Next
    BY <1>4, <1>6, BarriersKeepOrder DEF IInv
  <1>7. CASE Consume
    <2>1. ASSUME NEW q \in Queues, NEW throws \in BOOLEAN, Register(q, throws)
          PROVE  Contract!Next
      BY <1>5, <2>1 DEF Register
    <2>2. ASSUME NEW q \in Queues, NEW throws \in BOOLEAN, NEW unanswered, NEW refused,
                 TokenCurrent(q, throws, unanswered, refused)
          PROVE  UNCHANGED device \/ \E F, S : SubmitBarriers(F, S)
      <3>1. PICK n : IF n.slot = 0
                     THEN UNCHANGED device
                     ELSE \E p, F : IF p.open > MaxGeneration
                                    THEN UNCHANGED device
                                    ELSE SubmitBarriers(F, n.reg.slots)
        BY <2>2, ZenonT(120) DEF TokenCurrent
      <3>. QED
        BY <3>1, Zenon
    <2>. QED
      BY <1>5, <1>6, <1>7, <2>1, <2>2, Zenon DEF Consume
  <1>8. CASE Boundary
    <2>1. \E F, S : SubmitBarriers(F, S)
      BY <1>8, Zenon DEF Boundary, Snapshot
    <2>. QED
      BY <1>6, <2>1
  <1>9. CASE Reset
    <2>1. ASSUME NEW caller, ResetBegin(caller) PROVE UNCHANGED device
      BY <2>1 DEF ResetBegin
    <2>2. ASSUME NEW q, NEW throws, ResetWait(q, throws) PROVE UNCHANGED device
      BY <2>2 DEF ResetWait
    <2>3. ASSUME NEW throws, NoteInitial(throws) PROVE UNCHANGED device
      BY <2>3 DEF NoteInitial
    <2>4. ResetCopy \/ ResetEnd \/ Accept \/ RuntimeInit => UNCHANGED device
      BY DEF ResetCopy, ResetEnd, Accept, RuntimeInit
    <2>. QED
      BY <1>5, <1>9, <2>1, <2>2, <2>3, <2>4, Zenon DEF Reset
  <1>. QED
    BY <1>2, <1>3, <1>7, <1>8, <1>9 DEF Next

\* The registry keeps the contract the page table is built on: whatever tokens,
\* barriers, refusals and resets come in between, the frontier a snapshot
\* reports for a queue never runs ahead of the commands the device finished.
THEOREM RegistryImplementsContract == Spec => ImplementsContract
  <1>1. Init => Contract!Init
    <2>. SUFFICES ASSUME Init PROVE Contract!Init
      OBVIOUS
    <2>1. \A q \in Queues : Frontier(q) = {}
      BY DEF Init, Frontier
    <2>2. Reported = [q \in Queues |-> 0]
      BY <2>1 DEF Reported
    <2>. QED
      BY <2>2 DEF Init, Contract!Init, Reported
  <1>2. Spec => Contract!Init /\ [][Contract!Next]_Contract!contractVars
    BY Inductive, StepsReport, <1>1, PTL DEF Spec
  <1>. QED
    BY <1>2 DEF ImplementsContract, Contract!Spec
=============================================================================
