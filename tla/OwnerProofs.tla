---------------------------- MODULE OwnerProofs -----------------------------
(***************************************************************************)
(* Proofs about the owners of device memory outside the page table: the    *)
(* allocator proxy of the graph (NativeOwner) and the hook on device USM   *)
(* (UsmHook), for every number of threads, devices, graphs, pointers,      *)
(* queues, requests, contexts and failures.                                *)
(*                                                                         *)
(* Of the proxy: what is freed is idle, each piece of memory has one owner *)
(* that can still free it, and a transition of the hooks finds none of it  *)
(* in use.  An owner is active while something can still lead to its       *)
(* destructor: the table, the call of a thread, or the queue of its        *)
(* creator.  The invariant says that no two of these lead to the same      *)
(* pointer and what an active owner knows of its memory: its kind, the     *)
(* queues that may be busy with it, and whether it has waited for them.    *)
(*                                                                         *)
(* Of the hook: no request is refused twice running, and the ledger adds   *)
(* up: what a device is charged with is the sum of the entries that say    *)
(* so.  The sum is a fold of the library, whose laws LibraryTheorems proves. *)
(*                                                                         *)
(* At the end, the composition that TLC runs (MCServices): what follows    *)
(* for it from the theorems about its parts.                               *)
(***************************************************************************)
EXTENDS MCServices, TransferProofs, LibraryTheorems

-----------------------------------------------------------------------------
(* NativeOwner.                                                              *)

\* The places of a thread that holds an owner, all places, and the memory that
\* an active owner of each kind has.
Owning  == {"fence", "wait", "hand", "destroy", "deferred"}
Places  == Owning \cup {"idle", "exit", "locked"}
Usable(kind) == CASE kind = "native" -> {"native"}
                  [] kind = "custom" -> {"custom"}
                  [] kind = "compiler" -> {"live", "candidate", "rogue"}

\* What leads to the destructor of owner n.
Listed(n)   == \E p \in DOMAIN owners : owners[p] = n
InCall(n)   == \E t \in TorchThreads : current[t] = n
Active(n)   == Listed(n) \/ InCall(n) \/ Queued(n)

-----------------------------------------------------------------------------

TypesHold ==
    /\ NativeTypeOK
    /\ owners = [p \in DOMAIN owners |-> owners[p]]
    /\ deferred \in [TorchThreads -> Seq(Nat)]
    /\ alive \in [TorchThreads -> BOOLEAN] /\ terminal \in BOOLEAN /\ customFailed \in BOOLEAN
    /\ custom \in [TorchThreads -> BOOLEAN] /\ compiler \in [TorchThreads -> BOOLEAN]
    /\ pc \in [TorchThreads -> Places]
    /\ current \in [TorchThreads -> Nat \cup {NoOwner}]
    /\ \A t \in TorchThreads : pc[t] \in Owning <=> current[t] # NoOwner

\* The three ways to an owner: an entry of the table names its own pointer, a
\* thread in a call has the owner for itself, and a deferred owner is also in
\* the hands of the thread that defers it for a moment, but of nobody else.
WaysAreApart ==
    /\ \A p \in DOMAIN owners : owner[owners[p]].ptr = p
    /\ \A t \in TorchThreads, p \in DOMAIN owners : owners[p] # current[t]
    /\ \A t, u \in TorchThreads : current[t] = current[u] /\ current[t] # NoOwner => t = u
    /\ \A t \in TorchThreads : \A i \in DOMAIN deferred[t] :
          /\ ~Listed(deferred[t][i])
          /\ \A u \in TorchThreads : current[u] = deferred[t][i] => pc[u] = "deferred"
          /\ \A j \in DOMAIN deferred[t] : deferred[t][i] = deferred[t][j] => i = j

\* Two active owners have two pointers.
PointersAreApart ==
    \A m, n \in DOMAIN owner : Active(m) /\ Active(n) /\ owner[m].ptr = owner[n].ptr => m = n

\* What an active owner knows of its memory.
Ending(n)  == \E t \in TorchThreads : current[t] = n /\ pc[t] \in {"wait", "destroy"}
Knows(n) ==
    /\ memory[owner[n].ptr] \in Usable(owner[n].kind)
    /\ busy[owner[n].ptr] \subseteq WaitFor(owner[n])
    /\ owner[n].kind = "native" => busy[owner[n].ptr] = {}
    /\ owner[n].fenced => busy[owner[n].ptr] = {} /\ ~Listed(n)
    /\ owner[n].kind # "native" => owner[n].live \/ Ending(n)
OwnersKnow == \A n \in DOMAIN owner : Active(n) => Knows(n)

\* Where a call stands: past the wait nothing is busy, and only a compiler
\* owner of another thread is looked at before its destructor runs.
CallsStand ==
    \A t \in TorchThreads :
        /\ pc[t] \in {"hand", "destroy"} => busy[Mine(t).ptr] = {}
        /\ pc[t] \in {"fence", "hand", "deferred"} => Mine(t).kind = "compiler" /\ Mine(t).live

\* What is free, native or raw is not in use.
UnownedIsIdle ==
    \A p \in Pointers : memory[p] \in {"free", "native", "raw"} => busy[p] = {}

\* What is in use has an active owner, unless the proxy has given up.
UsedIsOwned ==
    \A p \in Pointers :
        memory[p] \in {"native", "custom", "live", "candidate", "rogue"} =>
            \/ \E n \in DOMAIN owner : owner[n].ptr = p /\ Active(n)
            \/ terminal \/ customFailed

\* Frees deferred to a thread that is gone: the thread looks for them once
\* more, whoever deferred them still looks, or the process is terminal.
StrandedIsNoticed ==
    \A t \in TorchThreads :
        ~alive[t] /\ deferred[t] # <<>> =>
            \/ terminal \/ pc[t] = "exit"
            \/ \E u \in TorchThreads : pc[u] = "deferred" /\ Mine(u).creator = t

\* A transition has begun, or is about to be entered.
Changing == transition # NoThread \/ \E t \in TorchThreads : pc[t] = "locked"
TransitionIsClear ==
    Changing =>
        /\ ~terminal /\ ~customFailed
        /\ \A t \in TorchThreads : ~custom[t] /\ ~compiler[t]
        /\ \A p \in Pointers : memory[p] # "raw"
        /\ \A n \in DOMAIN owner : ~owner[n].live
        /\ \A n \in DOMAIN owner : Active(n) => owner[n].kind = "native"

NInv ==
    /\ TypesHold /\ WaysAreApart /\ PointersAreApart /\ OwnersKnow /\ CallsStand
    /\ UnownedIsIdle /\ UsedIsOwned /\ StrandedIsNoticed /\ TransitionIsClear

-----------------------------------------------------------------------------
(* The sequence of owners.                                                  *)

\* A new owner is typed, is the last one, and leaves the others as they are.
LEMMA OwnerAdded ==
    ASSUME NEW s \in Seq(OwnerRecords), NEW e \in OwnerRecords, NEW r, r = Append(s, e)
    PROVE  /\ r \in Seq(OwnerRecords) /\ Len(r) = Len(s) + 1
           /\ DOMAIN r = DOMAIN s \cup {Len(s) + 1} /\ Len(s) + 1 \notin DOMAIN s
           /\ r[Len(s) + 1] = e /\ \A n \in DOMAIN s : r[n] = s[n]
  OBVIOUS

\* An owner changes in its place.
LEMMA OwnerChanged ==
    ASSUME NEW s \in Seq(OwnerRecords), NEW i \in DOMAIN s, NEW e \in OwnerRecords,
           NEW r, r = [s EXCEPT ![i] = e]
    PROVE  /\ r \in Seq(OwnerRecords) /\ Len(r) = Len(s) /\ DOMAIN r = DOMAIN s
           /\ r[i] = e /\ \A n \in DOMAIN s : n # i => r[n] = s[n]
  OBVIOUS

\* What the steps make of the record of an owner.
LEMMA FencedRecord ==
    ASSUME NEW e \in OwnerRecords, NEW b \in BOOLEAN, NEW d, d = [e EXCEPT !.fenced = b]
    PROVE  /\ d \in OwnerRecords
           /\ d.kind = e.kind /\ d.ptr = e.ptr /\ d.creator = e.creator
           /\ d.consumers = e.consumers /\ d.live = e.live /\ d.fenced = b
  BY DEF OwnerRecords

\* A queue is recorded for it.
LEMMA RecordedRecord ==
    ASSUME NEW e \in OwnerRecords, NEW q \in UseQueues,
           NEW d, d = [e EXCEPT !.consumers = e.consumers \cup {q}]
    PROVE  /\ d \in OwnerRecords
           /\ d.kind = e.kind /\ d.ptr = e.ptr /\ d.creator = e.creator
           /\ d.consumers = e.consumers \cup {q} /\ d.live = e.live /\ d.fenced = e.fenced
  BY DEF OwnerRecords

\* What ~Owner leaves of a record.
Ended(e, b) == [[[e EXCEPT !.consumers = {}] EXCEPT !.fenced = FALSE] EXCEPT !.live = b]

\* What remains of an owner keeps its kind, its pointer and its creator.
LEMMA EndedRecord ==
    ASSUME NEW e \in OwnerRecords, NEW b \in BOOLEAN
    PROVE  /\ Ended(e, b) \in OwnerRecords
           /\ Ended(e, b).kind = e.kind /\ Ended(e, b).ptr = e.ptr
           /\ Ended(e, b).creator = e.creator /\ Ended(e, b).live = b
  BY DEF Ended, OwnerRecords

\* The three fields change one after the other.
EndedAt(s, i, b) == [s EXCEPT ![i].consumers = {}, ![i].fenced = FALSE, ![i].live = b]

\* The three assignments at once.
LEMMA EndedInPlace ==
    ASSUME NEW s \in Seq(OwnerRecords), NEW i \in DOMAIN s, NEW b \in BOOLEAN
    PROVE  EndedAt(s, i, b) = [s EXCEPT ![i] = Ended(s[i], b)]
<1> DEFINE first  == [s EXCEPT ![i].consumers = {}]
           second == [first EXCEPT ![i].fenced = FALSE]
<1>1. /\ DOMAIN first = DOMAIN s /\ first[i] = [s[i] EXCEPT !.consumers = {}]
      /\ \A j \in DOMAIN s : j # i => first[j] = s[j]
  OBVIOUS
<1>2. /\ DOMAIN second = DOMAIN s /\ second[i] = [first[i] EXCEPT !.fenced = FALSE]
      /\ \A j \in DOMAIN s : j # i => second[j] = s[j]
  <2> HIDE DEF first
  <2> QED  BY <1>1
<1>3. EndedAt(s, i, b) = [second EXCEPT ![i].live = b]  BY DEF EndedAt
<1> QED  BY <1>1, <1>2, <1>3 DEF Ended

-----------------------------------------------------------------------------
(* Steps that no owner notices.                                             *)

\* No owner comes or goes; nor does its record change in what it promises; nor
\* do the ways to it.
OwnersStay ==
    /\ DOMAIN owner' = DOMAIN owner
    /\ \A n \in DOMAIN owner :
          /\ owner'[n].ptr = owner[n].ptr /\ owner'[n].kind = owner[n].kind
          /\ owner'[n].creator = owner[n].creator
RecordsStay ==
    /\ OwnersStay
    /\ \A n \in DOMAIN owner :
          /\ owner'[n].live = owner[n].live /\ owner'[n].fenced = owner[n].fenced
          /\ owner[n].consumers \subseteq owner'[n].consumers
WaysStay ==
    /\ owners' = owners /\ deferred' = deferred /\ current' = current
    /\ \A t \in TorchThreads : current[t] # NoOwner => pc'[t] = pc[t]

\* Every name the proxy holds is that of an owner.
LEMMA NamesAreOwners ==
    ASSUME TypesHold
    PROVE  /\ \A n : Listed(n) => n \in DOMAIN owner
           /\ \A n : InCall(n) /\ n # NoOwner => n \in DOMAIN owner
           /\ \A n : Queued(n) => n \in DOMAIN owner
           /\ NoOwner \notin DOMAIN owner
           /\ \A n \in DOMAIN owner : owner[n] \in OwnerRecords /\ n \in Nat
           /\ \A t \in TorchThreads : pc[t] \in Owning => current[t] \in DOMAIN owner
  BY NativeAssumption DEF TypesHold, NativeTypeOK, Listed, InCall, Queued

\* If no way to an owner changes, the ways stay apart.
LEMMA WaysStayApart ==
    ASSUME TypesHold, WaysAreApart, PointersAreApart, OwnersStay, WaysStay
    PROVE  /\ \A n : Listed(n)' = Listed(n)
           /\ \A n \in DOMAIN owner : Active(n)' = Active(n)
           /\ \A n \in DOMAIN owner : Ending(n) => Ending(n)'
           /\ WaysAreApart' /\ PointersAreApart'
<1>1. \A n : Listed(n)' = Listed(n) /\ InCall(n)' = InCall(n) /\ Queued(n)' = Queued(n)
  BY DEF WaysStay, Listed, InCall, Queued
<1>2. \A n \in DOMAIN owner : Active(n)' = Active(n)
  BY <1>1 DEF Active
<1>3. \A n \in DOMAIN owner : Ending(n) => Ending(n)'
  BY NamesAreOwners DEF WaysStay, Ending
<1>4. PointersAreApart'
  BY <1>2 DEF PointersAreApart, OwnersStay
<1>5. WaysAreApart'
  <2>1. \A p \in DOMAIN owners : owners[p] \in DOMAIN owner
    BY DEF TypesHold, NativeTypeOK
  <2>2. (\A p \in DOMAIN owners : owner[owners[p]].ptr = p)'
    BY <2>1 DEF WaysAreApart, WaysStay, OwnersStay
  <2>3. (\A t \in TorchThreads, p \in DOMAIN owners : owners[p] # current[t])'
    BY DEF WaysAreApart, WaysStay
  <2>4. (\A t, u \in TorchThreads : current[t] = current[u] /\ current[t] # NoOwner => t = u)'
    BY DEF WaysAreApart, WaysStay
  <2>5. ASSUME NEW t \in TorchThreads, NEW i \in DOMAIN deferred[t]
        PROVE  /\ ~Listed(deferred[t][i])'
               /\ \A u \in TorchThreads : current'[u] = deferred'[t][i] => pc'[u] = "deferred"
               /\ \A j \in DOMAIN deferred[t] : deferred[t][i] = deferred[t][j] => i = j
    <3>1. Queued(deferred[t][i])  BY DEF Queued
    <3>2. deferred[t][i] \in DOMAIN owner /\ deferred[t][i] # NoOwner  BY <3>1, NamesAreOwners
    <3> QED  BY <1>1, <3>2 DEF WaysAreApart, WaysStay
  <2> QED  BY <2>2, <2>3, <2>4, <2>5 DEF WaysAreApart, WaysStay
<1> QED  BY <1>1, <1>2, <1>3, <1>4, <1>5

\* What the memory may turn into while no owner notices.
Unnoticed(before, after) ==
    \/ after = before
    \/ before \in {"live", "candidate"} /\ after \in {"candidate", "rogue"}
    \/ before \in {"free", "raw", "outside", "freed"} /\ after \in {"free", "raw", "freed"}

\* All of this, and nothing is given up.
QuietStep ==
    /\ RecordsStay /\ WaysStay
    /\ \A p \in Pointers : Unnoticed(memory[p], memory'[p]) /\ busy'[p] \subseteq busy[p]
    /\ (terminal => terminal') /\ (customFailed => customFailed')

\* A step that no owner notices keeps what the invariant says of owners.
LEMMA QuietKeeps ==
    ASSUME NInv, QuietStep, TypesHold', UnownedIsIdle'
    PROVE  /\ WaysAreApart' /\ PointersAreApart' /\ OwnersKnow' /\ CallsStand' /\ UsedIsOwned'
           /\ \A n \in DOMAIN owner : Active(n)' = Active(n)
<1> USE DEF NInv
<1>1. /\ \A n : Listed(n)' = Listed(n)
      /\ \A n \in DOMAIN owner : Active(n)' = Active(n)
      /\ \A n \in DOMAIN owner : Ending(n) => Ending(n)'
      /\ WaysAreApart' /\ PointersAreApart'
  BY WaysStayApart DEF QuietStep, RecordsStay
<1>2. \A n \in DOMAIN owner : owner[n].ptr \in Pointers /\ owner[n] \in OwnerRecords
  BY NamesAreOwners DEF OwnerRecords
<1>3. ASSUME NEW n \in DOMAIN owner, Active(n) PROVE Knows(n)'
  <2>1. Knows(n)  BY <1>3 DEF OwnersKnow
  <2>2. memory'[owner'[n].ptr] \in Usable(owner'[n].kind)
    <3>1. owner[n].kind \in {"native", "custom", "compiler"}  BY <1>2 DEF OwnerRecords
    <3> QED
      BY <2>1, <1>2, <3>1 DEF Knows, Usable, QuietStep, RecordsStay, OwnersStay, Unnoticed
  <2>3. busy'[owner'[n].ptr] \subseteq busy[owner[n].ptr]
    BY <1>2 DEF QuietStep, RecordsStay, OwnersStay
  <2>4. WaitFor(owner[n]) \subseteq WaitFor(owner'[n])
    BY DEF QuietStep, RecordsStay, WaitFor
  <2> QED
    BY <1>1, <2>1, <2>2, <2>3, <2>4 DEF Knows, QuietStep, RecordsStay, OwnersStay, WaitFor
<1>4. OwnersKnow'
  BY <1>1, <1>3 DEF OwnersKnow, QuietStep, RecordsStay, OwnersStay
<1>5. CallsStand'
  <2> SUFFICES ASSUME NEW t \in TorchThreads, pc'[t] \in {"fence", "hand", "deferred", "destroy"}
               PROVE  /\ pc'[t] \in {"hand", "destroy"} => busy'[owner'[current'[t]].ptr] = {}
                      /\ pc'[t] \in {"fence", "hand", "deferred"} =>
                             owner'[current'[t]].kind = "compiler" /\ owner'[current'[t]].live
    BY DEF CallsStand, Mine
  <2>1. current[t] # NoOwner /\ pc'[t] = pc[t] /\ current'[t] = current[t]
    BY DEF TypesHold, Owning, QuietStep, WaysStay
  <2>2. current[t] \in DOMAIN owner
    BY <2>1, NamesAreOwners DEF TypesHold
  <2>3. /\ pc[t] \in {"hand", "destroy"} => busy[owner[current[t]].ptr] = {}
        /\ pc[t] \in {"fence", "hand", "deferred"} =>
               owner[current[t]].kind = "compiler" /\ owner[current[t]].live
    BY DEF CallsStand, Mine
  <2>4. /\ owner'[current'[t]].ptr = owner[current[t]].ptr
        /\ owner'[current'[t]].kind = owner[current[t]].kind
        /\ owner'[current'[t]].live = owner[current[t]].live
        /\ busy'[owner[current[t]].ptr] \subseteq busy[owner[current[t]].ptr]
    BY <1>2, <2>1, <2>2 DEF QuietStep, RecordsStay, OwnersStay
  <2> QED  BY <2>1, <2>3, <2>4
<1>6. UsedIsOwned'
  <2> SUFFICES ASSUME NEW p \in Pointers,
                      memory'[p] \in {"native", "custom", "live", "candidate", "rogue"},
                      ~terminal', ~customFailed'
               PROVE  \E n \in DOMAIN owner' : owner'[n].ptr = p /\ Active(n)'
    BY DEF UsedIsOwned
  <2>1. memory[p] \in {"native", "custom", "live", "candidate", "rogue"}
    BY DEF QuietStep, Unnoticed
  <2>2. \E n \in DOMAIN owner : owner[n].ptr = p /\ Active(n)
    BY <2>1 DEF UsedIsOwned, QuietStep
  <2> QED  BY <1>1, <2>2 DEF QuietStep, RecordsStay, OwnersStay
<1> QED  BY <1>1, <1>4, <1>5, <1>6

\* Whoever may change something does not do so in a transition.
LEMMA ChangesWait ==
    ASSUME NEW t \in TorchThreads, MayChange(t)
    PROVE  /\ ~Changing /\ \A u \in TorchThreads : pc[u] # "locked" /\ ~Unwinding(u)
           /\ pc[t] = "idle" /\ alive[t]
  BY NativeAssumption DEF MayChange, MayCall, Changing

\* Outside of the calls that delete, threads only begin and end calls.
LEMMA StrandedStays ==
    ASSUME NInv, QuietStep,
           \A t \in TorchThreads : alive'[t] = alive[t] \/ pc'[t] = "exit",
           \A t \in TorchThreads : pc[t] = "exit" =>
               pc'[t] = "exit" \/ terminal' \/ deferred[t] = <<>>
    PROVE  StrandedIsNoticed'
<1> SUFFICES ASSUME NEW t \in TorchThreads, ~alive'[t], deferred'[t] # <<>>
             PROVE  \/ terminal' \/ pc'[t] = "exit"
                    \/ \E u \in TorchThreads : pc'[u] = "deferred" /\ Mine(u)'.creator = t
  BY DEF StrandedIsNoticed
<1>1. CASE pc'[t] = "exit"  BY <1>1
<1>2. CASE pc'[t] # "exit"
  <2>1. ~alive[t] /\ deferred[t] # <<>>  BY <1>2 DEF QuietStep, WaysStay
  <2>2. CASE terminal  BY <2>2 DEF QuietStep
  <2>3. CASE pc[t] = "exit"  BY <2>1, <2>3
  <2>4. ASSUME NEW u \in TorchThreads, pc[u] = "deferred", Mine(u).creator = t
        PROVE  pc'[u] = "deferred" /\ Mine(u)'.creator = t
    <3>1. current[u] # NoOwner /\ current[u] \in DOMAIN owner
      BY <2>4, NamesAreOwners DEF NInv, TypesHold, Owning
    <3> QED  BY <2>4, <3>1 DEF Mine, QuietStep, WaysStay, RecordsStay, OwnersStay
  <2>5. \/ terminal \/ pc[t] = "exit"
        \/ \E u \in TorchThreads : pc[u] = "deferred" /\ Mine(u).creator = t
    BY <2>1 DEF NInv, StrandedIsNoticed
  <2> QED  BY <2>2, <2>3, <2>4, <2>5
<1> QED  BY <1>1, <1>2

\* A transition stays clear if no owner becomes active and no scope opens.
LEMMA ClearStays ==
    ASSUME NInv, RecordsStay, \A n \in DOMAIN owner : Active(n)' => Active(n),
           Changing' => Changing /\ ~terminal' /\ ~customFailed',
           Changing' => custom' = custom /\ compiler' = compiler,
           Changing' => \A p \in Pointers : memory'[p] = "raw" => memory[p] = "raw"
    PROVE  TransitionIsClear'
<1> SUFFICES ASSUME Changing'
             PROVE  /\ ~terminal' /\ ~customFailed'
                    /\ \A t \in TorchThreads : ~custom'[t] /\ ~compiler'[t]
                    /\ \A p \in Pointers : memory'[p] # "raw"
                    /\ \A n \in DOMAIN owner' : ~owner'[n].live
                    /\ \A n \in DOMAIN owner' : Active(n)' => owner'[n].kind = "native"
  BY DEF TransitionIsClear
<1>1. TransitionIsClear /\ Changing  BY DEF NInv
<1> QED  BY <1>1 DEF TransitionIsClear, RecordsStay, OwnersStay

\* A step that leaves the owners, and what is done with them, as they are.
ElsewhereStep ==
    /\ QuietStep /\ UNCHANGED owner
    /\ memory' \in [Pointers -> {"free", "native", "custom", "raw"} \cup GraphStates]
    /\ busy' \in [Pointers -> SUBSET UseQueues]
    /\ graphOK' \in [Creators -> BOOLEAN]
    /\ alive' \in [TorchThreads -> BOOLEAN] /\ terminal' \in BOOLEAN /\ customFailed' \in BOOLEAN
    /\ custom' \in [TorchThreads -> BOOLEAN] /\ compiler' \in [TorchThreads -> BOOLEAN]
    /\ transition' \in TorchThreads \cup {NoThread}
    /\ pc' \in [TorchThreads -> Places]
    /\ \A t \in TorchThreads : current[t] = NoOwner => pc'[t] \notin Owning

\* It keeps the types,
LEMMA ElsewhereTypes ==
    ASSUME TypesHold, ElsewhereStep
    PROVE  TypesHold'
<1>1. NativeTypeOK'
  BY DEF TypesHold, NativeTypeOK, ElsewhereStep, QuietStep, WaysStay
<1> QED
  BY <1>1 DEF TypesHold, ElsewhereStep, QuietStep, WaysStay

\* and the whole invariant, if it begins no transition and strands nobody.
LEMMA ElsewhereKeeps ==
    ASSUME NInv, ElsewhereStep, UnownedIsIdle',
           \A t \in TorchThreads : alive'[t] = alive[t] \/ pc'[t] = "exit",
           \A t \in TorchThreads : pc[t] = "exit" =>
               pc'[t] = "exit" \/ terminal' \/ deferred[t] = <<>>,
           Changing' => Changing /\ ~terminal' /\ ~customFailed',
           Changing' => custom' = custom /\ compiler' = compiler,
           Changing' => \A p \in Pointers : memory'[p] = "raw" => memory[p] = "raw"
    PROVE  NInv'
<1>1. TypesHold'  BY ElsewhereTypes DEF NInv
<1>2. QuietStep  BY DEF ElsewhereStep
<1>3. /\ WaysAreApart' /\ PointersAreApart' /\ OwnersKnow' /\ CallsStand' /\ UsedIsOwned'
      /\ \A n \in DOMAIN owner : Active(n)' = Active(n)
  BY <1>1, <1>2, QuietKeeps
<1>4. StrandedIsNoticed'  BY <1>2, StrandedStays
<1>5. TransitionIsClear'  BY <1>2, <1>3, ClearStays DEF QuietStep
<1> QED  BY <1>1, <1>3, <1>4, <1>5 DEF NInv

\* The proxy's own state stays, but for a pointer of memory or its busy queues.
MemoryStep ==
    UNCHANGED <<ownerVars, scopeVars, proxyVars, flowVars>>

\* A step that changes memory no owner looks after keeps the invariant.
LEMMA MemoryKeeps ==
    ASSUME NInv, MemoryStep,
           memory' \in [Pointers -> {"free", "native", "custom", "raw"} \cup GraphStates],
           busy' \in [Pointers -> SUBSET UseQueues],
           graphOK' \in [Creators -> BOOLEAN],
           \A p \in Pointers : Unnoticed(memory[p], memory'[p]) /\ busy'[p] \subseteq busy[p],
           \A p \in Pointers : memory'[p] \in {"free", "native", "raw"} => busy'[p] = {},
           Changing => \A p \in Pointers : memory'[p] = "raw" => memory[p] = "raw"
    PROVE  NInv'
<1>1. /\ owner' = owner /\ owners' = owners /\ deferred' = deferred /\ current' = current
      /\ pc' = pc /\ alive' = alive /\ terminal' = terminal /\ customFailed' = customFailed
      /\ custom' = custom /\ compiler' = compiler /\ transition' = transition
  BY DEF MemoryStep, ownerVars, scopeVars, proxyVars, flowVars
<1>2. RecordsStay /\ WaysStay
  BY <1>1 DEF RecordsStay, OwnersStay, WaysStay
<1>3. QuietStep  BY <1>1, <1>2 DEF QuietStep
<1>4. ElsewhereStep
  <2>1. \A t \in TorchThreads : current[t] = NoOwner => pc'[t] \notin Owning
    BY <1>1 DEF NInv, TypesHold
  <2> QED  BY <1>1, <1>3, <2>1 DEF ElsewhereStep, NInv, TypesHold, NativeTypeOK
<1>5. Changing' => Changing /\ ~terminal' /\ ~customFailed'
  BY <1>1 DEF Changing, NInv, TransitionIsClear
<1>6. UnownedIsIdle'  BY DEF UnownedIsIdle
<1> QED  BY <1>1, <1>4, <1>5, <1>6, ElsewhereKeeps

\* Raw memory is idle and has no owner.
LEMMA AllocRawKeeps ==
    ASSUME NInv, NEW t \in TorchThreads, NEW p \in Pointers, AllocRaw(t, p)
    PROVE  NInv'
<1>1. ~Changing  BY ChangesWait DEF AllocRaw, MayAllocate
<1>2. MemoryStep /\ busy' = busy /\ graphOK' = graphOK /\ memory[p] = "free"
  BY DEF AllocRaw, MemoryStep
<1>3. memory' = [memory EXCEPT ![p] = "raw"]  BY DEF AllocRaw
<1> QED
  BY <1>1, <1>2, <1>3, MemoryKeeps DEF NInv, TypesHold, NativeTypeOK, UnownedIsIdle, Unnoticed

\* So it may go at any time.
LEMMA DeleteRawKeeps ==
    ASSUME NInv, NEW t \in TorchThreads, NEW p \in Pointers, DeleteRaw(t, p)
    PROVE  NInv'
<1>1. MemoryStep /\ busy' = busy /\ graphOK' = graphOK /\ memory[p] = "raw"
  BY DEF DeleteRaw, MemoryStep
<1>2. memory' = [memory EXCEPT ![p] = "free"]  BY DEF DeleteRaw
<1> QED
  BY <1>1, <1>2, MemoryKeeps DEF NInv, TypesHold, NativeTypeOK, UnownedIsIdle, Unnoticed

\* Work only ever ends on its own.
LEMMA FinishKeeps ==
    ASSUME NInv, NEW p \in Pointers, NEW q \in UseQueues, Finish(p, q)
    PROVE  NInv'
<1>1. MemoryStep /\ memory' = memory /\ graphOK' = graphOK
  BY DEF Finish, MemoryStep
<1>2. busy' = [busy EXCEPT ![p] = busy[p] \ {q}]  BY DEF Finish
<1>3. busy \in [Pointers -> SUBSET UseQueues]  BY DEF NInv, TypesHold, NativeTypeOK
<1>4. /\ busy' \in [Pointers -> SUBSET UseQueues]
      /\ \A r \in Pointers : busy'[r] \subseteq busy[r]
  BY <1>2, <1>3
<1>5. \A r \in Pointers : Unnoticed(memory[r], memory'[r])  BY <1>1 DEF Unnoticed
<1>6. \A r \in Pointers : memory'[r] \in {"free", "native", "raw"} => busy'[r] = {}
  BY <1>1, <1>4 DEF NInv, UnownedIsIdle
<1> QED
  BY <1>1, <1>4, <1>5, <1>6, MemoryKeeps DEF NInv, TypesHold, NativeTypeOK

\* The end of a scope changes what is in the graph, not who owns it.
LEMMA CollectScopeKeeps ==
    ASSUME NInv, NEW t \in TorchThreads, NEW p \in Pointers, CollectScope(t, p)
    PROVE  NInv'
<1>1. MemoryStep /\ busy' = busy /\ graphOK' = graphOK /\ memory[p] \in {"live", "outside"}
  BY DEF CollectScope, MemoryStep
<1>2. memory' = [memory EXCEPT ![p] = IF memory[p] = "live" THEN "candidate" ELSE "freed"]
  BY DEF CollectScope
<1>3. \A r \in Pointers : Unnoticed(memory[r], memory'[r])
  BY <1>1, <1>2 DEF Unnoticed, NInv, TypesHold, NativeTypeOK
<1>4. memory' \in [Pointers -> {"free", "native", "custom", "raw"} \cup GraphStates]
  BY <1>1, <1>2 DEF NInv, TypesHold, NativeTypeOK, GraphStates
<1>5. \A r \in Pointers : /\ memory'[r] = memory[r] \/ memory'[r] \in {"candidate", "freed"}
                          /\ memory'[r] \in {"free", "native", "raw"} => busy'[r] = {}
  BY <1>1, <1>2 DEF NInv, UnownedIsIdle, TypesHold, NativeTypeOK
<1>6. busy' \in [Pointers -> SUBSET UseQueues] /\ graphOK' \in [Creators -> BOOLEAN]
  BY <1>1 DEF NInv, TypesHold, NativeTypeOK
<1> QED  BY <1>1, <1>3, <1>4, <1>5, <1>6, MemoryKeeps

\* A handoff frees only what was given up, and only when it is idle.
LEMMA HandOffKeeps ==
    ASSUME NInv, NEW t \in TorchThreads, NEW p \in Pointers, HandOff(t, p)
    PROVE  NInv'
<1>1. /\ MemoryStep /\ busy' = busy /\ graphOK' = graphOK
      /\ memory[p] \in {"candidate", "freed"} /\ busy[p] = {}
  BY DEF HandOff, MemoryStep
<1>2. memory' = [memory EXCEPT ![p] = IF memory[p] = "freed" THEN "free" ELSE "rogue"]
  BY DEF HandOff
<1>3. \A r \in Pointers : Unnoticed(memory[r], memory'[r])
  BY <1>1, <1>2 DEF Unnoticed, NInv, TypesHold, NativeTypeOK
<1>4. memory' \in [Pointers -> {"free", "native", "custom", "raw"} \cup GraphStates]
  BY <1>1, <1>2 DEF NInv, TypesHold, NativeTypeOK, GraphStates
<1>5. \A r \in Pointers : /\ memory'[r] = "raw" => memory[r] = "raw"
                          /\ memory'[r] \in {"free", "native", "raw"} => busy'[r] = {}
  BY <1>1, <1>2 DEF NInv, UnownedIsIdle, TypesHold, NativeTypeOK
<1>6. busy' \in [Pointers -> SUBSET UseQueues] /\ graphOK' \in [Creators -> BOOLEAN]
  BY <1>1 DEF NInv, TypesHold, NativeTypeOK
<1> QED  BY <1>1, <1>3, <1>4, <1>5, <1>6, MemoryKeeps

\* A graph may fail at any time.
LEMMA GraphFailsKeeps ==
    ASSUME NInv, NEW t \in Creators, GraphFails(t)
    PROVE  NInv'
<1>1. /\ MemoryStep /\ memory' = memory /\ busy' = busy
      /\ graphOK' = [graphOK EXCEPT ![t] = FALSE]
  BY DEF GraphFails, MemoryStep
<1> QED
  BY <1>1, MemoryKeeps DEF NInv, TypesHold, NativeTypeOK, UnownedIsIdle, Unnoticed

\* Steps that leave the memory and the owners alone: scopes, transitions and
\* the exit of a thread.
ControlStep ==
    /\ UNCHANGED <<graphVars, ownerVars, customFailed>>
    /\ current' = current
    /\ \A t \in TorchThreads : current[t] # NoOwner => pc'[t] = pc[t]
    /\ \A t \in TorchThreads : current[t] = NoOwner => pc'[t] \notin Owning
    /\ terminal => terminal'
    /\ alive' \in [TorchThreads -> BOOLEAN] /\ terminal' \in BOOLEAN
    /\ custom' \in [TorchThreads -> BOOLEAN] /\ compiler' \in [TorchThreads -> BOOLEAN]
    /\ transition' \in TorchThreads \cup {NoThread}
    /\ pc' \in [TorchThreads -> Places]

\* Nor does a step that only changes scopes, transitions and threads outside
\* of a deletion touch an owner.
LEMMA ControlIsElsewhere ==
    ASSUME NInv, ControlStep
    PROVE  ElsewhereStep /\ UnownedIsIdle' /\ memory' = memory
<1>1. /\ owner' = owner /\ owners' = owners /\ deferred' = deferred
      /\ memory' = memory /\ busy' = busy /\ graphOK' = graphOK /\ customFailed' = customFailed
  BY DEF ControlStep, graphVars, ownerVars
<1>2. RecordsStay /\ WaysStay
  BY <1>1 DEF RecordsStay, OwnersStay, WaysStay, ControlStep
<1>3. QuietStep  BY <1>1, <1>2 DEF QuietStep, ControlStep, Unnoticed
<1>4. UnownedIsIdle'  BY <1>1 DEF NInv, UnownedIsIdle
<1>5. memory \in [Pointers -> {"free", "native", "custom", "raw"} \cup GraphStates]
      /\ busy \in [Pointers -> SUBSET UseQueues] /\ graphOK \in [Creators -> BOOLEAN]
      /\ customFailed \in BOOLEAN
  BY DEF NInv, TypesHold, NativeTypeOK
<1> QED  BY <1>1, <1>3, <1>4, <1>5 DEF ElsewhereStep, ControlStep

\* A scope begins or ends.
LEMMA ScopesKeep ==
    ASSUME NInv, NEW t \in TorchThreads,
           ScopeBegin(t) \/ ScopeEnd(t) \/ CompilerBegin(t) \/ CompilerEnd(t)
    PROVE  NInv'
<1>1. MayChange(t)  BY DEF ScopeBegin, ScopeEnd, CompilerBegin, CompilerEnd
<1>2. /\ UNCHANGED <<graphVars, ownerVars, proxyVars, flowVars>> /\ transition' = transition
      /\ \E b \in BOOLEAN : \/ custom' = [custom EXCEPT ![t] = b] /\ compiler' = compiler
                            \/ compiler' = [compiler EXCEPT ![t] = b] /\ custom' = custom
  BY DEF ScopeBegin, ScopeEnd, CompilerBegin, CompilerEnd
<1>3. pc' = pc /\ current' = current /\ alive' = alive /\ terminal' = terminal
  BY <1>2 DEF flowVars, proxyVars
<1>4. custom' \in [TorchThreads -> BOOLEAN] /\ compiler' \in [TorchThreads -> BOOLEAN]
  BY <1>2 DEF NInv, TypesHold
<1>5. ControlStep
  <2>1. \A u \in TorchThreads : current[u] = NoOwner => pc'[u] \notin Owning
    BY <1>3 DEF NInv, TypesHold
  <2> QED
    BY <1>2, <1>3, <1>4, <2>1 DEF ControlStep, proxyVars, NInv, TypesHold, NativeTypeOK
<1>6. ~Changing'  BY <1>1, <1>2, <1>3, ChangesWait DEF Changing
<1> QED  BY <1>3, <1>5, <1>6, ControlIsElsewhere, ElsewhereKeeps

\* The end of a transition promises less.
LEMMA TransitionEndKeeps ==
    ASSUME NInv, NEW t \in TorchThreads, TransitionEnd(t)
    PROVE  NInv'
<1>1. /\ UNCHANGED <<graphVars, ownerVars, proxyVars, flowVars>>
      /\ custom' = custom /\ compiler' = compiler /\ transition' = NoThread
      /\ transition = t
  BY DEF TransitionEnd
<1>2. pc' = pc /\ current' = current /\ alive' = alive /\ terminal' = terminal
      /\ customFailed' = customFailed /\ memory' = memory
  BY <1>1 DEF flowVars, proxyVars, graphVars
<1>3. ControlStep
  <2>1. \A u \in TorchThreads : current[u] = NoOwner => pc'[u] \notin Owning
    BY <1>2 DEF NInv, TypesHold
  <2> QED  BY <1>1, <1>2, <2>1 DEF ControlStep, NInv, TypesHold
<1>4. Changing /\ ~terminal /\ ~customFailed
  BY <1>1, NativeAssumption DEF NInv, Changing, TransitionIsClear
<1> QED  BY <1>1, <1>2, <1>3, <1>4, ControlIsElsewhere, ElsewhereKeeps

\* A thread that is in no deletion begins a call of its own, or ends it.
LEMMA CallsMove ==
    ASSUME NInv, NEW t \in TorchThreads, pc[t] \notin Owning, NEW x \in Places \ Owning,
           pc' = [pc EXCEPT ![t] = x],
           current' = current \/ current' = [current EXCEPT ![t] = NoOwner]
    PROVE  /\ current' = current /\ pc' \in [TorchThreads -> Places] /\ pc'[t] = x
           /\ \A u \in TorchThreads : u # t => pc'[u] = pc[u]
           /\ \A u \in TorchThreads : current[u] # NoOwner => pc'[u] = pc[u]
           /\ \A u \in TorchThreads : current[u] = NoOwner => pc'[u] \notin Owning
<1>1. /\ pc \in [TorchThreads -> Places] /\ current \in [TorchThreads -> Nat \cup {NoOwner}]
      /\ \A u \in TorchThreads : pc[u] \in Owning <=> current[u] # NoOwner
  BY DEF NInv, TypesHold
<1>2. current[t] = NoOwner  BY <1>1
<1>3. current' = current  BY <1>1, <1>2
<1> QED  BY <1>1, <1>2, <1>3

\* The thread that is gone still looks for what was deferred to it.
LEMMA ExitKeeps ==
    ASSUME NInv, NEW t \in TorchThreads, Exit(t) \/ ExitCheck(t)
    PROVE  NInv'
<1>1. /\ UNCHANGED <<graphVars, ownerVars, scopeVars, customFailed>>
      /\ pc[t] \in {"idle", "exit"}
      /\ \E x \in {"idle", "exit"} : pc' = [pc EXCEPT ![t] = x] /\ (x = "exit" => Exit(t))
      /\ current' = current \/ current' = [current EXCEPT ![t] = NoOwner]
  BY DEF Exit, ExitCheck, MayCall, Goto, Leave
<1>2. PICK x \in {"idle", "exit"} : pc' = [pc EXCEPT ![t] = x]
  BY <1>1
<1>3. /\ current' = current /\ pc' \in [TorchThreads -> Places] /\ pc'[t] = x
      /\ \A u \in TorchThreads : u # t => pc'[u] = pc[u]
      /\ \A u \in TorchThreads : current[u] # NoOwner => pc'[u] = pc[u]
      /\ \A u \in TorchThreads : current[u] = NoOwner => pc'[u] \notin Owning
  BY <1>1, <1>2, CallsMove DEF Places, Owning
<1>4. custom' = custom /\ compiler' = compiler /\ transition' = transition
  BY <1>1 DEF scopeVars
<1>5. CASE Exit(t)
  <2>1. /\ terminal' = terminal /\ alive' = [alive EXCEPT ![t] = FALSE]
        /\ pc' = [pc EXCEPT ![t] = "exit"] /\ pc[t] = "idle"
    BY <1>5 DEF Exit, Goto, MayCall
  <2>2. ControlStep
    BY <1>1, <1>3, <1>4, <2>1 DEF ControlStep, NInv, TypesHold, NativeTypeOK
  <2>3. \A u \in TorchThreads : alive'[u] = alive[u] \/ pc'[u] = "exit"
    BY <2>1 DEF NInv, TypesHold
  <2>4. \A u \in TorchThreads : pc[u] = "exit" => pc'[u] = "exit"
    BY <2>1, <1>3
  <2>5. Changing' => Changing
    BY <1>3, <1>4, <2>1 DEF Changing, NInv, TypesHold
  <2>6. Changing => ~terminal /\ ~customFailed  BY DEF NInv, TransitionIsClear
  <2> QED
    BY <1>1, <1>4, <2>1, <2>2, <2>3, <2>4, <2>5, <2>6, ControlIsElsewhere, ElsewhereKeeps
<1>6. CASE ExitCheck(t)
  <2>1. /\ terminal' = (terminal \/ deferred[t] # <<>>) /\ alive' = alive
        /\ pc' = [pc EXCEPT ![t] = "idle"] /\ pc[t] = "exit"
    BY <1>6 DEF ExitCheck, Leave
  <2>2. ControlStep
    BY <1>1, <1>3, <1>4, <2>1 DEF ControlStep, NInv, TypesHold, NativeTypeOK
  <2>3. \A u \in TorchThreads :
            pc[u] = "exit" => pc'[u] = "exit" \/ terminal' \/ deferred[u] = <<>>
    BY <2>1, <1>3
  <2>4. Changing' => Changing
    BY <1>3, <1>4, <2>1 DEF Changing, NInv, TypesHold
  <2>5. ASSUME Changing PROVE ~terminal /\ ~customFailed /\ deferred[t] = <<>>
    <3>1. ASSUME deferred[t] # <<>> PROVE FALSE
      <4>1. deferred[t] \in Seq(Nat)  BY DEF NInv, TypesHold
      <4>2. 1 \in DOMAIN deferred[t]  BY <3>1, <4>1
      <4>3. /\ deferred[t][1] \in DOMAIN owner /\ owner[deferred[t][1]].kind = "compiler"
        BY <4>2 DEF NInv, TypesHold, NativeTypeOK
      <4>4. Active(deferred[t][1])  BY <4>2 DEF Active, Queued
      <4> QED  BY <2>5, <4>3, <4>4 DEF NInv, TransitionIsClear
    <3> QED  BY <2>5, <3>1 DEF NInv, TransitionIsClear
  <2> QED
    BY <1>1, <1>4, <2>1, <2>2, <2>3, <2>4, <2>5, ControlIsElsewhere, ElsewhereKeeps
<1> QED  BY <1>5, <1>6

\* The tables are read after the counters: only native owners can be left by
\* then.
LEMMA TransitionEnterKeeps ==
    ASSUME NInv, NEW t \in TorchThreads, TransitionEnter(t)
    PROVE  NInv'
<1>1. /\ UNCHANGED <<graphVars, ownerVars, proxyVars>>
      /\ custom' = custom /\ compiler' = compiler /\ transition' \in {t, NoThread}
      /\ pc[t] = "locked" /\ pc' = [pc EXCEPT ![t] = "idle"]
      /\ current' = [current EXCEPT ![t] = NoOwner]
  BY DEF TransitionEnter, Leave
<1>2. /\ current' = current /\ pc' \in [TorchThreads -> Places] /\ pc'[t] = "idle"
      /\ \A u \in TorchThreads : u # t => pc'[u] = pc[u]
      /\ \A u \in TorchThreads : current[u] # NoOwner => pc'[u] = pc[u]
      /\ \A u \in TorchThreads : current[u] = NoOwner => pc'[u] \notin Owning
  BY <1>1, CallsMove DEF Places, Owning
<1>3. alive' = alive /\ terminal' = terminal /\ customFailed' = customFailed /\ memory' = memory
  BY <1>1 DEF proxyVars, graphVars
<1>4. ControlStep
  BY <1>1, <1>2, <1>3 DEF ControlStep, NInv, TypesHold
<1>5. Changing /\ ~terminal /\ ~customFailed
  BY <1>1 DEF Changing, NInv, TransitionIsClear
<1>6. \A u \in TorchThreads : pc[u] = "exit" => pc'[u] = "exit"
  BY <1>1, <1>2
<1> QED  BY <1>1, <1>3, <1>4, <1>5, <1>6, ControlIsElsewhere, ElsewhereKeeps

\* The counters speak for the owners: of memory that is not native all of it
\* would be accounted for, but for an owner that is being unwound.
LEMMA TransitionBeginKeeps ==
    ASSUME NInv, NEW t \in TorchThreads, TransitionBegin(t)
    PROVE  NInv'
<1>1. /\ UNCHANGED <<graphVars, ownerVars, scopeVars, proxyVars>> /\ CountersClear
      /\ MayChange(t) /\ pc' = [pc EXCEPT ![t] = "locked"] /\ current' = current
  BY DEF TransitionBegin, Goto
<1>2. /\ current' = current /\ pc' \in [TorchThreads -> Places] /\ pc'[t] = "locked"
      /\ \A u \in TorchThreads : u # t => pc'[u] = pc[u]
      /\ \A u \in TorchThreads : current[u] # NoOwner => pc'[u] = pc[u]
      /\ \A u \in TorchThreads : current[u] = NoOwner => pc'[u] \notin Owning
  BY <1>1, ChangesWait, CallsMove DEF Places, Owning
<1>3. /\ owner' = owner /\ custom' = custom /\ compiler' = compiler /\ transition' = transition
      /\ alive' = alive /\ terminal' = terminal /\ customFailed' = customFailed
      /\ memory' = memory
  BY <1>1 DEF ownerVars, scopeVars, proxyVars, graphVars
<1>4. ControlStep
  BY <1>1, <1>2, <1>3 DEF ControlStep, NInv, TypesHold, NativeTypeOK
<1>5. ElsewhereStep /\ QuietStep /\ UnownedIsIdle' /\ TypesHold'
  BY <1>4, ControlIsElsewhere, ElsewhereTypes DEF ElsewhereStep, NInv
<1>6. /\ WaysAreApart' /\ PointersAreApart' /\ OwnersKnow' /\ CallsStand' /\ UsedIsOwned'
      /\ \A n \in DOMAIN owner : Active(n)' = Active(n)
  BY <1>5, QuietKeeps
<1>7. StrandedIsNoticed'
  <2>1. \A u \in TorchThreads : pc[u] = "exit" => pc'[u] = "exit"
    BY <1>1, <1>2, ChangesWait
  <2> QED  BY <1>3, <1>5, <2>1, StrandedStays
<1>8. TransitionIsClear'
  <2>1. ASSUME NEW n \in DOMAIN owner, Active(n), owner[n].kind # "native" PROVE FALSE
    <3>1. ~owner[n].live  BY <1>1 DEF CountersClear
    <3>2. PICK u \in TorchThreads : current[u] = n /\ pc[u] \in {"wait", "destroy"}
      BY <2>1, <3>1 DEF NInv, OwnersKnow, Knows, Ending
    <3>3. n # NoOwner  BY NamesAreOwners DEF NInv
    <3>4. Unwinding(u)  BY <2>1, <3>1, <3>2, <3>3 DEF Unwinding
    <3> QED  BY <3>4, <1>1, ChangesWait
  <2>2. /\ ~terminal /\ ~customFailed
        /\ \A u \in TorchThreads : ~custom[u] /\ ~compiler[u]
        /\ \A p \in Pointers : memory[p] # "raw"
        /\ \A n \in DOMAIN owner : ~owner[n].live
    BY <1>1 DEF CountersClear
  <2> QED  BY <1>3, <1>6, <2>1, <2>2 DEF TransitionIsClear
<1> QED  BY <1>5, <1>6, <1>7, <1>8 DEF NInv

\* A recorded queue makes the owner wait for more.
LEMMA RecordStreamKeeps ==
    ASSUME NInv, NEW t \in TorchThreads, NEW p \in Pointers, NEW q \in UseQueues,
           RecordStream(t, p, q)
    PROVE  NInv'
<1>1. /\ UNCHANGED <<graphVars, owners, deferred, scopeVars, proxyVars, flowVars>>
      /\ p \in DOMAIN owners
  BY DEF RecordStream
<1> DEFINE n == owners[p]
           d == [owner[n] EXCEPT !.consumers = owner[n].consumers \cup {q}]
<1>2. n \in DOMAIN owner /\ owner \in Seq(OwnerRecords)
  BY <1>1 DEF NInv, TypesHold, NativeTypeOK
<1>3. owner' = [owner EXCEPT ![n] = d]
  BY DEF RecordStream
<1>4. owner[n] \in OwnerRecords  BY <1>2
<1>5. /\ d \in OwnerRecords
      /\ d.kind = owner[n].kind /\ d.ptr = owner[n].ptr /\ d.creator = owner[n].creator
      /\ d.consumers = owner[n].consumers \cup {q} /\ d.live = owner[n].live
      /\ d.fenced = owner[n].fenced
  BY <1>4, RecordedRecord
<1> HIDE DEF n, d
<1>6. /\ owner' \in Seq(OwnerRecords) /\ Len(owner') = Len(owner)
      /\ DOMAIN owner' = DOMAIN owner
      /\ owner'[n] = d /\ \A m \in DOMAIN owner : m # n => owner'[m] = owner[m]
  BY <1>2, <1>3, <1>5, OwnerChanged
<1>7. RecordsStay
  BY <1>5, <1>6 DEF RecordsStay, OwnersStay
<1>8. /\ owners' = owners /\ deferred' = deferred /\ pc' = pc /\ current' = current
      /\ alive' = alive /\ terminal' = terminal /\ customFailed' = customFailed
      /\ custom' = custom /\ compiler' = compiler /\ transition' = transition
      /\ memory' = memory /\ busy' = busy /\ graphOK' = graphOK
  BY <1>1 DEF graphVars, scopeVars, proxyVars, flowVars
<1>9. QuietStep
  BY <1>7, <1>8 DEF QuietStep, WaysStay, Unnoticed
<1>10. TypesHold'
  <2>1. \A u \in TorchThreads : \A i \in DOMAIN deferred[u] :
           /\ deferred[u][i] \in DOMAIN owner
           /\ owner'[deferred[u][i]].kind = "compiler" /\ owner'[deferred[u][i]].creator = u
    BY <1>7 DEF RecordsStay, OwnersStay, NInv, TypesHold, NativeTypeOK
  <2>2. NativeTypeOK'  BY <1>6, <1>8, <2>1 DEF NInv, TypesHold, NativeTypeOK
  <2> QED  BY <1>8, <2>2 DEF NInv, TypesHold
<1>11. UnownedIsIdle'  BY <1>8 DEF NInv, UnownedIsIdle
<1>12. /\ WaysAreApart' /\ PointersAreApart' /\ OwnersKnow' /\ CallsStand' /\ UsedIsOwned'
       /\ \A m \in DOMAIN owner : Active(m)' = Active(m)
  BY <1>9, <1>10, <1>11, QuietKeeps
<1>13. StrandedIsNoticed'  BY <1>8, <1>9, StrandedStays
<1>14. TransitionIsClear'
  BY <1>7, <1>8, <1>12, ClearStays DEF Changing, NInv, TransitionIsClear
<1> QED  BY <1>10, <1>11, <1>12, <1>13, <1>14 DEF NInv

\* Only a listed owner, which has not waited yet, gets more work to wait for.
LEMMA SubmitKeeps ==
    ASSUME NInv, NEW p \in Pointers, NEW q \in UseQueues, Submit(p, q)
    PROVE  NInv'
<1>1. /\ p \in DOMAIN owners /\ owner[owners[p]].kind # "native"
      /\ q \in WaitFor(owner[owners[p]])
      /\ busy' = [busy EXCEPT ![p] = busy[p] \cup {q}]
      /\ UNCHANGED <<memory, graphOK, ownerVars, scopeVars, proxyVars, flowVars>>
  BY DEF Submit, WaitFor
<1> DEFINE n == owners[p]
<1>2. n \in DOMAIN owner /\ owner[n].ptr = p /\ Active(n) /\ Listed(n)
  BY <1>1 DEF NInv, TypesHold, NativeTypeOK, WaysAreApart, Active, Listed
<1>3. /\ owner' = owner /\ owners' = owners /\ deferred' = deferred /\ current' = current
      /\ pc' = pc /\ alive' = alive /\ terminal' = terminal /\ customFailed' = customFailed
      /\ custom' = custom /\ compiler' = compiler /\ transition' = transition
      /\ memory' = memory /\ graphOK' = graphOK
  BY <1>1 DEF ownerVars, scopeVars, proxyVars, flowVars
<1>4. /\ busy' \in [Pointers -> SUBSET UseQueues] /\ busy'[p] = busy[p] \cup {q}
      /\ \A r \in Pointers : r # p => busy'[r] = busy[r]
  <2>1. busy \in [Pointers -> SUBSET UseQueues]  BY DEF NInv, TypesHold, NativeTypeOK
  <2> QED  BY <1>1, <2>1
<1>5. Knows(n)  BY <1>2 DEF NInv, OwnersKnow
<1>6. OwnersStay /\ WaysStay  BY <1>3 DEF OwnersStay, WaysStay
<1>7. /\ \A m : Listed(m)' = Listed(m)
      /\ \A m \in DOMAIN owner : Active(m)' = Active(m)
      /\ \A m \in DOMAIN owner : Ending(m) => Ending(m)'
      /\ WaysAreApart' /\ PointersAreApart'
  BY <1>6, WaysStayApart DEF NInv
<1>8. TypesHold'
  <2>1. NativeTypeOK'  BY <1>3, <1>4 DEF NInv, TypesHold, NativeTypeOK
  <2> QED  BY <1>3, <2>1 DEF NInv, TypesHold
<1>9. \A m \in DOMAIN owner : Active(m) /\ m # n => owner[m].ptr # p /\ owner[m].ptr \in Pointers
  BY <1>2, NamesAreOwners DEF NInv, PointersAreApart, OwnerRecords
<1>10. OwnersKnow'
  <2> SUFFICES ASSUME NEW m \in DOMAIN owner, Active(m) PROVE Knows(m)'
    BY <1>3, <1>7 DEF OwnersKnow
  <2>1. Knows(m)  BY DEF NInv, OwnersKnow
  <2>2. CASE m = n
    <3>1. busy'[p] \subseteq WaitFor(owner[n])
      BY <1>1, <1>2, <1>4, <1>5 DEF Knows
    <3> QED
      BY <1>1, <1>2, <1>3, <1>5, <1>7, <2>2, <3>1 DEF Knows, WaitFor
  <2>3. CASE m # n
    BY <1>3, <1>4, <1>7, <1>9, <2>1, <2>3 DEF Knows, WaitFor
  <2> QED  BY <2>2, <2>3
<1>11. CallsStand'
  <2> SUFFICES ASSUME NEW t \in TorchThreads
               PROVE  /\ pc[t] \in {"hand", "destroy"} => busy'[Mine(t).ptr] = {}
                      /\ pc[t] \in {"fence", "hand", "deferred"} =>
                             Mine(t).kind = "compiler" /\ Mine(t).live
    BY <1>3 DEF CallsStand, Mine
  <2>1. ASSUME pc[t] \in {"hand", "destroy"} PROVE Mine(t).ptr # p /\ Mine(t).ptr \in Pointers
    <3>1. current[t] \in DOMAIN owner /\ Active(current[t]) /\ current[t] # n
      BY <1>1, <2>1, NamesAreOwners DEF NInv, Owning, Active, InCall, WaysAreApart
    <3> QED  BY <1>9, <3>1 DEF Mine
  <2> QED  BY <1>4, <2>1 DEF NInv, CallsStand
<1>12. UnownedIsIdle'
  <2>1. memory[p] \notin {"free", "native", "raw"}
    <3>1. owner[n].kind \in {"custom", "compiler"}
      BY <1>1, <1>2, NamesAreOwners DEF NInv, OwnerRecords
    <3> QED  BY <1>2, <1>5, <3>1 DEF Knows, Usable
  <2> QED  BY <1>3, <1>4, <2>1 DEF NInv, UnownedIsIdle
<1>13. UsedIsOwned'  BY <1>3, <1>7 DEF NInv, UsedIsOwned
<1>14. StrandedIsNoticed'  BY <1>3 DEF NInv, StrandedIsNoticed, Mine
<1>15. TransitionIsClear'  BY <1>3, <1>7 DEF NInv, TransitionIsClear, Changing
<1> QED  BY <1>7, <1>8, <1>10, <1>11, <1>12, <1>13, <1>14, <1>15 DEF NInv

-----------------------------------------------------------------------------
(* Allocation: one more owner, for a pointer that had none.                 *)

\* Free memory has no active owner.
LEMMA FreeIsNotOwned ==
    ASSUME NInv, NEW p \in Pointers, memory[p] = "free"
    PROVE  p \notin DOMAIN owners /\ \A n \in DOMAIN owner : Active(n) => owner[n].ptr # p
<1>1. \A n \in DOMAIN owner : Active(n) => owner[n].ptr # p
  <2> SUFFICES ASSUME NEW n \in DOMAIN owner, Active(n), owner[n].ptr = p PROVE FALSE
    OBVIOUS
  <2>1. owner[n].kind \in {"native", "custom", "compiler"}
    BY NamesAreOwners DEF NInv, OwnerRecords
  <2>2. memory[p] \in Usable(owner[n].kind)  BY DEF NInv, OwnersKnow, Knows
  <2> QED  BY <2>1, <2>2 DEF Usable
<1>2. ASSUME p \in DOMAIN owners PROVE FALSE
  BY <1>1, <1>2 DEF NInv, TypesHold, NativeTypeOK, WaysAreApart, Active, Listed
<1> QED  BY <1>1, <1>2

\* The owner is in the table, or its insertion failed and t destroys it.
Kept(p)     == owners' = Put(owners, p, Number) /\ UNCHANGED <<deferred, flowVars>>
Unwound(t) ==
    /\ pc' = [pc EXCEPT ![t] = "wait"] /\ current' = [current EXCEPT ![t] = Number]
    /\ UNCHANGED <<owners, deferred>>

\* The table has the new owner.
LEMMA KeptWays ==
    ASSUME NInv, NEW p \in Pointers, memory[p] = "free", Kept(p)
    PROVE  /\ DOMAIN owners' = DOMAIN owners \cup {p} /\ owners'[p] = Number
           /\ \A r \in DOMAIN owners : owners'[r] = owners[r]
           /\ owners' = [r \in DOMAIN owners' |-> owners'[r]]
           /\ deferred' = deferred /\ pc' = pc /\ current' = current
           /\ \A n : n # Number => Listed(n)' = Listed(n)
<1>1. owners' = [r \in DOMAIN owners \cup {p} |-> IF r = p THEN Number ELSE owners[r]]
  BY DEF Kept, Put
<1>2. p \notin DOMAIN owners  BY FreeIsNotOwned
<1>3. deferred' = deferred /\ pc' = pc /\ current' = current  BY DEF Kept, flowVars
<1> HIDE DEF Number
<1>4. /\ DOMAIN owners' = DOMAIN owners \cup {p} /\ owners'[p] = Number
      /\ \A r \in DOMAIN owners : owners'[r] = owners[r]
  BY <1>1, <1>2
<1>5. owners' = [r \in DOMAIN owners' |-> owners'[r]]  BY <1>1
<1>6. ASSUME NEW n, n # Number PROVE Listed(n)' = Listed(n)
  <2>1. (\E r \in DOMAIN owners' : owners'[r] = n) <=> (\E r \in DOMAIN owners : owners[r] = n)
    BY <1>4, <1>6
  <2> QED  BY <2>1 DEF Listed
<1> QED  BY <1>3, <1>4, <1>5, <1>6

\* The thread has the new owner.
LEMMA UnwoundWays ==
    ASSUME NInv, NEW t \in TorchThreads, pc[t] = "idle", Unwound(t)
    PROVE  /\ owners' = owners /\ deferred' = deferred
           /\ pc' \in [TorchThreads -> Places] /\ pc'[t] = "wait" /\ current'[t] = Number
           /\ current[t] = NoOwner
           /\ current' \in [TorchThreads -> Nat \cup {NoOwner}]
           /\ \A u \in TorchThreads : u # t => pc'[u] = pc[u] /\ current'[u] = current[u]
<1>1. /\ pc \in [TorchThreads -> Places] /\ current \in [TorchThreads -> Nat \cup {NoOwner}]
      /\ pc[t] \notin Owning => current[t] = NoOwner
  BY DEF NInv, TypesHold
<1>2. Number \in Nat  BY DEF NInv, TypesHold, NativeTypeOK, Number
<1>3. current[t] = NoOwner  BY <1>1 DEF Owning
<1>4. "wait" \in Places  BY DEF Places, Owning
<1> HIDE DEF Number
<1> QED  BY <1>1, <1>2, <1>3, <1>4 DEF Unwound

\* A new owner, known by the table or by the call of t.
AddOwner(t, p, kind, m, acc) ==
    /\ MayAllocate(t) /\ memory[p] = "free"
    /\ kind \in {"native", "custom", "compiler"}
    /\ m = IF kind = "compiler" THEN "live" ELSE kind
    /\ memory' = [memory EXCEPT ![p] = m]
    /\ owner' = Append(owner, NewOwner(kind, p, t, acc))
    /\ \/ Kept(p) /\ acc = (kind # "native")
       \/ Unwound(t) /\ ~acc /\ kind # "native"
    /\ UNCHANGED <<graphOK, busy, scopeVars, proxyVars>>

\* The new owner is the last one.
LEMMA AddedOwner ==
    ASSUME NInv, NEW t \in TorchThreads, NEW p \in Pointers, NEW kind, NEW m,
           NEW acc \in BOOLEAN, AddOwner(t, p, kind, m, acc)
    PROVE  /\ owner' \in Seq(OwnerRecords) /\ Len(owner') = Number
           /\ DOMAIN owner' = DOMAIN owner \cup {Number} /\ Number \notin DOMAIN owner
           /\ Number \in Nat /\ Number <= MaxOwners
           /\ owner'[Number] = NewOwner(kind, p, t, acc)
           /\ \A n \in DOMAIN owner : owner'[n] = owner[n]
<1>1. owner \in Seq(OwnerRecords)  BY DEF NInv, TypesHold, NativeTypeOK
<1>2. NewOwner(kind, p, t, acc) \in OwnerRecords
  BY DEF AddOwner, NewOwner, OwnerRecords
<1>3. owner' = Append(owner, NewOwner(kind, p, t, acc))  BY DEF AddOwner
<1>4. Number \in Nat /\ Number <= MaxOwners
  BY <1>1, NativeAssumption DEF AddOwner, MayAllocate, Numbers, Number
<1> HIDE DEF NewOwner
<1> QED  BY <1>1, <1>2, <1>3, <1>4, OwnerAdded DEF Number

\* Nothing names an owner that does not exist yet.
LEMMA NumberIsNew ==
    ASSUME NInv, Number \notin DOMAIN owner
    PROVE  /\ ~Listed(Number) /\ ~Queued(Number)
           /\ \A t \in TorchThreads : current[t] # Number
<1>1. Number # NoOwner
  BY NativeAssumption DEF Number, NInv, TypesHold, NativeTypeOK
<1> HIDE DEF Number
<1> QED  BY <1>1, NamesAreOwners DEF NInv, TypesHold, NativeTypeOK, InCall

\* One way leads to the new owner, and the others are as they were.
LEMMA AddedWays ==
    ASSUME NInv, NEW t \in TorchThreads, NEW p \in Pointers, NEW kind, NEW m,
           NEW acc \in BOOLEAN, AddOwner(t, p, kind, m, acc),
           NEW N, N = Number
    PROVE  /\ Active(N)' /\ (~acc /\ kind # "native" => Ending(N)')
           /\ deferred' = deferred
           /\ \A n \in DOMAIN owner : Active(n)' = Active(n)
           /\ \A n \in DOMAIN owner : Listed(n)' = Listed(n)
           /\ \A n \in DOMAIN owner : Ending(n) => Ending(n)'
           /\ \A u \in TorchThreads :
                 \/ pc'[u] = pc[u] /\ current'[u] = current[u]
                 \/ /\ u = t /\ pc[u] = "idle" /\ pc'[u] = "wait" /\ current[u] = NoOwner
                    /\ current'[u] = N /\ Unwound(t)
<1>1. pc[t] = "idle" /\ N \notin DOMAIN owner
  BY AddedOwner, ChangesWait DEF AddOwner, MayAllocate
<1>2. N # NoOwner /\ NoOwner \notin DOMAIN owner
  BY NamesAreOwners, NativeAssumption DEF Number, NInv, TypesHold, NativeTypeOK
<1>3. CASE Kept(p) /\ acc = (kind # "native")
  <2>1. /\ DOMAIN owners' = DOMAIN owners \cup {p} /\ owners'[p] = N
        /\ deferred' = deferred /\ pc' = pc /\ current' = current
        /\ \A n : n # N => Listed(n)' = Listed(n)
    BY <1>3, KeptWays DEF AddOwner
  <2>2. N \notin DOMAIN owner  BY <1>1
  <2>3. Listed(N)'  BY <2>1 DEF Listed
  <2>4. \A n \in DOMAIN owner : Listed(n)' = Listed(n)  BY <2>1, <2>2
  <2>5. \A n \in DOMAIN owner : Active(n)' = Active(n)
    BY <2>1, <2>4 DEF Active, InCall, Queued
  <2>6. \A n \in DOMAIN owner : Ending(n)' = Ending(n)  BY <2>1 DEF Ending
  <2>7. Active(N)'  BY <2>3 DEF Active
  <2> QED  BY <1>3, <2>1, <2>4, <2>5, <2>6, <2>7
<1>4. CASE Unwound(t) /\ ~acc /\ kind # "native"
  <2>1. /\ owners' = owners /\ deferred' = deferred
        /\ pc'[t] = "wait" /\ current'[t] = N /\ current[t] = NoOwner
        /\ \A u \in TorchThreads : u # t => pc'[u] = pc[u] /\ current'[u] = current[u]
    BY <1>1, <1>4, UnwoundWays
  <2>2. N \notin DOMAIN owner /\ N # NoOwner  BY <1>1, <1>2
  <2>3. \A n : Listed(n)' = Listed(n) /\ Queued(n)' = Queued(n)
    BY <2>1 DEF Listed, Queued
  <2>4. \A n \in DOMAIN owner : InCall(n)' = InCall(n)
    BY <1>2, <2>1, <2>2 DEF InCall
  <2>5. \A n \in DOMAIN owner : Active(n)' = Active(n)  BY <2>3, <2>4 DEF Active
  <2>6. \A n \in DOMAIN owner : Ending(n) => Ending(n)'
    BY <1>2, <2>1 DEF Ending
  <2>7. Active(N)' /\ Ending(N)'  BY <2>1 DEF Active, InCall, Ending
  <2>8. \A u \in TorchThreads :
           \/ pc'[u] = pc[u] /\ current'[u] = current[u]
           \/ /\ u = t /\ pc[u] = "idle" /\ pc'[u] = "wait" /\ current[u] = NoOwner
              /\ current'[u] = N /\ Unwound(t)
    BY <1>1, <1>4, <2>1
  <2> QED  BY <2>1, <2>3, <2>5, <2>6, <2>7, <2>8
<1> QED  BY <1>3, <1>4 DEF AddOwner

\* Allocation keeps the types.
LEMMA AddOwnerTypes ==
    ASSUME NInv, NEW t \in TorchThreads, NEW p \in Pointers, NEW kind, NEW m,
           NEW acc \in BOOLEAN, AddOwner(t, p, kind, m, acc), NEW N, N = Number
    PROVE  TypesHold'
<1>1. /\ owner' \in Seq(OwnerRecords) /\ Len(owner') <= MaxOwners
      /\ DOMAIN owner' = DOMAIN owner \cup {N} /\ N \notin DOMAIN owner /\ N \in Nat
      /\ \A n \in DOMAIN owner : owner'[n] = owner[n]
  BY AddedOwner
<1>2. /\ graphOK' = graphOK /\ busy' = busy /\ custom' = custom /\ compiler' = compiler
      /\ transition' = transition /\ alive' = alive /\ terminal' = terminal
      /\ customFailed' = customFailed
  BY DEF AddOwner, scopeVars, proxyVars
<1>3. memory' \in [Pointers -> {"free", "native", "custom", "raw"} \cup GraphStates]
  BY DEF AddOwner, NInv, TypesHold, NativeTypeOK, GraphStates
<1>4. deferred' = deferred  BY AddedWays
<1>5. /\ DOMAIN owners' \subseteq Pointers
      /\ \A r \in DOMAIN owners' : owners'[r] \in DOMAIN owner'
      /\ owners' = [r \in DOMAIN owners' |-> owners'[r]]
  <2>1. CASE Kept(p)
    <3>1. /\ DOMAIN owners' = DOMAIN owners \cup {p} /\ owners'[p] = N
          /\ \A r \in DOMAIN owners : owners'[r] = owners[r]
          /\ owners' = [r \in DOMAIN owners' |-> owners'[r]]
      BY <2>1, KeptWays DEF AddOwner
    <3> QED  BY <1>1, <3>1 DEF NInv, TypesHold, NativeTypeOK
  <2>2. CASE Unwound(t)
    <3>1. owners' = owners  BY <2>2 DEF Unwound
    <3> QED  BY <1>1, <3>1 DEF NInv, TypesHold, NativeTypeOK
  <2> QED  BY <2>1, <2>2 DEF AddOwner
<1>6. /\ pc' \in [TorchThreads -> Places] /\ current' \in [TorchThreads -> Nat \cup {NoOwner}]
  <2>1. CASE Kept(p)
    BY <2>1, KeptWays DEF AddOwner, NInv, TypesHold
  <2>2. CASE Unwound(t)
    BY <2>2, UnwoundWays, ChangesWait DEF AddOwner, MayAllocate
  <2> QED  BY <2>1, <2>2 DEF AddOwner
<1>7. \A u \in TorchThreads :
         \/ pc'[u] = pc[u] /\ current'[u] = current[u]
         \/ pc'[u] = "wait" /\ current'[u] = N
  BY AddedWays
<1>8. N # NoOwner  BY <1>1, NativeAssumption
<1>9. \A u \in TorchThreads : /\ pc'[u] \in Owning <=> current'[u] # NoOwner
                              /\ current'[u] \in DOMAIN owner' \cup {NoOwner}
  BY <1>1, <1>7, <1>8 DEF NInv, TypesHold, NativeTypeOK, Owning
<1>10. \A u \in TorchThreads : \A i \in DOMAIN deferred[u] :
           /\ deferred[u][i] \in DOMAIN owner'
           /\ owner'[deferred[u][i]].kind = "compiler" /\ owner'[deferred[u][i]].creator = u
  BY <1>1 DEF NInv, TypesHold, NativeTypeOK
<1>11. NativeTypeOK'
  BY <1>1, <1>2, <1>3, <1>4, <1>5, <1>9, <1>10 DEF NInv, TypesHold, NativeTypeOK
<1> QED
  BY <1>2, <1>4, <1>5, <1>6, <1>9, <1>11 DEF NInv, TypesHold

\* Its pointer was free, so no other active owner has it.
LEMMA AddOwnerWays ==
    ASSUME NInv, NEW t \in TorchThreads, NEW p \in Pointers, NEW kind, NEW m,
           NEW acc \in BOOLEAN, AddOwner(t, p, kind, m, acc), NEW N, N = Number
    PROVE  WaysAreApart' /\ PointersAreApart'
<1>1. /\ DOMAIN owner' = DOMAIN owner \cup {N} /\ N \notin DOMAIN owner
      /\ owner'[N] = NewOwner(kind, p, t, acc) /\ \A n \in DOMAIN owner : owner'[n] = owner[n]
  BY AddedOwner
<1>2. owner'[N].ptr = p  BY <1>1 DEF NewOwner
<1>3. p \notin DOMAIN owners /\ \A n \in DOMAIN owner : Active(n) => owner[n].ptr # p
  BY FreeIsNotOwned DEF AddOwner
<1>4. /\ deferred' = deferred
      /\ \A n \in DOMAIN owner : Active(n)' = Active(n)
      /\ \A n \in DOMAIN owner : Listed(n)' = Listed(n)
      /\ \A u \in TorchThreads :
            \/ pc'[u] = pc[u] /\ current'[u] = current[u]
            \/ /\ u = t /\ pc[u] = "idle" /\ current'[u] = N /\ Unwound(t)
  BY AddedWays
<1>5. /\ ~Listed(N) /\ ~Queued(N) /\ \A u \in TorchThreads : current[u] # N
  BY <1>1, NumberIsNew
<1>6. PointersAreApart'
  BY <1>1, <1>2, <1>3, <1>4 DEF NInv, PointersAreApart
<1>7. (\A r \in DOMAIN owners : owner[owners[r]].ptr = r)'
  <2>1. \A r \in DOMAIN owners : owners[r] \in DOMAIN owner /\ owner[owners[r]].ptr = r
    BY DEF NInv, TypesHold, NativeTypeOK, WaysAreApart
  <2>2. CASE Kept(p)
    <3>1. /\ DOMAIN owners' = DOMAIN owners \cup {p} /\ owners'[p] = N
          /\ \A r \in DOMAIN owners : owners'[r] = owners[r]
      BY <2>2, KeptWays DEF AddOwner
    <3> QED  BY <1>1, <1>2, <2>1, <3>1
  <2>3. CASE Unwound(t)
    <3>1. owners' = owners  BY <2>3 DEF Unwound
    <3> QED  BY <1>1, <2>1, <3>1
  <2> QED  BY <2>2, <2>3 DEF AddOwner
<1>8. (\A u \in TorchThreads, r \in DOMAIN owners : owners[r] # current[u])'
  <2>1. CASE Kept(p)
    <3>1. /\ DOMAIN owners' = DOMAIN owners \cup {p} /\ owners'[p] = N
          /\ \A r \in DOMAIN owners : owners'[r] = owners[r]
          /\ current' = current
      BY <2>1, KeptWays DEF AddOwner
    <3> QED  BY <1>5, <3>1 DEF NInv, WaysAreApart
  <2>2. CASE Unwound(t)
    <3>1. owners' = owners  BY <2>2 DEF Unwound
    <3>2. \A r \in DOMAIN owners : owners[r] # N  BY <1>5 DEF Listed
    <3> QED  BY <1>4, <3>1, <3>2 DEF NInv, WaysAreApart
  <2> QED  BY <2>1, <2>2 DEF AddOwner
<1>9. (\A u, v \in TorchThreads : current[u] = current[v] /\ current[u] # NoOwner => u = v)'
  BY <1>4, <1>5 DEF NInv, WaysAreApart
<1>10. ASSUME NEW u \in TorchThreads, NEW i \in DOMAIN deferred[u]
      PROVE  /\ ~Listed(deferred[u][i])'
             /\ \A v \in TorchThreads : current'[v] = deferred'[u][i] => pc'[v] = "deferred"
             /\ \A j \in DOMAIN deferred[u] : deferred[u][i] = deferred[u][j] => i = j
  <2>1. Queued(deferred[u][i])  BY DEF Queued
  <2>2. deferred[u][i] \in DOMAIN owner /\ deferred[u][i] # N
    BY <1>5, <2>1, NamesAreOwners DEF NInv
  <2> QED  BY <1>4, <2>2 DEF NInv, WaysAreApart
<1> QED  BY <1>4, <1>6, <1>7, <1>8, <1>9, <1>10 DEF WaysAreApart

\* Allocation keeps the invariant.
LEMMA AddOwnerKeeps ==
    ASSUME NInv, NEW t \in TorchThreads, NEW p \in Pointers, NEW kind, NEW m,
           NEW acc \in BOOLEAN, AddOwner(t, p, kind, m, acc)
    PROVE  NInv'
<1>1. PICK N : N = Number  OBVIOUS
<1>2. /\ DOMAIN owner' = DOMAIN owner \cup {N} /\ N \notin DOMAIN owner
      /\ owner'[N] = NewOwner(kind, p, t, acc) /\ \A n \in DOMAIN owner : owner'[n] = owner[n]
  BY <1>1, AddedOwner
<1>3. /\ owner'[N].ptr = p /\ owner'[N].kind = kind /\ owner'[N].live = acc
      /\ owner'[N].fenced = FALSE
  BY <1>2 DEF NewOwner
<1>4. /\ Active(N)' /\ (~acc /\ kind # "native" => Ending(N)')
      /\ deferred' = deferred
      /\ \A n \in DOMAIN owner : Active(n)' = Active(n)
      /\ \A n \in DOMAIN owner : Listed(n)' = Listed(n)
      /\ \A n \in DOMAIN owner : Ending(n) => Ending(n)'
      /\ \A u \in TorchThreads :
            \/ pc'[u] = pc[u] /\ current'[u] = current[u]
            \/ /\ u = t /\ pc[u] = "idle" /\ pc'[u] = "wait"
  BY <1>1, AddedWays
<1>5. /\ busy' = busy /\ custom' = custom /\ compiler' = compiler
      /\ transition' = transition /\ alive' = alive /\ terminal' = terminal
      /\ customFailed' = customFailed
  BY DEF AddOwner, scopeVars, proxyVars
<1>6. /\ m \in Usable(kind) /\ m \in {"native", "custom", "live"}
      /\ memory'[p] = m /\ \A r \in Pointers : r # p => memory'[r] = memory[r]
      /\ memory[p] = "free" /\ busy[p] = {}
  BY DEF AddOwner, Usable, NInv, TypesHold, NativeTypeOK, UnownedIsIdle
<1>7. \A n \in DOMAIN owner : Active(n) => owner[n].ptr # p /\ owner[n].ptr \in Pointers
  BY FreeIsNotOwned, NamesAreOwners DEF AddOwner, NInv, OwnerRecords
<1>8. OwnersKnow'
  <2>1. ASSUME NEW n \in DOMAIN owner, Active(n) PROVE Knows(n)'
    BY <1>2, <1>4, <1>5, <1>6, <1>7, <2>1 DEF NInv, OwnersKnow, Knows, WaitFor
  <2>2. Knows(N)'
    BY <1>3, <1>4, <1>5, <1>6 DEF Knows
  <2> QED  BY <1>2, <1>4, <2>1, <2>2 DEF OwnersKnow
<1>9. CallsStand'
  <2> SUFFICES ASSUME NEW u \in TorchThreads, pc'[u] \in {"fence", "hand", "deferred", "destroy"}
               PROVE  /\ pc'[u] \in {"hand", "destroy"} => busy'[owner'[current'[u]].ptr] = {}
                      /\ pc'[u] \in {"fence", "hand", "deferred"} =>
                             owner'[current'[u]].kind = "compiler" /\ owner'[current'[u]].live
    BY DEF CallsStand, Mine
  <2>1. pc'[u] = pc[u] /\ current'[u] = current[u]  BY <1>4
  <2>2. current[u] \in DOMAIN owner  BY <2>1, NamesAreOwners DEF NInv, Owning
  <2> QED  BY <1>2, <1>5, <2>1, <2>2 DEF NInv, CallsStand, Mine
<1>10. UnownedIsIdle'  BY <1>5, <1>6 DEF NInv, UnownedIsIdle
<1>11. UsedIsOwned'
  <2> SUFFICES ASSUME NEW r \in Pointers,
                      memory'[r] \in {"native", "custom", "live", "candidate", "rogue"},
                      ~terminal', ~customFailed'
               PROVE  \E n \in DOMAIN owner' : owner'[n].ptr = r /\ Active(n)'
    BY DEF UsedIsOwned
  <2>1. CASE r = p  BY <1>2, <1>3, <1>4, <2>1
  <2>2. CASE r # p
    <3>1. \E n \in DOMAIN owner : owner[n].ptr = r /\ Active(n)
      BY <1>5, <1>6, <2>2 DEF NInv, UsedIsOwned
    <3> QED  BY <1>2, <1>4, <3>1
  <2> QED  BY <2>1, <2>2
<1>12. StrandedIsNoticed'
  <2> SUFFICES ASSUME NEW v \in TorchThreads, ~alive'[v], deferred'[v] # <<>>
               PROVE  \/ terminal' \/ pc'[v] = "exit"
                      \/ \E u \in TorchThreads : pc'[u] = "deferred" /\ Mine(u)'.creator = v
    BY DEF StrandedIsNoticed
  <2>1. ~alive[v] /\ deferred[v] # <<>>  BY <1>4, <1>5
  <2>2. CASE terminal  BY <1>5, <2>2
  <2>3. CASE pc[v] = "exit"  BY <1>4, <2>3
  <2>4. ASSUME NEW u \in TorchThreads, pc[u] = "deferred", Mine(u).creator = v
        PROVE  pc'[u] = "deferred" /\ Mine(u)'.creator = v
    <3>1. pc'[u] = pc[u] /\ current'[u] = current[u]  BY <1>4, <2>4
    <3>2. current[u] \in DOMAIN owner  BY <2>4, NamesAreOwners DEF NInv, Owning
    <3> QED  BY <1>2, <2>4, <3>1, <3>2 DEF Mine
  <2>5. \/ terminal \/ pc[v] = "exit"
        \/ \E u \in TorchThreads : pc[u] = "deferred" /\ Mine(u).creator = v
    BY <2>1 DEF NInv, StrandedIsNoticed
  <2> QED  BY <2>2, <2>3, <2>4, <2>5
<1>13. TransitionIsClear'
  <2>1. ~Changing /\ \A u \in TorchThreads : pc[u] # "locked"
    BY ChangesWait DEF AddOwner, MayAllocate
  <2>2. ~Changing'  BY <1>4, <1>5, <2>1 DEF Changing
  <2> QED  BY <2>2 DEF TransitionIsClear
<1>14. TypesHold' /\ WaysAreApart' /\ PointersAreApart'
  BY <1>1, AddOwnerTypes, AddOwnerWays
<1> QED
  BY <1>8, <1>9, <1>10, <1>11, <1>12, <1>13, <1>14 DEF NInv

\* The three kinds of allocation.
LEMMA AllocKeeps ==
    ASSUME NInv, NEW t \in TorchThreads, NEW p \in Pointers,
           AllocCompiler(t, p) \/ AllocCustom(t, p) \/ AllocNative(t, p)
    PROVE  NInv'
<1>1. \A kind : Owned(t, kind, p) =>
         /\ owner' = Append(owner, NewOwner(kind, p, t, kind # "native")) /\ Kept(p)
  BY DEF Owned, Kept
<1>2. \A kind : NotOwned(t, kind, p) =>
         /\ owner' = Append(owner, NewOwner(kind, p, t, FALSE)) /\ Unwound(t)
  BY DEF NotOwned, Unwound
<1>3. CASE AllocCompiler(t, p)
  <2>1. \E acc \in BOOLEAN : AddOwner(t, p, "compiler", "live", acc)
    <3>1. CASE Owned(t, "compiler", p)
      <4>1. AddOwner(t, p, "compiler", "live", "compiler" # "native")
        BY <1>1, <1>3, <3>1 DEF AllocCompiler, AddOwner
      <4> QED  BY <4>1
    <3>2. CASE NotOwned(t, "compiler", p)
      <4>1. AddOwner(t, p, "compiler", "live", FALSE)
        BY <1>2, <1>3, <3>2 DEF AllocCompiler, AddOwner
      <4> QED  BY <4>1
    <3> QED  BY <1>3, <3>1, <3>2 DEF AllocCompiler
  <2> QED  BY <2>1, AddOwnerKeeps
<1>4. CASE AllocCustom(t, p)
  <2>1. \E acc \in BOOLEAN : AddOwner(t, p, "custom", "custom", acc)
    <3>1. CASE Owned(t, "custom", p)
      <4>1. AddOwner(t, p, "custom", "custom", "custom" # "native")
        BY <1>1, <1>4, <3>1 DEF AllocCustom, AddOwner
      <4> QED  BY <4>1
    <3>2. CASE NotOwned(t, "custom", p)
      <4>1. AddOwner(t, p, "custom", "custom", FALSE)
        BY <1>2, <1>4, <3>2 DEF AllocCustom, AddOwner
      <4> QED  BY <4>1
    <3> QED  BY <1>4, <3>1, <3>2 DEF AllocCustom
  <2> QED  BY <2>1, AddOwnerKeeps
<1>5. CASE AllocNative(t, p)
  <2>1. AddOwner(t, p, "native", "native", FALSE)
    BY <1>1, <1>5 DEF AllocNative, AddOwner
  <2> QED  BY <2>1, AddOwnerKeeps
<1> QED  BY <1>3, <1>4, <1>5

-----------------------------------------------------------------------------
(* Deletion: an owner goes from one way to another, or is destroyed.        *)

\* Pointers stay apart if no owner becomes active.
LEMMA PointersStay ==
    ASSUME NInv, OwnersStay, \A n \in DOMAIN owner : Active(n)' => Active(n)
    PROVE  PointersAreApart'
  BY DEF NInv, PointersAreApart, OwnersStay

\* A deletion does not disturb a transition.
LEMMA ClearFollows ==
    ASSUME NInv, OwnersStay, \A n \in DOMAIN owner : owner'[n].live => owner[n].live,
           \A n \in DOMAIN owner : Active(n)' => Active(n),
           UNCHANGED scopeVars,
           \A u \in TorchThreads : pc'[u] = "locked" => pc[u] = "locked",
           \A p \in Pointers : memory'[p] = "raw" => memory[p] = "raw",
           Changing => terminal' = terminal /\ customFailed' = customFailed
    PROVE  TransitionIsClear'
<1>1. custom' = custom /\ compiler' = compiler /\ transition' = transition  BY DEF scopeVars
<1>2. Changing' => Changing  BY <1>1 DEF Changing
<1> QED  BY <1>1, <1>2 DEF NInv, TransitionIsClear, OwnersStay

\* Thread t goes from place to place in a deletion.
Moves(t, x, c) ==
    /\ pc' = [pc EXCEPT ![t] = x] /\ current' = [current EXCEPT ![t] = c]
    /\ x \in Places /\ c \in DOMAIN owner \cup {NoOwner}
    /\ x \in Owning <=> c # NoOwner

\* Only its own place changes.
LEMMA MovesAlone ==
    ASSUME NInv, NEW t \in TorchThreads, NEW x, NEW c, Moves(t, x, c)
    PROVE  /\ pc' \in [TorchThreads -> Places] /\ pc'[t] = x
           /\ current' \in [TorchThreads -> Nat \cup {NoOwner}] /\ current'[t] = c
           /\ \A u \in TorchThreads : u # t => pc'[u] = pc[u] /\ current'[u] = current[u]
           /\ \A u \in TorchThreads : /\ pc'[u] \in Owning <=> current'[u] # NoOwner
                                      /\ current'[u] \in DOMAIN owner \cup {NoOwner}
<1>1. /\ pc \in [TorchThreads -> Places] /\ current \in [TorchThreads -> Nat \cup {NoOwner}]
      /\ \A u \in TorchThreads : /\ pc[u] \in Owning <=> current[u] # NoOwner
                                 /\ current[u] \in DOMAIN owner \cup {NoOwner}
  BY DEF NInv, TypesHold, NativeTypeOK
<1>2. DOMAIN owner \subseteq Nat  BY NamesAreOwners DEF NInv
<1> QED  BY <1>1, <1>2 DEF Moves

\* A move keeps the types.
LEMMA MoveTypes ==
    ASSUME NInv, OwnersStay, owner' \in Seq(OwnerRecords), Len(owner') = Len(owner),
           NEW t \in TorchThreads, NEW x, NEW c, Moves(t, x, c),
           memory' \in [Pointers -> {"free", "native", "custom", "raw"} \cup GraphStates],
           graphOK' \in [Creators -> BOOLEAN], busy' = busy,
           terminal' \in BOOLEAN, customFailed' \in BOOLEAN, UNCHANGED <<scopeVars, alive>>,
           owners' = owners \/ \E p \in DOMAIN owners : owners' = Drop(owners, p),
           deferred' \in [TorchThreads -> Seq(Nat)],
           \A u \in TorchThreads : \A i \in DOMAIN deferred'[u] :
               /\ deferred'[u][i] \in DOMAIN owner
               /\ owner[deferred'[u][i]].kind = "compiler"
               /\ owner[deferred'[u][i]].creator = u
    PROVE  TypesHold'
<1>1. /\ pc' \in [TorchThreads -> Places] /\ current' \in [TorchThreads -> Nat \cup {NoOwner}]
      /\ \A u \in TorchThreads : /\ pc'[u] \in Owning <=> current'[u] # NoOwner
                                 /\ current'[u] \in DOMAIN owner \cup {NoOwner}
  BY MovesAlone
<1>2. /\ DOMAIN owners' \subseteq Pointers
      /\ \A p \in DOMAIN owners' : owners'[p] \in DOMAIN owner
      /\ owners' = [p \in DOMAIN owners' |-> owners'[p]]
  <2>1. /\ DOMAIN owners \subseteq Pointers
        /\ \A p \in DOMAIN owners : owners[p] \in DOMAIN owner
        /\ owners = [p \in DOMAIN owners |-> owners[p]]
    BY DEF NInv, TypesHold, NativeTypeOK
  <2>2. CASE owners' = owners  BY <2>1, <2>2
  <2>3. ASSUME NEW p \in DOMAIN owners, owners' = Drop(owners, p)
        PROVE  /\ DOMAIN owners' \subseteq Pointers
               /\ \A r \in DOMAIN owners' : owners'[r] \in DOMAIN owner
               /\ owners' = [r \in DOMAIN owners' |-> owners'[r]]
    BY <2>1, <2>3 DEF Drop
  <2> QED  BY <2>2, <2>3
<1>3. /\ custom' = custom /\ compiler' = compiler /\ transition' = transition /\ alive' = alive
  BY DEF scopeVars
<1>4. \A u \in TorchThreads : \A i \in DOMAIN deferred'[u] :
               /\ deferred'[u][i] \in DOMAIN owner'
               /\ owner'[deferred'[u][i]].kind = "compiler"
               /\ owner'[deferred'[u][i]].creator = u
  <2>1. /\ DOMAIN owner' = DOMAIN owner
        /\ \A n \in DOMAIN owner :
              owner'[n].kind = owner[n].kind /\ owner'[n].creator = owner[n].creator
    BY DEF OwnersStay
  <2> SUFFICES ASSUME NEW u \in TorchThreads, NEW i \in DOMAIN deferred'[u]
               PROVE  /\ deferred'[u][i] \in DOMAIN owner'
                      /\ owner'[deferred'[u][i]].kind = "compiler"
                      /\ owner'[deferred'[u][i]].creator = u
    OBVIOUS
  <2>2. /\ deferred'[u][i] \in DOMAIN owner
        /\ owner[deferred'[u][i]].kind = "compiler"
        /\ owner[deferred'[u][i]].creator = u
    OBVIOUS
  <2> QED  BY <2>1, <2>2
<1>5. NativeTypeOK'
  <2>1. transition \in TorchThreads \cup {NoThread} /\ Len(owner) <= MaxOwners
        /\ busy \in [Pointers -> SUBSET UseQueues]
    BY DEF NInv, TypesHold, NativeTypeOK
  <2> QED  BY <1>1, <1>2, <1>3, <1>4, <2>1 DEF NativeTypeOK, OwnersStay
<1>6. /\ custom \in [TorchThreads -> BOOLEAN] /\ compiler \in [TorchThreads -> BOOLEAN]
      /\ alive \in [TorchThreads -> BOOLEAN]
  BY DEF NInv, TypesHold
<1> QED  BY <1>1, <1>2, <1>3, <1>5, <1>6 DEF TypesHold

\* A move that is not one of a thread that defers, or exits.
LEMMA StrandedFollows ==
    ASSUME NInv, OwnersStay, NEW t \in TorchThreads, NEW x, NEW c, Moves(t, x, c),
           pc[t] \notin {"deferred", "exit"}, alive' = alive, terminal => terminal',
           \A u \in TorchThreads : ~alive[u] /\ deferred'[u] # <<>> => deferred[u] # <<>>
    PROVE  StrandedIsNoticed'
<1> SUFFICES ASSUME NEW v \in TorchThreads, ~alive[v], deferred[v] # <<>>
             PROVE  \/ terminal' \/ pc'[v] = "exit"
                    \/ \E u \in TorchThreads : pc'[u] = "deferred" /\ Mine(u)'.creator = v
  BY DEF StrandedIsNoticed
<1>1. \A u \in TorchThreads : u # t => pc'[u] = pc[u] /\ current'[u] = current[u]
  BY MovesAlone
<1>2. CASE terminal  BY <1>2
<1>3. CASE pc[v] = "exit"  BY <1>1, <1>3
<1>4. ASSUME NEW u \in TorchThreads, pc[u] = "deferred", Mine(u).creator = v
      PROVE  pc'[u] = "deferred" /\ Mine(u)'.creator = v
  <2>1. current[u] \in DOMAIN owner  BY <1>4, NamesAreOwners DEF NInv, Owning
  <2> QED  BY <1>1, <1>4, <2>1 DEF Mine, OwnersStay
<1>5. \/ terminal \/ pc[v] = "exit"
      \/ \E u \in TorchThreads : pc[u] = "deferred" /\ Mine(u).creator = v
  BY DEF NInv, StrandedIsNoticed
<1> QED  BY <1>2, <1>3, <1>4, <1>5

\* The end of an owner: either its memory is unusable from now on, or it keeps
\* it for ever and the proxy gives up.
EndOfOwner(t, counted) ==
    /\ pc[t] \in {"fence", "wait", "hand", "destroy"}
    /\ counted => Mine(t).live
    /\ Destroyed(t, counted) /\ Leave(t)
    /\ UNCHANGED <<owners, deferred, alive, busy, scopeVars>>
    /\ memory' \in [Pointers -> {"free", "native", "custom", "raw"} \cup GraphStates]
    /\ graphOK' \in [Creators -> BOOLEAN]
    /\ terminal' \in BOOLEAN /\ customFailed' \in BOOLEAN
    /\ (terminal => terminal') /\ (customFailed => customFailed')
    /\ Changing => terminal' = terminal /\ customFailed' = customFailed
    /\ \A p \in Pointers : p # Mine(t).ptr => memory'[p] = memory[p]
    /\ \/ memory' = memory /\ (terminal' \/ customFailed')
       \/ /\ memory'[Mine(t).ptr] \in {"free", "outside", "freed"}
          /\ busy[Mine(t).ptr] = {}

\* The owner that ends was in the hands of t alone.
LEMMA EndedOwner ==
    ASSUME NInv, NEW t \in TorchThreads, NEW counted \in BOOLEAN, EndOfOwner(t, counted),
           NEW n, n = current[t]
    PROVE  /\ n \in DOMAIN owner /\ Active(n) /\ ~Listed(n) /\ ~Queued(n)
           /\ owner' \in Seq(OwnerRecords) /\ Len(owner') = Len(owner) /\ OwnersStay
           /\ \A m \in DOMAIN owner : m # n => owner'[m] = owner[m]
           /\ owner'[n].live = counted
<1>1. n \in DOMAIN owner  BY NamesAreOwners DEF NInv, EndOfOwner, Owning
<1>2. Active(n)  BY DEF Active, InCall
<1>3. ~Listed(n)  BY DEF Listed, NInv, WaysAreApart
<1>4. ~Queued(n)
  <2> SUFFICES ASSUME NEW u \in TorchThreads, NEW i \in DOMAIN deferred[u], deferred[u][i] = n
               PROVE  FALSE
    BY DEF Queued
  <2>1. pc[t] = "deferred"  BY DEF NInv, WaysAreApart
  <2> QED  BY <2>1 DEF EndOfOwner
<1>5. owner \in Seq(OwnerRecords) /\ owner[n] \in OwnerRecords
  BY <1>1 DEF NInv, TypesHold, NativeTypeOK
<1>6. owner' = [owner EXCEPT ![n] = Ended(owner[n], counted)]
  <2>1. owner' = EndedAt(owner, n, counted)
    BY DEF EndOfOwner, Destroyed, EndedAt
  <2> QED  BY <1>1, <1>5, <2>1, EndedInPlace
<1> DEFINE d == Ended(owner[n], counted)
<1>7. /\ d \in OwnerRecords /\ d.kind = owner[n].kind /\ d.ptr = owner[n].ptr
      /\ d.creator = owner[n].creator /\ d.live = counted
  BY <1>5, EndedRecord
<1> HIDE DEF d
<1>8. /\ owner' \in Seq(OwnerRecords) /\ Len(owner') = Len(owner)
      /\ DOMAIN owner' = DOMAIN owner
      /\ owner'[n] = d /\ \A m \in DOMAIN owner : m # n => owner'[m] = owner[m]
  <2>1. owner' = [owner EXCEPT ![n] = d]  BY <1>6 DEF d
  <2> QED  BY <1>1, <1>5, <1>7, <2>1, OwnerChanged
<1>9. OwnersStay  BY <1>7, <1>8 DEF OwnersStay
<1> QED  BY <1>1, <1>2, <1>3, <1>4, <1>7, <1>8, <1>9

\* Nothing leads to it any more.
LEMMA EndedWays ==
    ASSUME NInv, NEW t \in TorchThreads, NEW counted \in BOOLEAN, EndOfOwner(t, counted),
           NEW n, n = current[t]
    PROVE  /\ ~Active(n)' /\ Moves(t, "idle", NoOwner)
           /\ owners' = owners /\ deferred' = deferred
           /\ \A m : Listed(m)' = Listed(m)
           /\ \A m \in DOMAIN owner : m # n => Active(m)' = Active(m)
           /\ \A m \in DOMAIN owner : m # n => (Ending(m) => Ending(m)')
<1>1. owners' = owners /\ deferred' = deferred  BY DEF EndOfOwner
<1>2. Moves(t, "idle", NoOwner)  BY DEF EndOfOwner, Leave, Moves, Places, Owning
<1>3. /\ current'[t] = NoOwner
      /\ \A u \in TorchThreads : u # t => pc'[u] = pc[u] /\ current'[u] = current[u]
  BY <1>2, MovesAlone
<1>4. \A m : Listed(m)' = Listed(m) /\ Queued(m)' = Queued(m)
  BY <1>1 DEF Listed, Queued
<1>5. n \in DOMAIN owner /\ ~Listed(n) /\ ~Queued(n) /\ NoOwner \notin DOMAIN owner
  BY EndedOwner, NamesAreOwners DEF NInv
<1>6. ~InCall(n)'
  <2> SUFFICES ASSUME NEW u \in TorchThreads, current'[u] = n PROVE FALSE
    BY DEF InCall
  <2>1. u # t /\ current[u] = current[t] /\ current[t] # NoOwner  BY <1>3, <1>5
  <2> QED  BY <2>1 DEF NInv, WaysAreApart
<1>7. \A m \in DOMAIN owner : m # n => InCall(m)' = InCall(m)
  BY <1>3, <1>5 DEF InCall
<1>8. \A m \in DOMAIN owner : m # n => (Ending(m) => Ending(m)')
  BY <1>3 DEF Ending
<1>9. ~Active(n)'  BY <1>4, <1>5, <1>6 DEF Active
<1>10. \A m \in DOMAIN owner : m # n => Active(m)' = Active(m)
  BY <1>4, <1>7 DEF Active
<1> QED  BY <1>1, <1>2, <1>4, <1>8, <1>9, <1>10

\* The end of an owner keeps the invariant.
LEMMA EndOfOwnerKeeps ==
    ASSUME NInv, NEW t \in TorchThreads, NEW counted \in BOOLEAN, EndOfOwner(t, counted)
    PROVE  NInv'
<1>1. PICK n : n = current[t]  OBVIOUS
<1>2. /\ n \in DOMAIN owner /\ Active(n)
      /\ owner' \in Seq(OwnerRecords) /\ Len(owner') = Len(owner) /\ OwnersStay
      /\ \A m \in DOMAIN owner : m # n => owner'[m] = owner[m]
      /\ owner'[n].live = counted
  BY <1>1, EndedOwner
<1>3. /\ ~Active(n)' /\ Moves(t, "idle", NoOwner)
      /\ owners' = owners /\ deferred' = deferred
      /\ \A m : Listed(m)' = Listed(m)
      /\ \A m \in DOMAIN owner : m # n => Active(m)' = Active(m)
      /\ \A m \in DOMAIN owner : m # n => (Ending(m) => Ending(m)')
  BY <1>1, EndedWays
<1>4. /\ busy' = busy /\ alive' = alive /\ UNCHANGED scopeVars
      /\ \A p \in Pointers : p # owner[n].ptr => memory'[p] = memory[p]
      /\ (terminal => terminal') /\ (customFailed => customFailed')
      /\ \/ memory' = memory /\ (terminal' \/ customFailed')
         \/ memory'[owner[n].ptr] \in {"free", "outside", "freed"} /\ busy[owner[n].ptr] = {}
      /\ terminal' \in BOOLEAN /\ customFailed' \in BOOLEAN
  BY <1>1 DEF EndOfOwner, Mine
<1>5. \A m \in DOMAIN owner : Active(m)' => m # n /\ Active(m)  BY <1>3
<1>6. \A m \in DOMAIN owner : Active(m) /\ m # n =>
          owner[m].ptr # owner[n].ptr /\ owner[m].ptr \in Pointers
  BY <1>2, NamesAreOwners DEF NInv, PointersAreApart, OwnerRecords
<1>7. TypesHold'
  <2>1. /\ deferred \in [TorchThreads -> Seq(Nat)]
        /\ \A u \in TorchThreads : \A i \in DOMAIN deferred[u] :
               /\ deferred[u][i] \in DOMAIN owner
               /\ owner[deferred[u][i]].kind = "compiler"
               /\ owner[deferred[u][i]].creator = u
    BY DEF NInv, TypesHold, NativeTypeOK
  <2>2. /\ memory' \in [Pointers -> {"free", "native", "custom", "raw"} \cup GraphStates]
        /\ graphOK' \in [Creators -> BOOLEAN]
    BY DEF EndOfOwner
  <2> QED  BY <1>2, <1>3, <1>4, <2>1, <2>2, MoveTypes
<1>8. PointersAreApart'  BY <1>2, <1>5, PointersStay
<1>9. WaysAreApart'
  <2>1. /\ current'[t] = NoOwner /\ pc'[t] = "idle"
        /\ \A u \in TorchThreads : u # t => pc'[u] = pc[u] /\ current'[u] = current[u]
    BY <1>3, MovesAlone
  <2>2. \A p \in DOMAIN owners : owners[p] \in DOMAIN owner /\ owners[p] # NoOwner
    BY NamesAreOwners DEF NInv, TypesHold, NativeTypeOK
  <2>3. (\A p \in DOMAIN owners : owner[owners[p]].ptr = p)'
    BY <1>2, <1>3, <2>2 DEF NInv, WaysAreApart, OwnersStay
  <2>4. (\A u \in TorchThreads, p \in DOMAIN owners : owners[p] # current[u])'
    BY <1>3, <2>1, <2>2 DEF NInv, WaysAreApart
  <2>5. (\A u, v \in TorchThreads : current[u] = current[v] /\ current[u] # NoOwner => u = v)'
    BY <2>1 DEF NInv, WaysAreApart
  <2>6. ASSUME NEW u \in TorchThreads, NEW i \in DOMAIN deferred[u]
        PROVE  /\ ~Listed(deferred[u][i])'
               /\ \A v \in TorchThreads : current'[v] = deferred'[u][i] => pc'[v] = "deferred"
               /\ \A j \in DOMAIN deferred[u] : deferred[u][i] = deferred[u][j] => i = j
    <3>1. deferred[u][i] # NoOwner
      BY NamesAreOwners DEF NInv, TypesHold, NativeTypeOK
    <3> QED  BY <1>3, <2>1, <3>1 DEF NInv, WaysAreApart
  <2> QED  BY <1>3, <2>3, <2>4, <2>5, <2>6 DEF WaysAreApart
<1>10. OwnersKnow'
  <2> SUFFICES ASSUME NEW m \in DOMAIN owner, Active(m)' PROVE Knows(m)'
    BY <1>2 DEF OwnersKnow, OwnersStay
  <2>1. m # n /\ Active(m) /\ Knows(m)  BY <1>5 DEF NInv, OwnersKnow
  <2>2. owner'[m] = owner[m] /\ memory'[owner[m].ptr] = memory[owner[m].ptr]
    BY <1>2, <1>4, <1>6, <2>1
  <2> QED  BY <1>3, <1>4, <2>1, <2>2 DEF Knows, WaitFor
<1>11. CallsStand'
  <2> SUFFICES ASSUME NEW u \in TorchThreads, pc'[u] \in {"fence", "hand", "deferred", "destroy"}
               PROVE  /\ pc'[u] \in {"hand", "destroy"} => busy'[owner'[current'[u]].ptr] = {}
                      /\ pc'[u] \in {"fence", "hand", "deferred"} =>
                             owner'[current'[u]].kind = "compiler" /\ owner'[current'[u]].live
    BY DEF CallsStand, Mine
  <2>1. u # t /\ pc'[u] = pc[u] /\ current'[u] = current[u]  BY <1>3, MovesAlone
  <2>2. current[u] \in DOMAIN owner  BY <2>1, NamesAreOwners DEF NInv, Owning
  <2>3. current[u] # n
    BY <1>1, <2>1, <2>2, NamesAreOwners DEF NInv, WaysAreApart
  <2>4. owner'[current[u]] = owner[current[u]]  BY <1>2, <2>2, <2>3
  <2> QED  BY <1>4, <2>1, <2>4 DEF NInv, CallsStand, Mine
<1>12. UnownedIsIdle'
  BY <1>4 DEF NInv, UnownedIsIdle
<1>13. UsedIsOwned'
  <2> SUFFICES ASSUME NEW p \in Pointers,
                      memory'[p] \in {"native", "custom", "live", "candidate", "rogue"},
                      ~terminal', ~customFailed'
               PROVE  \E m \in DOMAIN owner' : owner'[m].ptr = p /\ Active(m)'
    BY DEF UsedIsOwned
  <2>1. p # owner[n].ptr /\ memory'[p] = memory[p]  BY <1>4
  <2>2. PICK m \in DOMAIN owner : owner[m].ptr = p /\ Active(m)
    BY <1>4, <2>1 DEF NInv, UsedIsOwned
  <2>3. m # n  BY <2>1, <2>2
  <2> QED  BY <1>2, <1>3, <2>2, <2>3 DEF OwnersStay
<1>14. StrandedIsNoticed'
  <2>1. pc[t] \notin {"deferred", "exit"}  BY DEF EndOfOwner
  <2> QED  BY <1>2, <1>3, <1>4, <2>1, StrandedFollows
<1>15. TransitionIsClear'
  <2>1. \A m \in DOMAIN owner : owner'[m].live => owner[m].live
    BY <1>1, <1>2 DEF EndOfOwner, Mine
  <2>2. \A u \in TorchThreads : pc'[u] = "locked" => pc[u] = "locked"
    BY <1>3, MovesAlone
  <2>3. \A p \in Pointers : memory'[p] = "raw" => memory[p] = "raw"
    BY <1>4
  <2>4. Changing => terminal' = terminal /\ customFailed' = customFailed
    BY DEF EndOfOwner
  <2> QED  BY <1>2, <1>4, <1>5, <2>1, <2>2, <2>3, <2>4, ClearFollows
<1> QED
  BY <1>7, <1>8, <1>9, <1>10, <1>11, <1>12, <1>13, <1>14, <1>15 DEF NInv

\* The owner a call is about to free knows its memory, and nothing of it is busy.
LEMMA CallKnows ==
    ASSUME NInv, NEW t \in TorchThreads, pc[t] \in Owning
    PROVE  /\ current[t] \in DOMAIN owner /\ Active(current[t]) /\ Knows(current[t])
           /\ Mine(t) \in OwnerRecords
           /\ pc[t] \in {"hand", "destroy"} => busy[Mine(t).ptr] = {}
           /\ Mine(t).kind # "native" => ~Changing
<1>1. current[t] \in DOMAIN owner /\ Mine(t) \in OwnerRecords
  BY NamesAreOwners DEF NInv, Mine
<1>2. Active(current[t])  BY DEF Active, InCall
<1>3. Knows(current[t])  BY <1>1, <1>2 DEF NInv, OwnersKnow
<1>4. pc[t] \in {"hand", "destroy"} => busy[Mine(t).ptr] = {}  BY DEF NInv, CallsStand
<1>5. Mine(t).kind # "native" => ~Changing
  BY <1>1, <1>2 DEF NInv, TransitionIsClear, Mine
<1> QED  BY <1>1, <1>2, <1>3, <1>4, <1>5

\* What cannot be freed is kept, and the process does not go on as if it
\* were.
LEMMA FailuresKeep ==
    ASSUME NInv, NEW t \in TorchThreads, WaitFails(t) \/ ReleaseFails(t)
    PROVE  NInv'
<1>1. /\ pc[t] \in {"fence", "wait", "hand", "destroy"} /\ Mine(t).kind # "native"
      /\ Failed(t) /\ memory' = memory /\ graphOK' = graphOK
  BY DEF WaitFails, ReleaseFails
<1>2. pc[t] \in Owning  BY <1>1 DEF Owning
<1>3. Mine(t) \in OwnerRecords /\ ~Changing  BY <1>1, <1>2, CallKnows
<1>4. Mine(t).live \in BOOLEAN /\ Mine(t).kind \in {"custom", "compiler"}
  BY <1>1, <1>3 DEF OwnerRecords
<1>5. /\ terminal' = (terminal \/ Mine(t).kind = "compiler")
      /\ customFailed' = (customFailed \/ Mine(t).kind = "custom")
      /\ Destroyed(t, Mine(t).live) /\ Leave(t)
      /\ UNCHANGED <<owners, deferred, alive, busy, scopeVars>>
  BY <1>1 DEF Failed
<1>6. /\ terminal \in BOOLEAN /\ customFailed \in BOOLEAN
      /\ memory \in [Pointers -> {"free", "native", "custom", "raw"} \cup GraphStates]
      /\ graphOK \in [Creators -> BOOLEAN]
  BY DEF NInv, TypesHold, NativeTypeOK
<1>7. EndOfOwner(t, Mine(t).live)
  BY <1>1, <1>3, <1>4, <1>5, <1>6 DEF EndOfOwner
<1> QED  BY <1>4, <1>7, EndOfOwnerKeeps

\* The memory goes back, or stays with the graph until it is handed over.
LEMMA ReleasesKeep ==
    ASSUME NInv, NEW t \in TorchThreads,
           Release(t) \/ ReleaseRogue(t) \/ ReleaseOwned(t)
    PROVE  NInv'
<1>1. /\ pc[t] \in {"hand", "destroy"} /\ GivenBack(t)
  BY DEF Release, ReleaseRogue, ReleaseOwned
<1>2. pc[t] \in Owning  BY <1>1 DEF Owning
<1>3. /\ current[t] \in DOMAIN owner /\ Knows(current[t]) /\ Mine(t) \in OwnerRecords
      /\ busy[Mine(t).ptr] = {}
  BY <1>1, <1>2, CallKnows
<1>4. /\ memory \in [Pointers -> {"free", "native", "custom", "raw"} \cup GraphStates]
      /\ graphOK \in [Creators -> BOOLEAN] /\ Mine(t).ptr \in Pointers
  BY <1>3 DEF NInv, TypesHold, NativeTypeOK, OwnerRecords
<1>5. \E v \in {"free", "outside", "freed"} : memory' = [memory EXCEPT ![Mine(t).ptr] = v]
  <2>1. CASE Release(t)  BY <2>1 DEF Release
  <2>2. CASE ReleaseRogue(t)
    <3>1. memory' = [memory EXCEPT ![Mine(t).ptr] =
                        IF memory[Mine(t).ptr] = "rogue" THEN "free" ELSE "freed"]
      BY <2>2 DEF ReleaseRogue, FreeRogue
    <3> QED  BY <3>1
  <2>3. CASE ReleaseOwned(t)  BY <2>3 DEF ReleaseOwned
  <2> QED  BY <2>1, <2>2, <2>3
<1>6. graphOK' = graphOK \/ graphOK' = [graphOK EXCEPT ![t] = FALSE]
  BY DEF Release, ReleaseRogue, ReleaseOwned
<1>7. /\ Destroyed(t, FALSE) /\ Leave(t)
      /\ UNCHANGED <<owners, deferred, alive, busy, scopeVars>>
      /\ terminal' = terminal /\ customFailed' = customFailed
  BY <1>1 DEF GivenBack, proxyVars
<1>8. terminal \in BOOLEAN /\ customFailed \in BOOLEAN  BY DEF NInv, TypesHold
<1>9. /\ memory' \in [Pointers -> {"free", "native", "custom", "raw"} \cup GraphStates]
      /\ memory'[Mine(t).ptr] \in {"free", "outside", "freed"}
      /\ \A p \in Pointers : p # Mine(t).ptr => memory'[p] = memory[p]
  BY <1>4, <1>5 DEF GraphStates
<1>10. graphOK' \in [Creators -> BOOLEAN]  BY <1>4, <1>6
<1>11. EndOfOwner(t, FALSE)
  BY <1>1, <1>3, <1>7, <1>8, <1>9, <1>10 DEF EndOfOwner
<1> QED  BY <1>11, EndOfOwnerKeeps

-----------------------------------------------------------------------------

\* A thread goes on with an owner, which stays active unless the proxy has
\* given up.
MoveStep(t, x, c) ==
    /\ OwnersStay /\ owner' \in Seq(OwnerRecords) /\ Len(owner') = Len(owner)
    /\ \A n \in DOMAIN owner : owner'[n].live = owner[n].live
    /\ Moves(t, x, c) /\ x # "locked"
    /\ UNCHANGED <<graphVars, scopeVars, alive, customFailed>>
    /\ terminal' \in BOOLEAN /\ (terminal => terminal') /\ (Changing => terminal' = terminal)
    /\ owners' = owners \/ \E p \in DOMAIN owners : owners' = Drop(owners, p)
    /\ deferred' \in [TorchThreads -> Seq(Nat)]
    /\ \A u \in TorchThreads : \A i \in DOMAIN deferred'[u] :
           /\ deferred'[u][i] \in DOMAIN owner
           /\ owner[deferred'[u][i]].kind = "compiler"
           /\ owner[deferred'[u][i]].creator = u
    /\ x \in {"hand", "destroy"} => busy[owner[c].ptr] = {}
    /\ x \in {"fence", "hand", "deferred"} => owner[c].kind = "compiler" /\ owner[c].live
    /\ \A n \in DOMAIN owner :
           /\ Active(n)' => Active(n)
           /\ Active(n) => Active(n)' \/ terminal'

\* It keeps all but what owners know, the ways to them, and deferrals.
LEMMA MoveOwnerKeeps ==
    ASSUME NInv, NEW t \in TorchThreads, NEW x, NEW c, MoveStep(t, x, c)
    PROVE  /\ TypesHold' /\ PointersAreApart' /\ CallsStand' /\ UnownedIsIdle'
           /\ UsedIsOwned' /\ TransitionIsClear'
<1>1. /\ memory' = memory /\ busy' = busy /\ graphOK' = graphOK
      /\ alive' = alive /\ customFailed' = customFailed /\ UNCHANGED scopeVars
  BY DEF MoveStep, graphVars
<1>2. OwnersStay /\ Moves(t, x, c)  BY DEF MoveStep
<1>3. /\ pc'[t] = x /\ current'[t] = c
      /\ \A u \in TorchThreads : u # t => pc'[u] = pc[u] /\ current'[u] = current[u]
  BY <1>2, MovesAlone
<1>4. TypesHold'
  <2>1. /\ memory \in [Pointers -> {"free", "native", "custom", "raw"} \cup GraphStates]
        /\ graphOK \in [Creators -> BOOLEAN] /\ customFailed \in BOOLEAN
    BY DEF NInv, TypesHold, NativeTypeOK
  <2> QED  BY <1>1, <1>2, <2>1, MoveTypes DEF MoveStep
<1>5. PointersAreApart'  BY <1>2, PointersStay DEF MoveStep
<1>6. CallsStand'
  <2> SUFFICES ASSUME NEW u \in TorchThreads, pc'[u] \in {"fence", "hand", "deferred", "destroy"}
               PROVE  /\ pc'[u] \in {"hand", "destroy"} => busy'[owner'[current'[u]].ptr] = {}
                      /\ pc'[u] \in {"fence", "hand", "deferred"} =>
                             owner'[current'[u]].kind = "compiler" /\ owner'[current'[u]].live
    BY DEF CallsStand, Mine
  <2>1. CASE u = t
    <3>1. c \in DOMAIN owner  BY <1>2, <1>3, <2>1 DEF Moves, Owning
    <3> QED  BY <1>1, <1>3, <2>1, <3>1 DEF MoveStep, OwnersStay
  <2>2. CASE u # t
    <3>1. pc'[u] = pc[u] /\ current'[u] = current[u]  BY <1>3, <2>2
    <3>2. current[u] \in DOMAIN owner  BY <3>1, NamesAreOwners DEF NInv, Owning
    <3>3. /\ owner'[current[u]].ptr = owner[current[u]].ptr
          /\ owner'[current[u]].kind = owner[current[u]].kind
          /\ owner'[current[u]].live = owner[current[u]].live
      BY <3>2 DEF MoveStep, OwnersStay
    <3> QED  BY <1>1, <3>1, <3>3 DEF NInv, CallsStand, Mine
  <2> QED  BY <2>1, <2>2
<1>7. UnownedIsIdle'  BY <1>1 DEF NInv, UnownedIsIdle
<1>8. UsedIsOwned'
  BY <1>1 DEF NInv, UsedIsOwned, MoveStep, OwnersStay
<1>9. TransitionIsClear'
  <2>1. \A u \in TorchThreads : pc'[u] = "locked" => pc[u] = "locked"
    BY <1>3 DEF MoveStep
  <2> QED  BY <1>1, <1>2, <2>1, ClearFollows DEF MoveStep
<1> QED  BY <1>4, <1>5, <1>6, <1>7, <1>8, <1>9

\* A deletion takes the owner out of the table.
LEMMA DeleteKeeps ==
    ASSUME NInv, NEW t \in TorchThreads, NEW p \in Pointers, Delete(t, p)
    PROVE  NInv'
<1> DEFINE n == owners[p]
<1>1. PICK k : k = n  OBVIOUS
<1>2. /\ p \in DOMAIN owners /\ pc[t] = "idle" /\ owners' = Drop(owners, p)
      /\ UNCHANGED <<graphVars, owner, deferred, scopeVars, proxyVars>>
      /\ \/ terminal /\ pc' = pc /\ current' = current
         \/ \E x \in {"fence", "wait"} :
               /\ pc' = [pc EXCEPT ![t] = x] /\ current' = [current EXCEPT ![t] = n]
               /\ x = "fence" => owner[n].kind = "compiler"
  BY DEF Delete, MayCall, flowVars
<1>3. /\ owner' = owner /\ deferred' = deferred /\ memory' = memory /\ busy' = busy
      /\ alive' = alive /\ terminal' = terminal /\ customFailed' = customFailed
  BY <1>2 DEF graphVars, proxyVars
<1>4. /\ k \in DOMAIN owner /\ owner[k].ptr = p /\ Listed(k) /\ Active(k)
      /\ ~Queued(k) /\ \A u \in TorchThreads : current[u] # k
  <2>1. k \in DOMAIN owner /\ owner[k].ptr = p
    BY <1>1, <1>2 DEF NInv, TypesHold, NativeTypeOK, WaysAreApart
  <2>2. Listed(k)  BY <1>1, <1>2 DEF Listed
  <2>3. ~Queued(k)  BY <2>2 DEF Queued, NInv, WaysAreApart
  <2>4. \A u \in TorchThreads : current[u] # k  BY <1>1, <1>2 DEF NInv, WaysAreApart
  <2> QED  BY <2>1, <2>2, <2>3, <2>4 DEF Active
<1>5. /\ DOMAIN owners' = DOMAIN owners \ {p}
      /\ \A r \in DOMAIN owners' : owners'[r] = owners[r] /\ owners'[r] # k
  BY <1>1, <1>2, <1>4 DEF Drop, NInv, WaysAreApart
<1>6. /\ ~Listed(k)' /\ \A m : Listed(m)' => Listed(m)
      /\ \A m : m # k => Listed(m)' = Listed(m)
      /\ \A m : Queued(m)' = Queued(m)
  BY <1>1, <1>3, <1>5 DEF Listed, Queued
<1>7. current[t] = NoOwner /\ NoOwner \notin DOMAIN owner
  BY <1>2, NamesAreOwners DEF NInv, TypesHold, Owning
<1>8. /\ pc \in [TorchThreads -> Places] /\ current \in [TorchThreads -> Nat \cup {NoOwner}]
      /\ owner \in Seq(OwnerRecords) /\ terminal \in BOOLEAN
      /\ deferred \in [TorchThreads -> Seq(Nat)]
      /\ \A u \in TorchThreads : \A i \in DOMAIN deferred[u] :
            /\ deferred[u][i] \in DOMAIN owner
            /\ owner[deferred[u][i]].kind = "compiler"
            /\ owner[deferred[u][i]].creator = u
  BY DEF NInv, TypesHold, NativeTypeOK
<1>9. \E x \in {"idle", "fence", "wait"}, c \in {k, NoOwner} :
         /\ Moves(t, x, c)
         /\ \/ terminal /\ x = "idle" /\ c = NoOwner
            \/ x # "idle" /\ c = k /\ (x = "fence" => owner[k].kind = "compiler")
  <2>1. CASE terminal /\ pc' = pc /\ current' = current
    <3>1. Moves(t, "idle", NoOwner)
      BY <1>2, <1>7, <1>8, <2>1 DEF Moves, Places, Owning
    <3> QED  BY <2>1, <3>1
  <2>2. ASSUME NEW x \in {"fence", "wait"},
               pc' = [pc EXCEPT ![t] = x] /\ current' = [current EXCEPT ![t] = n],
               x = "fence" => owner[n].kind = "compiler"
        PROVE  Moves(t, x, k) /\ (x = "fence" => owner[k].kind = "compiler") /\ x # "idle"
    BY <1>1, <1>4, <1>7, <2>2 DEF Moves, Places, Owning
  <2> QED  BY <1>2, <2>1, <2>2
<1>10. PICK x \in {"idle", "fence", "wait"}, c \in {k, NoOwner} :
         /\ Moves(t, x, c)
         /\ \/ terminal /\ x = "idle" /\ c = NoOwner
            \/ x # "idle" /\ c = k /\ (x = "fence" => owner[k].kind = "compiler")
  BY <1>9
<1>11. /\ pc'[t] = x /\ current'[t] = c
       /\ \A u \in TorchThreads : u # t => pc'[u] = pc[u] /\ current'[u] = current[u]
  BY <1>10, MovesAlone
<1>12. \A m \in DOMAIN owner : m # k => InCall(m)' = InCall(m)
  BY <1>7, <1>10, <1>11 DEF InCall
<1>13. \A m \in DOMAIN owner :
          /\ Active(m)' => Active(m)
          /\ Active(m) => Active(m)' \/ terminal'
  <2>1. ASSUME ~terminal PROVE InCall(k)'  BY <1>10, <1>11, <2>1 DEF InCall
  <2>2. \A m \in DOMAIN owner : m # k => Active(m)' = Active(m)
    BY <1>6, <1>12 DEF Active
  <2> QED  BY <1>3, <1>4, <2>1, <2>2 DEF Active
<1>14. Knows(k)  BY <1>4 DEF NInv, OwnersKnow
<1>15. owner[k].kind # "native" => owner[k].live
  BY <1>4, <1>14 DEF Knows, Ending
<1>16. MoveStep(t, x, c)
  <2>1. OwnersStay  BY <1>3 DEF OwnersStay
  <2>2. /\ x \in {"hand", "destroy"} => busy[owner[c].ptr] = {}
        /\ x \in {"fence", "hand", "deferred"} => owner[c].kind = "compiler" /\ owner[c].live
    BY <1>10, <1>15
  <2>3. UNCHANGED <<graphVars, scopeVars, alive, customFailed>>
    BY <1>2, <1>3
  <2> QED  BY <1>2, <1>3, <1>8, <1>10, <1>13, <2>1, <2>2, <2>3 DEF MoveStep
<1>17. /\ TypesHold' /\ PointersAreApart' /\ CallsStand' /\ UnownedIsIdle'
       /\ UsedIsOwned' /\ TransitionIsClear'
  BY <1>16, MoveOwnerKeeps
<1>18. OwnersKnow'
  <2> SUFFICES ASSUME NEW m \in DOMAIN owner, Active(m) PROVE Knows(m)'
    BY <1>3, <1>13 DEF OwnersKnow
  <2>1. Knows(m)  BY DEF NInv, OwnersKnow
  <2>2. Ending(m) => Ending(m)'  BY <1>2, <1>11 DEF Ending
  <2> QED  BY <1>3, <1>6, <2>1, <2>2 DEF Knows, WaitFor
<1>19. WaysAreApart'
  <2>1. (\A r \in DOMAIN owners : owner[owners[r]].ptr = r)'
    BY <1>3, <1>5 DEF NInv, WaysAreApart
  <2>2. (\A u \in TorchThreads, r \in DOMAIN owners : owners[r] # current[u])'
    <3>1. \A r \in DOMAIN owners' : owners'[r] # NoOwner
      BY <1>5, <1>7 DEF NInv, TypesHold, NativeTypeOK
    <3> QED  BY <1>5, <1>10, <1>11, <3>1 DEF NInv, WaysAreApart
  <2>3. (\A u, v \in TorchThreads : current[u] = current[v] /\ current[u] # NoOwner => u = v)'
    BY <1>4, <1>10, <1>11 DEF NInv, WaysAreApart
  <2>4. ASSUME NEW u \in TorchThreads, NEW i \in DOMAIN deferred[u]
        PROVE  /\ ~Listed(deferred[u][i])'
               /\ \A v \in TorchThreads : current'[v] = deferred'[u][i] => pc'[v] = "deferred"
               /\ \A j \in DOMAIN deferred[u] : deferred[u][i] = deferred[u][j] => i = j
    <3>1. deferred[u][i] # k /\ deferred[u][i] # NoOwner
      BY <1>4, <1>7, <1>8 DEF Queued
    <3> QED  BY <1>3, <1>6, <1>10, <1>11, <3>1 DEF NInv, WaysAreApart
  <2> QED  BY <1>3, <2>1, <2>2, <2>3, <2>4 DEF WaysAreApart
<1>20. StrandedIsNoticed'
  BY <1>2, <1>3, <1>10, <1>16, StrandedFollows DEF MoveStep
<1> QED  BY <1>17, <1>18, <1>19, <1>20 DEF NInv

\* Ways that stay, for a thread that goes on with the owner it has.
LEMMA WaitKeeps ==
    ASSUME NInv, NEW t \in TorchThreads, Wait(t)
    PROVE  NInv'
<1>1. PICK n : n = current[t]  OBVIOUS
<1>2. /\ pc[t] \in {"fence", "wait"} /\ pc[t] \in Owning
      /\ \/ Mine(t).kind = "native" \/ Mine(t).fenced
         \/ busy[Mine(t).ptr] \cap WaitFor(Mine(t)) = {}
      /\ owner' = [owner EXCEPT ![current[t]].fenced = @ \/ Mine(t).kind # "native"]
      /\ pc' = [pc EXCEPT ![t] = IF pc[t] = "fence" THEN "hand" ELSE "destroy"]
      /\ current' = current
      /\ UNCHANGED <<graphVars, owners, deferred, scopeVars, proxyVars>>
  BY DEF Wait, Goto, Owning
<1>3. /\ n \in DOMAIN owner /\ Active(n) /\ Knows(n) /\ owner[n] \in OwnerRecords
      /\ ~Listed(n) /\ n # NoOwner
  <2>1. ~Listed(n)  BY <1>1 DEF Listed, NInv, WaysAreApart
  <2> QED  BY <1>1, <1>2, <2>1, CallKnows, NamesAreOwners DEF NInv
<1>4. busy[owner[n].ptr] = {}
  BY <1>1, <1>2, <1>3 DEF Knows, Mine
<1> DEFINE b == owner[n].fenced \/ owner[n].kind # "native"
           d == [owner[n] EXCEPT !.fenced = b]
<1>5. owner' = [owner EXCEPT ![n] = d]
  BY <1>1, <1>2 DEF Mine
<1>6. /\ d \in OwnerRecords /\ d.kind = owner[n].kind /\ d.ptr = owner[n].ptr
      /\ d.creator = owner[n].creator /\ d.live = owner[n].live
      /\ d.consumers = owner[n].consumers
  <2>1. b \in BOOLEAN  OBVIOUS
  <2> HIDE DEF b
  <2> QED  BY <1>3, <2>1, FencedRecord
<1> HIDE DEF b, d
<1>7. /\ owner' \in Seq(OwnerRecords) /\ Len(owner') = Len(owner) /\ DOMAIN owner' = DOMAIN owner
      /\ owner'[n] = d /\ \A m \in DOMAIN owner : m # n => owner'[m] = owner[m]
  <2>1. owner \in Seq(OwnerRecords)  BY DEF NInv, TypesHold, NativeTypeOK
  <2> QED  BY <1>3, <1>5, <1>6, <2>1, OwnerChanged
<1>8. OwnersStay /\ \A m \in DOMAIN owner : owner'[m].live = owner[m].live
  BY <1>6, <1>7 DEF OwnersStay
<1>9. /\ owners' = owners /\ deferred' = deferred /\ memory' = memory /\ busy' = busy
      /\ alive' = alive /\ terminal' = terminal /\ customFailed' = customFailed
  BY <1>2 DEF graphVars, proxyVars
<1>10. PICK x \in {"hand", "destroy"} :
          /\ pc' = [pc EXCEPT ![t] = x] /\ (pc[t] = "fence" <=> x = "hand")
  BY <1>2
<1>11. Moves(t, x, n)
  <2>1. current' = [current EXCEPT ![t] = n]
    BY <1>1, <1>2 DEF NInv, TypesHold
  <2> QED  BY <1>3, <1>10, <2>1 DEF Moves, Places, Owning
<1>12. /\ pc'[t] = x /\ current'[t] = n
       /\ \A u \in TorchThreads : u # t => pc'[u] = pc[u] /\ current'[u] = current[u]
  BY <1>11, MovesAlone
<1>13. \A m : /\ Listed(m)' = Listed(m) /\ InCall(m)' = InCall(m) /\ Queued(m)' = Queued(m)
              /\ Active(m)' = Active(m)
  BY <1>2, <1>9 DEF Active, Listed, InCall, Queued
<1>14. MoveStep(t, x, n)
  <2>1. /\ terminal \in BOOLEAN /\ deferred \in [TorchThreads -> Seq(Nat)]
        /\ \A u \in TorchThreads : \A i \in DOMAIN deferred[u] :
              /\ deferred[u][i] \in DOMAIN owner
              /\ owner[deferred[u][i]].kind = "compiler"
              /\ owner[deferred[u][i]].creator = u
    BY DEF NInv, TypesHold, NativeTypeOK
  <2>2. x \in {"fence", "hand", "deferred"} => owner[n].kind = "compiler" /\ owner[n].live
    BY <1>1, <1>10 DEF NInv, CallsStand, Mine
  <2>3. UNCHANGED <<graphVars, scopeVars, alive, customFailed>>  BY <1>2, <1>9
  <2> QED
    BY <1>4, <1>7, <1>8, <1>9, <1>10, <1>11, <1>13, <2>1, <2>2, <2>3 DEF MoveStep
<1>15. /\ TypesHold' /\ PointersAreApart' /\ CallsStand' /\ UnownedIsIdle'
       /\ UsedIsOwned' /\ TransitionIsClear'
  BY <1>14, MoveOwnerKeeps
<1>16. OwnersKnow'
  <2> SUFFICES ASSUME NEW m \in DOMAIN owner, Active(m) PROVE Knows(m)'
    BY <1>7, <1>13 DEF OwnersKnow
  <2>1. Knows(m)  BY DEF NInv, OwnersKnow
  <2>2. Ending(m) => Ending(m)'
    <3>1. CASE m = n
      <4>1. ASSUME Ending(n) PROVE pc[t] = "wait"
        <5>1. PICK u \in TorchThreads : current[u] = n /\ pc[u] \in {"wait", "destroy"}
          BY <4>1 DEF Ending
        <5>2. u = t  BY <1>1, <1>3, <5>1 DEF NInv, WaysAreApart
        <5> QED  BY <1>2, <5>1, <5>2
      <4> QED  BY <1>10, <1>12, <3>1, <4>1 DEF Ending
    <3>2. CASE m # n  BY <1>1, <1>12, <3>2 DEF Ending
    <3> QED  BY <3>1, <3>2
  <2>3. CASE m = n
    BY <1>3, <1>4, <1>6, <1>7, <1>9, <1>13, <2>1, <2>2, <2>3 DEF Knows, WaitFor
  <2>4. CASE m # n
    BY <1>7, <1>9, <1>13, <2>1, <2>2, <2>4 DEF Knows, WaitFor
  <2> QED  BY <2>3, <2>4
<1>17. WaysAreApart'
  <2>1. (\A r \in DOMAIN owners : owner[owners[r]].ptr = r)'
    BY <1>8, <1>9 DEF NInv, WaysAreApart, OwnersStay, TypesHold, NativeTypeOK
  <2>2. ASSUME NEW u \in TorchThreads, NEW i \in DOMAIN deferred[u]
        PROVE  /\ ~Listed(deferred[u][i])'
               /\ \A v \in TorchThreads : current'[v] = deferred'[u][i] => pc'[v] = "deferred"
               /\ \A j \in DOMAIN deferred[u] : deferred[u][i] = deferred[u][j] => i = j
    <3>1. deferred[u][i] # n
      BY <1>1, <1>2 DEF NInv, WaysAreApart
    <3> QED  BY <1>9, <1>12, <1>13, <3>1 DEF NInv, WaysAreApart
  <2> QED  BY <1>2, <1>9, <2>1, <2>2 DEF NInv, WaysAreApart
<1>18. StrandedIsNoticed'
  BY <1>2, <1>8, <1>9, <1>11, StrandedFollows
<1> QED  BY <1>15, <1>16, <1>17, <1>18 DEF NInv

\* The deferred frees, and the threads they are deferred to.
LEMMA DeferredFrees ==
    ASSUME NInv
    PROVE  /\ deferred \in [TorchThreads -> Seq(Nat)] /\ terminal \in BOOLEAN
           /\ owner \in Seq(OwnerRecords)
           /\ \A u \in TorchThreads : \A i \in DOMAIN deferred[u] :
                 /\ deferred[u][i] \in DOMAIN owner /\ deferred[u][i] # NoOwner
                 /\ owner[deferred[u][i]].kind = "compiler"
                 /\ owner[deferred[u][i]].creator = u
                 /\ ~Listed(deferred[u][i])
                 /\ \A v \in TorchThreads : current[v] = deferred[u][i] => pc[v] = "deferred"
                 /\ \A j \in DOMAIN deferred[u] : deferred[u][i] = deferred[u][j] => i = j
<1>1. /\ deferred \in [TorchThreads -> Seq(Nat)] /\ terminal \in BOOLEAN
      /\ owner \in Seq(OwnerRecords)
      /\ \A u \in TorchThreads : \A i \in DOMAIN deferred[u] :
            /\ deferred[u][i] \in DOMAIN owner
            /\ owner[deferred[u][i]].kind = "compiler"
            /\ owner[deferred[u][i]].creator = u
  BY DEF NInv, TypesHold, NativeTypeOK
<1>2. NoOwner \notin DOMAIN owner  BY NamesAreOwners DEF NInv
<1> QED  BY <1>1, <1>2 DEF NInv, WaysAreApart

\* The owners know what they did if only the ways to them changed.
LEMMA KnowledgeStays ==
    ASSUME NInv, owner' = owner, memory' = memory, busy' = busy,
           \A n \in DOMAIN owner : Active(n)' => Active(n),
           \A n : Listed(n)' => Listed(n),
           \A n \in DOMAIN owner : Ending(n) => Ending(n)' \/ owner[n].live
    PROVE  OwnersKnow'
<1> SUFFICES ASSUME NEW n \in DOMAIN owner, Active(n) PROVE Knows(n)'
  BY DEF OwnersKnow
<1>1. Knows(n)  BY DEF NInv, OwnersKnow
<1> QED  BY <1>1 DEF Knows, WaitFor

\* A deferral: the queue and the thread that still looks share the owner.
LEMMA DeferKeeps ==
    ASSUME NInv, NEW t \in TorchThreads, Defer(t)
    PROVE  NInv'
<1>1. PICK n : n = current[t]  OBVIOUS
<1>2. /\ pc[t] = "hand" /\ pc[t] \in Owning
      /\ deferred' = [deferred EXCEPT ![owner[n].creator] = Append(@, n)]
      /\ pc' = [pc EXCEPT ![t] = "deferred"] /\ current' = current
      /\ UNCHANGED <<graphVars, owner, owners, scopeVars, proxyVars>>
  BY <1>1 DEF Defer, Goto, Mine, Owning
<1>3. PICK z : z = owner[n].creator  OBVIOUS
<1>4. /\ n \in DOMAIN owner /\ Active(n) /\ z \in TorchThreads /\ n \in Nat /\ n # NoOwner
      /\ owner[n].kind = "compiler" /\ owner[n].live /\ ~Listed(n) /\ ~Queued(n)
  <2>1. ~Listed(n)  BY <1>1 DEF Listed, NInv, WaysAreApart
  <2>2. ~Queued(n)  BY <1>1, <1>2 DEF Queued, NInv, WaysAreApart
  <2>3. owner[n].kind = "compiler" /\ owner[n].live  BY <1>1, <1>2 DEF NInv, CallsStand, Mine
  <2> QED
    BY <1>1, <1>2, <1>3, <2>1, <2>2, <2>3, CallKnows, NamesAreOwners DEF NInv, OwnerRecords
<1>5. /\ owner' = owner /\ owners' = owners /\ memory' = memory /\ busy' = busy
      /\ alive' = alive /\ terminal' = terminal /\ customFailed' = customFailed
  BY <1>2 DEF graphVars, proxyVars
<1>6. /\ deferred' \in [TorchThreads -> Seq(Nat)]
      /\ \A u \in TorchThreads : u # z => deferred'[u] = deferred[u]
      /\ DOMAIN deferred'[z] = DOMAIN deferred[z] \cup {Len(deferred[z]) + 1}
      /\ deferred'[z][Len(deferred[z]) + 1] = n /\ Len(deferred[z]) + 1 \notin DOMAIN deferred[z]
      /\ \A i \in DOMAIN deferred[z] : deferred'[z][i] = deferred[z][i]
  <2>1. deferred' = [deferred EXCEPT ![z] = Append(deferred[z], n)]  BY <1>2, <1>3
  <2>2. deferred \in [TorchThreads -> Seq(Nat)]  BY DeferredFrees
  <2> QED  BY <1>4, <2>1, <2>2
<1>7. Moves(t, "deferred", n)
  <2>1. current' = [current EXCEPT ![t] = n]  BY <1>1, <1>2 DEF NInv, TypesHold
  <2> QED  BY <1>2, <1>4, <2>1 DEF Moves, Places, Owning
<1>8. /\ pc'[t] = "deferred" /\ current'[t] = n
      /\ \A u \in TorchThreads : u # t => pc'[u] = pc[u] /\ current'[u] = current[u]
  BY <1>7, MovesAlone
<1>9. /\ \A u \in TorchThreads : \A i \in DOMAIN deferred'[u] :
            \/ i \in DOMAIN deferred[u] /\ deferred'[u][i] = deferred[u][i]
            \/ u = z /\ i = Len(deferred[z]) + 1 /\ deferred'[u][i] = n
      /\ \A u \in TorchThreads : \A i \in DOMAIN deferred[u] :
            i \in DOMAIN deferred'[u] /\ deferred'[u][i] = deferred[u][i]
  <2>1. ASSUME NEW u \in TorchThreads, NEW i \in DOMAIN deferred'[u]
        PROVE  \/ i \in DOMAIN deferred[u] /\ deferred'[u][i] = deferred[u][i]
               \/ u = z /\ i = Len(deferred[z]) + 1 /\ deferred'[u][i] = n
    BY <1>6
  <2>2. ASSUME NEW u \in TorchThreads, NEW i \in DOMAIN deferred[u]
        PROVE  i \in DOMAIN deferred'[u] /\ deferred'[u][i] = deferred[u][i]
    BY <1>6
  <2> QED  BY <2>1, <2>2
<1>10. /\ \A m : Listed(m)' = Listed(m) /\ InCall(m)' = InCall(m)
       /\ \A m : m # n => Queued(m)' = Queued(m)
  <2>1. \A m : Listed(m)' = Listed(m) /\ InCall(m)' = InCall(m)
    BY <1>2, <1>5 DEF Listed, InCall
  <2>2. ASSUME NEW m, m # n PROVE Queued(m)' = Queued(m)
    <3>1. ASSUME Queued(m)' PROVE Queued(m)
      BY <1>9, <2>2, <3>1 DEF Queued
    <3>2. ASSUME Queued(m) PROVE Queued(m)'
      BY <1>9, <3>2 DEF Queued
    <3> QED  BY <3>1, <3>2 DEF Queued
  <2> QED  BY <2>1, <2>2
<1>11. InCall(n)  BY <1>1 DEF InCall
<1>12. \A m \in DOMAIN owner : Active(m)' = Active(m)
  BY <1>10, <1>11 DEF Active
<1>13. MoveStep(t, "deferred", n)
  <2>1. \A u \in TorchThreads : \A i \in DOMAIN deferred'[u] :
              /\ deferred'[u][i] \in DOMAIN owner
              /\ owner[deferred'[u][i]].kind = "compiler"
              /\ owner[deferred'[u][i]].creator = u
    <3> SUFFICES ASSUME NEW u \in TorchThreads, NEW i \in DOMAIN deferred'[u]
                 PROVE  /\ deferred'[u][i] \in DOMAIN owner
                        /\ owner[deferred'[u][i]].kind = "compiler"
                        /\ owner[deferred'[u][i]].creator = u
      OBVIOUS
    <3>1. CASE i \in DOMAIN deferred[u] /\ deferred'[u][i] = deferred[u][i]
      BY <3>1, DeferredFrees
    <3>2. CASE u = z /\ deferred'[u][i] = n  BY <1>3, <1>4, <3>2
    <3> QED  BY <1>9, <3>1, <3>2
  <2>2. OwnersStay  BY <1>5 DEF OwnersStay
  <2>3. UNCHANGED <<graphVars, scopeVars, alive, customFailed>>  BY <1>2, <1>5
  <2>4. owner \in Seq(OwnerRecords) /\ terminal \in BOOLEAN  BY DeferredFrees
  <2>5. \A m \in DOMAIN owner : (Active(m)' => Active(m)) /\ (Active(m) => Active(m)' \/ terminal')
    BY <1>12
  <2>6. /\ owner' \in Seq(OwnerRecords) /\ Len(owner') = Len(owner)
        /\ \A m \in DOMAIN owner : owner'[m].live = owner[m].live
    BY <1>5, <2>4
  <2>7. terminal' \in BOOLEAN /\ (terminal => terminal') /\ (Changing => terminal' = terminal)
    BY <1>5, <2>4
  <2> QED
    BY <1>4, <1>5, <1>6, <1>7, <2>1, <2>2, <2>3, <2>5, <2>6, <2>7 DEF MoveStep
<1>14. /\ TypesHold' /\ PointersAreApart' /\ CallsStand' /\ UnownedIsIdle'
       /\ UsedIsOwned' /\ TransitionIsClear'
  BY <1>13, MoveOwnerKeeps
<1>15. OwnersKnow'
  <2>1. \A m \in DOMAIN owner : Ending(m) => Ending(m)'
    BY <1>2, <1>8 DEF Ending
  <2> QED  BY <1>5, <1>10, <1>12, <2>1, KnowledgeStays
<1>16. WaysAreApart'
  <2>1. ASSUME NEW u \in TorchThreads, NEW i \in DOMAIN deferred'[u]
        PROVE  /\ ~Listed(deferred'[u][i])
               /\ \A v \in TorchThreads : current'[v] = deferred'[u][i] => pc'[v] = "deferred"
               /\ \A j \in DOMAIN deferred'[u] : deferred'[u][i] = deferred'[u][j] => i = j
    <3>1. \A v \in TorchThreads : current[v] = n => v = t
      BY <1>1, <1>4 DEF NInv, WaysAreApart
    <3>2. \A j \in DOMAIN deferred[u] : deferred[u][j] # n
      BY <1>4 DEF Queued
    <3>3. CASE i \in DOMAIN deferred[u] /\ deferred'[u][i] = deferred[u][i]
      <4>1. /\ ~Listed(deferred[u][i])
            /\ \A v \in TorchThreads : current[v] = deferred[u][i] => pc[v] = "deferred"
            /\ \A j \in DOMAIN deferred[u] : deferred[u][i] = deferred[u][j] => i = j
        BY <3>3 DEF NInv, WaysAreApart
      <4>2. \A v \in TorchThreads : current'[v] = deferred'[u][i] => pc'[v] = "deferred"
        BY <1>2, <1>8, <3>3, <4>1
      <4>3. \A j \in DOMAIN deferred'[u] : deferred'[u][i] = deferred'[u][j] => i = j
        BY <1>9, <3>2, <3>3, <4>1
      <4> QED  BY <3>3, <4>1, <4>2, <4>3
    <3>4. CASE u = z /\ i = Len(deferred[z]) + 1 /\ deferred'[u][i] = n
      <4>1. \A j \in DOMAIN deferred'[u] : deferred'[u][i] = deferred'[u][j] => i = j
        BY <1>9, <3>2, <3>4
      <4> QED  BY <1>2, <1>4, <1>8, <3>1, <3>4, <4>1
    <3> QED  BY <1>9, <3>3, <3>4
  <2>2. \A m : Listed(m)' = Listed(m)  BY <1>10
  <2>3. /\ (\A r \in DOMAIN owners : owner[owners[r]].ptr = r)'
        /\ (\A u \in TorchThreads, r \in DOMAIN owners : owners[r] # current[u])'
        /\ (\A u, v \in TorchThreads : current[u] = current[v] /\ current[u] # NoOwner => u = v)'
    BY <1>2, <1>5 DEF NInv, WaysAreApart
  <2> QED  BY <2>1, <2>2, <2>3 DEF WaysAreApart
<1>17. StrandedIsNoticed'
  <2> SUFFICES ASSUME NEW v \in TorchThreads, ~alive[v], deferred'[v] # <<>>
               PROVE  \/ terminal \/ pc'[v] = "exit"
                      \/ \E u \in TorchThreads : pc'[u] = "deferred" /\ Mine(u)'.creator = v
    BY <1>5 DEF StrandedIsNoticed
  <2>1. CASE v = z
    <3>1. Mine(t)' = owner[n]  BY <1>5, <1>8 DEF Mine
    <3> QED  BY <1>3, <1>8, <2>1, <3>1
  <2>2. CASE v # z
    <3>1. deferred[v] # <<>>  BY <1>6, <2>2
    <3>2. CASE terminal  BY <3>2
    <3>3. CASE pc[v] = "exit"  BY <1>2, <1>8, <3>3
    <3>4. ASSUME NEW u \in TorchThreads, pc[u] = "deferred", Mine(u).creator = v
          PROVE  pc'[u] = "deferred" /\ Mine(u)'.creator = v
      BY <1>2, <1>5, <1>8, <3>4 DEF Mine
    <3> QED  BY <3>1, <3>2, <3>3, <3>4 DEF NInv, StrandedIsNoticed
  <2> QED  BY <2>1, <2>2
<1> QED  BY <1>14, <1>15, <1>16, <1>17 DEF NInv

\* The creator is checked after the deferral, so one of the two notices.
LEMMA CheckCreatorKeeps ==
    ASSUME NInv, NEW t \in TorchThreads, CheckCreator(t)
    PROVE  NInv'
<1>1. PICK n : n = current[t]  OBVIOUS
<1>2. /\ pc[t] = "deferred" /\ pc[t] \in Owning
      /\ terminal' = (terminal \/ ~alive[owner[n].creator])
      /\ UNCHANGED <<graphVars, ownerVars, scopeVars, alive, customFailed>>
      /\ \/ /\ Queued(n)
            /\ pc' = [pc EXCEPT ![t] = "idle"] /\ current' = [current EXCEPT ![t] = NoOwner]
         \/ ~Queued(n) /\ pc' = [pc EXCEPT ![t] = "wait"] /\ current' = current
  BY <1>1 DEF CheckCreator, Mine, Leave, Goto, Owning
<1>3. /\ n \in DOMAIN owner /\ Active(n) /\ n # NoOwner /\ NoOwner \notin DOMAIN owner
      /\ owner[n].kind = "compiler" /\ owner[n].live /\ ~Changing
  <2>1. owner[n].kind = "compiler" /\ owner[n].live  BY <1>1, <1>2 DEF NInv, CallsStand, Mine
  <2>2. NoOwner \notin DOMAIN owner  BY NamesAreOwners DEF NInv
  <2>3. n \in DOMAIN owner /\ Active(n) /\ ~Changing
    BY <1>1, <1>2, <2>1, CallKnows DEF Mine
  <2> QED  BY <2>1, <2>2, <2>3
<1>4. /\ owner' = owner /\ owners' = owners /\ deferred' = deferred /\ memory' = memory
      /\ busy' = busy /\ alive' = alive /\ customFailed' = customFailed
  BY <1>2 DEF graphVars, ownerVars
<1>5. \E x \in {"idle", "wait"}, c \in {n, NoOwner} :
         /\ Moves(t, x, c)
         /\ (x = "idle" => c = NoOwner /\ Queued(n)) /\ (x = "wait" => c = n /\ ~Queued(n))
  <2>1. CASE /\ Queued(n) /\ pc' = [pc EXCEPT ![t] = "idle"]
             /\ current' = [current EXCEPT ![t] = NoOwner]
    <3>1. Moves(t, "idle", NoOwner)  BY <2>1 DEF Moves, Places, Owning
    <3> QED  BY <2>1, <3>1
  <2>2. CASE ~Queued(n) /\ pc' = [pc EXCEPT ![t] = "wait"] /\ current' = current
    <3>1. current' = [current EXCEPT ![t] = n]  BY <1>1, <2>2 DEF NInv, TypesHold
    <3>2. Moves(t, "wait", n)  BY <1>3, <2>2, <3>1 DEF Moves, Places, Owning
    <3> QED  BY <2>2, <3>2
  <2> QED  BY <1>2, <2>1, <2>2
<1>6. PICK x \in {"idle", "wait"}, c \in {n, NoOwner} :
         /\ Moves(t, x, c)
         /\ (x = "idle" => c = NoOwner /\ Queued(n)) /\ (x = "wait" => c = n /\ ~Queued(n))
  BY <1>5
<1>7. /\ pc'[t] = x /\ current'[t] = c
      /\ \A u \in TorchThreads : u # t => pc'[u] = pc[u] /\ current'[u] = current[u]
  BY <1>6, MovesAlone
<1>8. \A u \in TorchThreads : current[u] = n => u = t
  BY <1>1, <1>3 DEF NInv, WaysAreApart
<1>9. \A m : Listed(m)' = Listed(m) /\ Queued(m)' = Queued(m)
  BY <1>4 DEF Listed, Queued
<1>10. \A m \in DOMAIN owner : (Active(m)' => Active(m)) /\ (Active(m) => Active(m)')
  <2>1. \A m \in DOMAIN owner : m # n => InCall(m)' = InCall(m)
    BY <1>1, <1>3, <1>6, <1>7 DEF InCall
  <2>2. \A m \in DOMAIN owner : m # n => Active(m)' = Active(m)
    BY <1>9, <2>1 DEF Active
  <2>3. ASSUME NEW m \in DOMAIN owner, m = n PROVE Active(m) /\ Active(m)'
    <3>1. Active(m)  BY <1>1, <2>3 DEF Active, InCall
    <3>2. CASE x = "idle"
      <4>1. Queued(m)  BY <1>6, <2>3, <3>2 DEF Queued
      <4> QED  BY <1>9, <3>1, <4>1 DEF Active
    <3>3. CASE x = "wait"
      <4>1. InCall(m)'  BY <1>6, <1>7, <2>3, <3>3 DEF InCall
      <4> QED  BY <3>1, <4>1 DEF Active
    <3> QED  BY <3>2, <3>3
  <2>4. ASSUME NEW m \in DOMAIN owner
        PROVE  (Active(m)' => Active(m)) /\ (Active(m) => Active(m)')
    <3>1. CASE m = n  BY <2>3, <3>1
    <3>2. CASE m # n  BY <2>2, <3>2
    <3> QED  BY <3>1, <3>2
  <2> QED  BY <2>4
<1>11. MoveStep(t, x, c)
  <2>1. OwnersStay  BY <1>4 DEF OwnersStay
  <2>2. /\ owner' \in Seq(OwnerRecords) /\ Len(owner') = Len(owner)
        /\ \A m \in DOMAIN owner : owner'[m].live = owner[m].live
    BY <1>4, DeferredFrees
  <2>3. /\ terminal' \in BOOLEAN /\ (terminal => terminal')
        /\ (Changing => terminal' = terminal)
    BY <1>2, <1>3
  <2>4. /\ deferred' \in [TorchThreads -> Seq(Nat)]
        /\ \A u \in TorchThreads : \A i \in DOMAIN deferred'[u] :
              /\ deferred'[u][i] \in DOMAIN owner
              /\ owner[deferred'[u][i]].kind = "compiler"
              /\ owner[deferred'[u][i]].creator = u
    BY <1>4, DeferredFrees
  <2>5. \A m \in DOMAIN owner : (Active(m)' => Active(m)) /\ (Active(m) => Active(m)' \/ terminal')
    BY <1>10
  <2>6. UNCHANGED <<graphVars, scopeVars, alive, customFailed>>  BY <1>2
  <2>7. x \notin {"fence", "hand", "deferred", "destroy", "locked"} /\ Moves(t, x, c)
    BY <1>6
  <2>8. owners' = owners  BY <1>4
  <2> QED  BY <2>1, <2>2, <2>3, <2>4, <2>5, <2>6, <2>7, <2>8 DEF MoveStep
<1>12. /\ TypesHold' /\ PointersAreApart' /\ CallsStand' /\ UnownedIsIdle'
       /\ UsedIsOwned' /\ TransitionIsClear'
  BY <1>11, MoveOwnerKeeps
<1>13. OwnersKnow'
  <2>1. \A m \in DOMAIN owner : Ending(m) => Ending(m)'
    BY <1>2, <1>7 DEF Ending
  <2> QED  BY <1>4, <1>9, <1>10, <2>1, KnowledgeStays
<1>14. WaysAreApart'
  <2>1. ASSUME NEW u \in TorchThreads, NEW i \in DOMAIN deferred[u]
        PROVE  /\ ~Listed(deferred[u][i])
               /\ \A v \in TorchThreads : current'[v] = deferred[u][i] => pc'[v] = "deferred"
               /\ \A j \in DOMAIN deferred[u] : deferred[u][i] = deferred[u][j] => i = j
    <3>1. /\ ~Listed(deferred[u][i]) /\ deferred[u][i] # NoOwner
          /\ \A v \in TorchThreads : current[v] = deferred[u][i] => pc[v] = "deferred"
          /\ \A j \in DOMAIN deferred[u] : deferred[u][i] = deferred[u][j] => i = j
      BY DeferredFrees
    <3>2. x = "wait" => deferred[u][i] # n
      BY <1>6 DEF Queued
    <3> QED  BY <1>6, <1>7, <3>1, <3>2
  <2>2. (\A r \in DOMAIN owners : owner[owners[r]].ptr = r)'
    BY <1>4 DEF NInv, WaysAreApart
  <2>3. (\A u \in TorchThreads, r \in DOMAIN owners : owners[r] # current[u])'
    <3>1. \A r \in DOMAIN owners : owners[r] # NoOwner /\ owners[r] # n
      BY <1>1, <1>3 DEF NInv, TypesHold, NativeTypeOK, WaysAreApart
    <3> QED  BY <1>4, <1>7, <3>1 DEF NInv, WaysAreApart
  <2>4. (\A u, v \in TorchThreads : current[u] = current[v] /\ current[u] # NoOwner => u = v)'
    BY <1>7, <1>8 DEF NInv, WaysAreApart
  <2> QED  BY <1>4, <1>9, <2>1, <2>2, <2>3, <2>4 DEF WaysAreApart
<1>15. StrandedIsNoticed'
  <2> SUFFICES ASSUME NEW v \in TorchThreads, ~alive[v], deferred[v] # <<>>
               PROVE  \/ terminal' \/ pc'[v] = "exit"
                      \/ \E u \in TorchThreads : pc'[u] = "deferred" /\ Mine(u)'.creator = v
    BY <1>4 DEF StrandedIsNoticed
  <2>1. CASE terminal  BY <1>2, <2>1
  <2>2. CASE pc[v] = "exit"  BY <1>2, <1>7, <2>2
  <2>3. ASSUME NEW u \in TorchThreads, pc[u] = "deferred", Mine(u).creator = v
        PROVE  terminal' \/ (pc'[u] = "deferred" /\ Mine(u)'.creator = v)
    <3>1. CASE u = t  BY <1>1, <1>2, <2>3, <3>1 DEF Mine
    <3>2. CASE u # t  BY <1>4, <1>7, <2>3, <3>2 DEF Mine
    <3> QED  BY <3>1, <3>2
  <2> QED  BY <2>1, <2>2, <2>3 DEF NInv, StrandedIsNoticed
<1> QED  BY <1>12, <1>13, <1>14, <1>15 DEF NInv

\* What remains of a sequence without its head, element by element.
LEMMA HeadAndTail ==
    ASSUME NEW s \in Seq(Nat), s # <<>>
    PROVE  /\ 1 \in DOMAIN s /\ Tail(s) \in Seq(Nat)
           /\ \A i \in DOMAIN Tail(s) :
                 /\ i \in Nat /\ i + 1 \in DOMAIN s /\ i + 1 # 1
                 /\ Tail(s)[i] = s[i + 1]
           /\ \A i \in DOMAIN s : i # 1 =>
                 i - 1 \in DOMAIN Tail(s) /\ Tail(s)[i - 1] = s[i]
  OBVIOUS

\* The creator takes the owner out of its queue.
LEMMA DrainKeeps ==
    ASSUME NInv, NEW t \in TorchThreads, Drain(t)
    PROVE  NInv'
<1>1. PICK n : n = Head(deferred[t])  OBVIOUS
<1>2. /\ pc[t] = "idle" /\ alive[t] /\ deferred[t] # <<>>
      /\ deferred' = [deferred EXCEPT ![t] = Tail(deferred[t])]
      /\ \/ /\ Checking(n) = {}
            /\ pc' = [pc EXCEPT ![t] = "wait"] /\ current' = [current EXCEPT ![t] = n]
         \/ Checking(n) # {} /\ pc' = pc /\ current' = current
      /\ UNCHANGED <<graphVars, owner, owners, scopeVars, proxyVars>>
  BY <1>1 DEF Drain, MayCall, LastReference, flowVars
<1>3. /\ deferred[t] \in Seq(Nat) /\ 1 \in DOMAIN deferred[t] /\ deferred[t][1] = n
      /\ Tail(deferred[t]) \in Seq(Nat)
      /\ \A i \in DOMAIN Tail(deferred[t]) :
            /\ i \in Nat /\ i + 1 \in DOMAIN deferred[t] /\ i + 1 # 1
            /\ Tail(deferred[t])[i] = deferred[t][i + 1]
      /\ \A i \in DOMAIN deferred[t] : i # 1 =>
            i - 1 \in DOMAIN Tail(deferred[t]) /\ Tail(deferred[t])[i - 1] = deferred[t][i]
  <2>1. deferred[t] \in Seq(Nat) /\ deferred[t] # <<>>  BY <1>2, DeferredFrees
  <2>2. deferred[t][1] = n  BY <1>1, <2>1
  <2> QED  BY <2>1, <2>2, HeadAndTail
<1>4. /\ n \in DOMAIN owner /\ n # NoOwner /\ owner[n].creator = t /\ ~Listed(n)
      /\ Queued(n) /\ Active(n) /\ NoOwner \notin DOMAIN owner
      /\ \A v \in TorchThreads : current[v] = n => pc[v] = "deferred"
      /\ \A j \in DOMAIN deferred[t] : deferred[t][j] = n => j = 1
  <2>1. Queued(n)  BY <1>3 DEF Queued
  <2>2. NoOwner \notin DOMAIN owner  BY NamesAreOwners DEF NInv
  <2> QED  BY <1>3, <2>1, <2>2, DeferredFrees DEF Active
<1>5. /\ owner' = owner /\ owners' = owners /\ memory' = memory /\ busy' = busy
      /\ alive' = alive /\ terminal' = terminal /\ customFailed' = customFailed
  BY <1>2 DEF graphVars, proxyVars
<1>6. current[t] = NoOwner
  BY <1>2 DEF NInv, TypesHold, Owning
<1>7. \E x \in {"idle", "wait"}, c \in {n, NoOwner} :
         /\ Moves(t, x, c)
         /\ x = "idle" => c = NoOwner /\ InCall(n)
         /\ x = "wait" => c = n /\ \A v \in TorchThreads : current[v] # n
  <2>1. CASE /\ Checking(n) = {}
             /\ pc' = [pc EXCEPT ![t] = "wait"] /\ current' = [current EXCEPT ![t] = n]
    <3>1. Moves(t, "wait", n)  BY <1>4, <2>1 DEF Moves, Places, Owning
    <3>2. \A v \in TorchThreads : current[v] # n  BY <1>4, <2>1 DEF Checking
    <3> QED  BY <3>1, <3>2
  <2>2. CASE Checking(n) # {} /\ pc' = pc /\ current' = current
    <3>1. pc' = [pc EXCEPT ![t] = "idle"] /\ current' = [current EXCEPT ![t] = NoOwner]
      BY <1>2, <1>6, <2>2 DEF NInv, TypesHold
    <3>2. Moves(t, "idle", NoOwner)  BY <3>1 DEF Moves, Places, Owning
    <3>3. InCall(n)  BY <2>2 DEF Checking, InCall
    <3> QED  BY <3>2, <3>3
  <2> QED  BY <1>2, <2>1, <2>2
<1>8. PICK x \in {"idle", "wait"}, c \in {n, NoOwner} :
         /\ Moves(t, x, c)
         /\ x = "idle" => c = NoOwner /\ InCall(n)
         /\ x = "wait" => c = n /\ \A v \in TorchThreads : current[v] # n
  BY <1>7
<1>9. /\ pc'[t] = x /\ current'[t] = c
      /\ \A u \in TorchThreads : u # t => pc'[u] = pc[u] /\ current'[u] = current[u]
  BY <1>8, MovesAlone
<1>10. /\ deferred' \in [TorchThreads -> Seq(Nat)]
       /\ deferred'[t] = Tail(deferred[t])
       /\ \A u \in TorchThreads : u # t => deferred'[u] = deferred[u]
  <2>1. deferred \in [TorchThreads -> Seq(Nat)]  BY DeferredFrees
  <2> QED  BY <1>2, <1>3, <2>1
<1>11. \A u \in TorchThreads : \A i \in DOMAIN deferred'[u] :
           \E j \in DOMAIN deferred[u] :
               /\ deferred'[u][i] = deferred[u][j] /\ deferred'[u][i] # n
               /\ u = t => j = i + 1
               /\ u # t => j = i
  <2> SUFFICES ASSUME NEW u \in TorchThreads, NEW i \in DOMAIN deferred'[u]
               PROVE  \E j \in DOMAIN deferred[u] :
                          /\ deferred'[u][i] = deferred[u][j] /\ deferred'[u][i] # n
                          /\ u = t => j = i + 1
                          /\ u # t => j = i
    OBVIOUS
  <2>1. CASE u = t
    <3>1. /\ i + 1 \in DOMAIN deferred[t] /\ i + 1 # 1
          /\ deferred'[u][i] = deferred[t][i + 1]
      BY <1>3, <1>10, <2>1
    <3> QED  BY <1>4, <2>1, <3>1
  <2>2. CASE u # t
    <3>1. i \in DOMAIN deferred[u] /\ deferred'[u][i] = deferred[u][i]
      BY <1>10, <2>2
    <3>2. owner[deferred[u][i]].creator = u  BY <3>1, DeferredFrees
    <3> QED  BY <1>4, <2>2, <3>1, <3>2
  <2> QED  BY <2>1, <2>2
<1>12. /\ \A m : Listed(m)' = Listed(m)
       /\ \A m : Queued(m)' => Queued(m)
       /\ \A m \in DOMAIN owner : m # n => (Queued(m) => Queued(m)')
  <2>1. \A m : Listed(m)' = Listed(m)  BY <1>5 DEF Listed
  <2>2. \A m : Queued(m)' => Queued(m)  BY <1>11 DEF Queued
  <2>3. ASSUME NEW m \in DOMAIN owner, m # n, Queued(m) PROVE Queued(m)'
    <3>1. PICK u \in TorchThreads : \E i \in DOMAIN deferred[u] : deferred[u][i] = m
      BY <2>3 DEF Queued
    <3>2. PICK i \in DOMAIN deferred[u] : deferred[u][i] = m  BY <3>1
    <3>3. CASE u = t
      <4>1. i # 1  BY <1>3, <2>3, <3>2, <3>3
      <4>2. i - 1 \in DOMAIN deferred'[t] /\ deferred'[t][i - 1] = m
        BY <1>3, <1>10, <3>2, <3>3, <4>1
      <4> QED  BY <4>2 DEF Queued
    <3>4. CASE u # t  BY <1>10, <3>2, <3>4 DEF Queued
    <3> QED  BY <3>3, <3>4
  <2> QED  BY <2>1, <2>2, <2>3
<1>13. \A m \in DOMAIN owner : (Active(m)' => Active(m)) /\ (Active(m) => Active(m)')
  <2>1. \A m \in DOMAIN owner : m # n => InCall(m)' = InCall(m)
    BY <1>4, <1>6, <1>8, <1>9 DEF InCall
  <2>2. ASSUME NEW m \in DOMAIN owner, m = n PROVE Active(m) /\ Active(m)'
    <3>1. Active(m)  BY <1>4, <2>2 DEF Active
    <3>2. CASE x = "idle"
      <4>1. InCall(m)'
        <5>1. PICK v \in TorchThreads : current[v] = n  BY <1>8, <3>2 DEF InCall
        <5>2. v # t  BY <1>4, <1>6, <5>1
        <5> QED  BY <1>9, <2>2, <5>1, <5>2 DEF InCall
      <4> QED  BY <3>1, <4>1 DEF Active
    <3>3. CASE x = "wait"
      <4>1. InCall(m)'  BY <1>8, <1>9, <2>2, <3>3 DEF InCall
      <4> QED  BY <3>1, <4>1 DEF Active
    <3> QED  BY <3>2, <3>3
  <2>3. ASSUME NEW m \in DOMAIN owner, m # n
        PROVE  (Active(m)' => Active(m)) /\ (Active(m) => Active(m)')
    BY <1>12, <2>1, <2>3 DEF Active
  <2>4. ASSUME NEW m \in DOMAIN owner
        PROVE  (Active(m)' => Active(m)) /\ (Active(m) => Active(m)')
    <3>1. CASE m = n  BY <2>2, <3>1
    <3>2. CASE m # n  BY <2>3, <3>2
    <3> QED  BY <3>1, <3>2
  <2> QED  BY <2>4
<1>14. MoveStep(t, x, c)
  <2>1. OwnersStay  BY <1>5 DEF OwnersStay
  <2>2. /\ owner' \in Seq(OwnerRecords) /\ Len(owner') = Len(owner)
        /\ \A m \in DOMAIN owner : owner'[m].live = owner[m].live
    BY <1>5, DeferredFrees
  <2>3. /\ terminal' \in BOOLEAN /\ (terminal => terminal')
        /\ (Changing => terminal' = terminal)
    BY <1>5, DeferredFrees
  <2>4. \A u \in TorchThreads : \A i \in DOMAIN deferred'[u] :
              /\ deferred'[u][i] \in DOMAIN owner
              /\ owner[deferred'[u][i]].kind = "compiler"
              /\ owner[deferred'[u][i]].creator = u
    BY <1>11, DeferredFrees
  <2>5. \A m \in DOMAIN owner : (Active(m)' => Active(m)) /\ (Active(m) => Active(m)' \/ terminal')
    BY <1>13
  <2>6. UNCHANGED <<graphVars, scopeVars, alive, customFailed>>  BY <1>2, <1>5
  <2>7. x \notin {"fence", "hand", "deferred", "destroy", "locked"} /\ Moves(t, x, c)
    BY <1>8
  <2> QED  BY <1>5, <1>10, <2>1, <2>2, <2>3, <2>4, <2>5, <2>6, <2>7 DEF MoveStep
<1>15. /\ TypesHold' /\ PointersAreApart' /\ CallsStand' /\ UnownedIsIdle'
       /\ UsedIsOwned' /\ TransitionIsClear'
  BY <1>14, MoveOwnerKeeps
<1>16. OwnersKnow'
  <2>1. \A m \in DOMAIN owner : Ending(m) => Ending(m)'
    BY <1>2, <1>9 DEF Ending
  <2> QED  BY <1>5, <1>12, <1>13, <2>1, KnowledgeStays
<1>17. WaysAreApart'
  <2>1. ASSUME NEW u \in TorchThreads, NEW i \in DOMAIN deferred'[u]
        PROVE  /\ ~Listed(deferred'[u][i])
               /\ \A v \in TorchThreads : current'[v] = deferred'[u][i] => pc'[v] = "deferred"
               /\ \A j \in DOMAIN deferred'[u] : deferred'[u][i] = deferred'[u][j] => i = j
    <3>1. PICK k \in DOMAIN deferred[u] :
              /\ deferred'[u][i] = deferred[u][k] /\ deferred'[u][i] # n
              /\ u = t => k = i + 1
              /\ u # t => k = i
      BY <1>11
    <3>2. /\ ~Listed(deferred[u][k]) /\ deferred[u][k] # NoOwner
          /\ \A v \in TorchThreads : current[v] = deferred[u][k] => pc[v] = "deferred"
          /\ \A j \in DOMAIN deferred[u] : deferred[u][k] = deferred[u][j] => k = j
      BY DeferredFrees
    <3>3. ASSUME NEW j \in DOMAIN deferred'[u], deferred'[u][i] = deferred'[u][j] PROVE i = j
      <4>1. PICK l \in DOMAIN deferred[u] :
              /\ deferred'[u][j] = deferred[u][l]
              /\ u = t => l = j + 1
              /\ u # t => l = j
        BY <1>11
      <4>2. k = l  BY <3>1, <3>2, <3>3, <4>1
      <4>3. CASE u = t
        <5>1. i \in Nat /\ j \in Nat  BY <1>3, <1>10, <4>3
        <5> QED  BY <3>1, <4>1, <4>2, <4>3, <5>1
      <4>4. CASE u # t  BY <3>1, <4>1, <4>2, <4>4
      <4> QED  BY <4>3, <4>4
    <3>4. \A v \in TorchThreads : current'[v] = deferred'[u][i] => pc'[v] = "deferred"
      BY <1>8, <1>9, <3>1, <3>2
    <3> QED  BY <3>1, <3>2, <3>3, <3>4
  <2>2. (\A r \in DOMAIN owners : owner[owners[r]].ptr = r)'
    BY <1>5 DEF NInv, WaysAreApart
  <2>3. (\A u \in TorchThreads, r \in DOMAIN owners : owners[r] # current[u])'
    <3>1. \A r \in DOMAIN owners : owners[r] # NoOwner /\ owners[r] # n
      BY <1>4 DEF NInv, TypesHold, NativeTypeOK, Listed
    <3> QED  BY <1>5, <1>9, <3>1 DEF NInv, WaysAreApart
  <2>4. (\A u, v \in TorchThreads : current[u] = current[v] /\ current[u] # NoOwner => u = v)'
    BY <1>8, <1>9 DEF NInv, WaysAreApart
  <2> QED  BY <1>12, <2>1, <2>2, <2>3, <2>4 DEF WaysAreApart
<1>18. StrandedIsNoticed'
  <2>1. \A u \in TorchThreads : ~alive[u] /\ deferred'[u] # <<>> => deferred[u] # <<>>
    BY <1>2, <1>10
  <2>2. OwnersStay  BY <1>5 DEF OwnersStay
  <2> QED  BY <1>2, <1>5, <1>8, <2>1, <2>2, StrandedFollows
<1> QED  BY <1>15, <1>16, <1>17, <1>18 DEF NInv

-----------------------------------------------------------------------------
(* The invariant.                                                           *)

\* It holds before the first allocation.
LEMMA NInvInit == NativeInit => NInv
<1> SUFFICES ASSUME NativeInit PROVE NInv
  OBVIOUS
<1> USE DEF NativeInit
<1>1. /\ DOMAIN owner = {} /\ owner \in Seq(OwnerRecords) /\ Len(owner) = 0
      /\ DOMAIN owners = {}
      /\ \A t \in TorchThreads : DOMAIN deferred[t] = {}
  OBVIOUS
<1>2. TypesHold
  <2>1. /\ deferred \in [TorchThreads -> Seq(Nat)]
        /\ alive \in [TorchThreads -> BOOLEAN] /\ terminal \in BOOLEAN
        /\ customFailed \in BOOLEAN
    <3>1. <<>> \in Seq(Nat)  OBVIOUS
    <3>2. deferred \in [TorchThreads -> Seq(Nat)]  BY <3>1
    <3>3. terminal \in BOOLEAN /\ customFailed \in BOOLEAN  BY Zenon
    <3>4. alive \in [TorchThreads -> BOOLEAN]  OBVIOUS
    <3> QED  BY <3>2, <3>3, <3>4
  <2>2. /\ custom \in [TorchThreads -> BOOLEAN] /\ compiler \in [TorchThreads -> BOOLEAN]
        /\ pc \in [TorchThreads -> Places]
        /\ current \in [TorchThreads -> Nat \cup {NoOwner}]
        /\ \A t \in TorchThreads : pc[t] \in Owning <=> current[t] # NoOwner
    BY DEF Places, Owning
  <2>3. owners = [p \in DOMAIN owners |-> owners[p]]
    BY <1>1
  <2>4. NativeTypeOK
    BY <1>1, NativeAssumption DEF NativeTypeOK
  <2> QED  BY <2>1, <2>2, <2>3, <2>4 DEF TypesHold
<1>3. WaysAreApart
  BY <1>1 DEF WaysAreApart
<1>4. PointersAreApart /\ OwnersKnow
  BY <1>1 DEF PointersAreApart, OwnersKnow
<1>5. CallsStand /\ UnownedIsIdle /\ UsedIsOwned
  BY DEF CallsStand, UnownedIsIdle, UsedIsOwned
<1>6. StrandedIsNoticed
  BY DEF StrandedIsNoticed
<1>7. TransitionIsClear
  BY DEF TransitionIsClear, Changing
<1> QED  BY <1>2, <1>3, <1>4, <1>5, <1>6, <1>7 DEF NInv

\* Where nothing changes it stays.
LEMMA NInvStutters == NInv /\ UNCHANGED nativeVars => NInv'
<1> SUFFICES ASSUME NInv, UNCHANGED nativeVars PROVE NInv'
  OBVIOUS
<1> USE DEF nativeVars, graphVars, ownerVars, scopeVars, proxyVars, flowVars
<1>1. TypesHold'  BY DEF NInv, TypesHold, NativeTypeOK
<1>2. WaysAreApart' /\ PointersAreApart'
  BY DEF NInv, WaysAreApart, PointersAreApart, Active, Listed, InCall, Queued
<1>3. OwnersKnow'
  BY DEF NInv, OwnersKnow, Knows, Ending, WaitFor, Active, Listed, InCall, Queued
<1>4. CallsStand' /\ UnownedIsIdle'
  BY DEF NInv, CallsStand, UnownedIsIdle, Mine
<1>5. UsedIsOwned'
  BY DEF NInv, UsedIsOwned, Active, Listed, InCall, Queued
<1>6. StrandedIsNoticed'  BY DEF NInv, StrandedIsNoticed, Mine
<1>7. TransitionIsClear'
  BY DEF NInv, TransitionIsClear, Changing, Active, Listed, InCall, Queued
<1> QED  BY <1>1, <1>2, <1>3, <1>4, <1>5, <1>6, <1>7 DEF NInv

\* Every step of every thread keeps it.
LEMMA NInvKept == NInv /\ [NativeNext]_nativeVars => NInv'
<1> SUFFICES ASSUME NInv, [NativeNext]_nativeVars PROVE NInv'
  OBVIOUS
<1>1. ASSUME NEW t \in TorchThreads, NEW p \in Pointers,
             \/ AllocCompiler(t, p) \/ AllocCustom(t, p) \/ AllocNative(t, p)
             \/ AllocRaw(t, p) \/ DeleteRaw(t, p) \/ Delete(t, p)
             \/ CollectScope(t, p) \/ HandOff(t, p)
      PROVE  NInv'
  <2>1. CASE AllocCompiler(t, p) \/ AllocCustom(t, p) \/ AllocNative(t, p)
    BY <2>1, AllocKeeps
  <2>2. CASE AllocRaw(t, p)  BY <2>2, AllocRawKeeps
  <2>3. CASE DeleteRaw(t, p)  BY <2>3, DeleteRawKeeps
  <2>4. CASE Delete(t, p)  BY <2>4, DeleteKeeps
  <2>5. CASE CollectScope(t, p)  BY <2>5, CollectScopeKeeps
  <2>6. CASE HandOff(t, p)  BY <2>6, HandOffKeeps
  <2> QED  BY <1>1, <2>1, <2>2, <2>3, <2>4, <2>5, <2>6
<1>2. ASSUME NEW t \in TorchThreads, NEW p \in Pointers, NEW q \in UseQueues \ {Queue},
             RecordStream(t, p, q)
      PROVE  NInv'
  BY <1>2, RecordStreamKeeps
<1>3. ASSUME NEW t \in TorchThreads,
             \/ Wait(t) \/ WaitFails(t) \/ Release(t) \/ ReleaseRogue(t) \/ ReleaseOwned(t)
             \/ ReleaseFails(t) \/ Defer(t) \/ CheckCreator(t) \/ Drain(t)
      PROVE  NInv'
  <2>1. CASE Wait(t)  BY <2>1, WaitKeeps
  <2>2. CASE WaitFails(t) \/ ReleaseFails(t)  BY <2>2, FailuresKeep
  <2>3. CASE Release(t) \/ ReleaseRogue(t) \/ ReleaseOwned(t)  BY <2>3, ReleasesKeep
  <2>4. CASE Defer(t)  BY <2>4, DeferKeeps
  <2>5. CASE CheckCreator(t)  BY <2>5, CheckCreatorKeeps
  <2>6. CASE Drain(t)  BY <2>6, DrainKeeps
  <2> QED  BY <1>3, <2>1, <2>2, <2>3, <2>4, <2>5, <2>6
<1>4. ASSUME NEW t \in TorchThreads,
             \/ ScopeBegin(t) \/ ScopeEnd(t) \/ CompilerBegin(t) \/ CompilerEnd(t)
             \/ TransitionBegin(t) \/ TransitionEnter(t) \/ TransitionEnd(t)
             \/ Exit(t) \/ ExitCheck(t)
      PROVE  NInv'
  <2>1. CASE ScopeBegin(t) \/ ScopeEnd(t) \/ CompilerBegin(t) \/ CompilerEnd(t)
    BY <2>1, ScopesKeep
  <2>2. CASE TransitionBegin(t)  BY <2>2, TransitionBeginKeeps
  <2>3. CASE TransitionEnter(t)  BY <2>3, TransitionEnterKeeps
  <2>4. CASE TransitionEnd(t)  BY <2>4, TransitionEndKeeps
  <2>5. CASE Exit(t) \/ ExitCheck(t)  BY <2>5, ExitKeeps
  <2> QED  BY <1>4, <2>1, <2>2, <2>3, <2>4, <2>5
<1>5. ASSUME NEW t \in Creators, GraphFails(t) PROVE NInv'
  BY <1>5, GraphFailsKeeps
<1>6. ASSUME NEW p \in Pointers, NEW q \in UseQueues, Submit(p, q) \/ Finish(p, q)
      PROVE  NInv'
  <2>1. CASE Submit(p, q)  BY <2>1, SubmitKeeps
  <2>2. CASE Finish(p, q)  BY <2>2, FinishKeeps
  <2> QED  BY <1>6, <2>1, <2>2
<1>7. CASE UNCHANGED nativeVars  BY <1>7, NInvStutters
<1> QED  BY <1>1, <1>2, <1>3, <1>4, <1>5, <1>6, <1>7 DEF NativeNext

\* The invariant holds throughout.
LEMMA NInvAlways == NativeSpec => []NInv
  BY NInvInit, NInvKept, PTL DEF NativeSpec

-----------------------------------------------------------------------------
(* What it means.                                                           *)

\* Whoever can free a pointer is an active owner of it.
LEMMA HoldersAreActive ==
    ASSUME NEW p \in Pointers, TypesHold, WaysAreApart
    PROVE  Holders(p) = {n \in DOMAIN owner : owner[n].ptr = p /\ Active(n)}
<1>1. ASSUME NEW n \in DOMAIN owner, owner[n].ptr = p
      PROVE  (p \in DOMAIN owners /\ owners[p] = n) <=> Listed(n)
  BY <1>1 DEF WaysAreApart, Listed
<1> QED  BY <1>1 DEF Holders, Active, InCall

\* Each piece of memory has one owner that can free it.
LEMMA OneOwner ==
    ASSUME NInv, NEW p \in Pointers
    PROVE  /\ Cardinality(Holders(p)) <= 1
           /\ memory[p] = "free" => Holders(p) = {}
           /\ memory[p] \in {"native", "custom", "live", "candidate", "rogue"} =>
                  Holders(p) # {} \/ terminal \/ customFailed
<1>1. Holders(p) = {n \in DOMAIN owner : owner[n].ptr = p /\ Active(n)}
  BY HoldersAreActive DEF NInv
<1>2. Cardinality(Holders(p)) <= 1
  <2>1. CASE Holders(p) = {}
    BY <2>1, FS_EmptySet
  <2>2. ASSUME NEW n \in Holders(p) PROVE Holders(p) = {n}
    BY <1>1, <2>2 DEF NInv, PointersAreApart
  <2> QED  BY <2>1, <2>2, FS_Singleton
<1>3. memory[p] = "free" => Holders(p) = {}
  <2> SUFFICES ASSUME NEW n \in DOMAIN owner, owner[n].ptr = p, Active(n)
               PROVE  memory[p] # "free"
    BY <1>1
  <2>1. owner[n].kind \in {"native", "custom", "compiler"}
    BY NamesAreOwners DEF NInv, OwnerRecords
  <2>2. memory[p] \in Usable(owner[n].kind)
    BY DEF NInv, OwnersKnow, Knows
  <2> QED  BY <2>1, <2>2 DEF Usable
<1>4. memory[p] \in {"native", "custom", "live", "candidate", "rogue"} =>
          Holders(p) # {} \/ terminal \/ customFailed
  BY <1>1 DEF NInv, UsedIsOwned
<1> QED  BY <1>2, <1>3, <1>4

\* Nothing waits for a transition to end in order to be freed.
LEMMA QuietTransition ==
    ASSUME NInv, transition # NoThread
    PROVE  /\ \A p \in Pointers :
                  memory[p] \notin {"custom", "raw", "live", "candidate", "rogue"}
           /\ \A t \in TorchThreads : ~custom[t] /\ ~compiler[t] /\ deferred[t] = <<>>
<1>1. /\ ~terminal /\ ~customFailed
      /\ \A t \in TorchThreads : ~custom[t] /\ ~compiler[t]
      /\ \A p \in Pointers : memory[p] # "raw"
      /\ \A n \in DOMAIN owner : Active(n) => owner[n].kind = "native"
  BY DEF NInv, TransitionIsClear, Changing
<1>2. ASSUME NEW p \in Pointers
      PROVE  memory[p] \notin {"custom", "raw", "live", "candidate", "rogue"}
  <2> SUFFICES ASSUME memory[p] \in {"custom", "live", "candidate", "rogue"} PROVE FALSE
    BY <1>1
  <2>1. PICK n \in DOMAIN owner : owner[n].ptr = p /\ Active(n)
    BY <1>1 DEF NInv, UsedIsOwned
  <2>2. memory[p] \in Usable("native")
    BY <1>1, <2>1 DEF NInv, OwnersKnow, Knows
  <2> QED  BY <2>2 DEF Usable
<1>3. ASSUME NEW t \in TorchThreads, deferred[t] # <<>> PROVE FALSE
  <2>1. deferred[t] \in Seq(Nat) /\ 1 \in DOMAIN deferred[t]
    BY <1>3 DEF NInv, TypesHold
  <2>2. /\ deferred[t][1] \in DOMAIN owner
        /\ owner[deferred[t][1]].kind = "compiler"
    BY <2>1 DEF NInv, TypesHold, NativeTypeOK
  <2>3. Active(deferred[t][1])
    BY <2>1 DEF Active, Queued
  <2> QED  BY <1>1, <2>2, <2>3
<1> QED  BY <1>1, <1>2, <1>3

\* What the invariant says of memory, owners and transitions.
LEMMA NInvMeans ==
    NInv => NativeTypeOK /\ FreedMemoryIsIdle /\ MemoryHasOneOwner /\ TransitionIsQuiescent
<1> SUFFICES ASSUME NInv
             PROVE  /\ NativeTypeOK /\ FreedMemoryIsIdle
                    /\ MemoryHasOneOwner /\ TransitionIsQuiescent
  OBVIOUS
<1>1. NativeTypeOK  BY DEF NInv, TypesHold
<1>2. FreedMemoryIsIdle  BY DEF NInv, UnownedIsIdle, FreedMemoryIsIdle
<1>3. MemoryHasOneOwner
  <2>1. ASSUME NEW t \in TorchThreads
        PROVE  \A i, j \in DOMAIN deferred[t] : deferred[t][i] = deferred[t][j] => i = j
    BY DEF NInv, WaysAreApart
  <2>2. ASSUME NEW t \in TorchThreads, Stranded(t) PROVE terminal
    BY <2>2 DEF Stranded, NInv, StrandedIsNoticed
  <2> QED  BY <2>1, <2>2, OneOwner DEF MemoryHasOneOwner
<1>4. TransitionIsQuiescent
  BY QuietTransition DEF TransitionIsQuiescent
<1> QED  BY <1>1, <1>2, <1>3, <1>4

\* Memory goes back only when no queue that was recorded for it still works on
\* it, whichever thread frees it and however late (wait_consumers, ~Owner,
\* proxy_delete, drain_deferred_frees).
THEOREM FreedMemoryStaysIdle == NativeSpec => []FreedMemoryIsIdle
  BY NInvAlways, NInvMeans, PTL

\* What is allocated has exactly one owner that can still free it, or the
\* process is terminal or a custom free has failed, and no deferral to a thread
\* that is gone goes unnoticed (proxy_delete, enqueue_deferred_free,
\* ThreadExitGuard).
THEOREM MemoryKeepsOneOwner == NativeSpec => []MemoryHasOneOwner
  BY NInvAlways, NInvMeans, PTL

\* No scope is open and no custom, raw or compiler memory is in use while the
\* hooks change, although the counters are read before the tables and deletions
\* go on meanwhile (allocation_owners_clear).
THEOREM TransitionsAreQuiescent == NativeSpec => []TransitionIsQuiescent
  BY NInvAlways, NInvMeans, PTL

\* Every variable keeps its type, and every deferred free waits at the thread
\* whose graph made the allocation.
THEOREM NativeTypeCorrect == NativeSpec => []NativeTypeOK
  BY NInvAlways, NInvMeans, PTL

-----------------------------------------------------------------------------
(* UsmHook: requests and refusals.                                           *)

\* What thread t was refused last, it may still ask for: its g_retry says so
\* as long as the hook that refused it is enabled.
Remembered(t) ==
    \/ refused[t] = Never
    \/ \E a \in [device : HookDevices, size : Nat, generation : Nat] :
           /\ refused[t] = [asked |-> {a}, times |-> 1]
           /\ a.generation <= generation
           /\ enabled /\ a.generation = generation => retry[t] = {a}

\* A call that waits for the mutex carries a request of its thread.
RequestsAreAsked ==
    \A t \in HookThreads : usmCall[t].at = "alloc" => usmCall[t].request \in Requests[t]

\* The exchange of requests and refusals: each thread asks for what it was refused.
HookInv ==
    /\ generation \in Nat
    /\ refused \in [HookThreads -> [asked : SUBSET [device : HookDevices, size : Nat,
                                                    generation : Nat],
                                    times : Nat]]
    /\ DOMAIN retry = HookThreads /\ DOMAIN usmCall = HookThreads
    /\ RequestsAreAsked
    /\ \A t \in HookThreads : Remembered(t)

\* Nothing was refused yet.
LEMMA HookInvInit == HookInit => HookInv
  BY DEF HookInit, HookInv, RequestsAreAsked, Remembered, Never, NoRetry, Idle

\* Steps that leave the exchange alone.
LEMMA Elsewhere ==
    ASSUME HookInv, UNCHANGED <<generation, enabled, callVars>>
    PROVE  HookInv'
  BY DEF HookInv, RequestsAreAsked, Remembered, callVars, Never, NoRetry

\* Steps of control.py that change the hook: a new generation, or the hook off.
LEMMA NewGeneration ==
    ASSUME HookInv, UNCHANGED callVars, generation' = generation + 1
    PROVE  HookInv'
<1>1. /\ generation' \in Nat /\ refused' = refused
      /\ RequestsAreAsked'
      /\ DOMAIN retry' = HookThreads /\ DOMAIN usmCall' = HookThreads
  BY DEF HookInv, callVars, RequestsAreAsked
<1>2. ASSUME NEW t \in HookThreads PROVE Remembered(t)'
  BY <1>1 DEF HookInv, Remembered, callVars, Never, NoRetry
<1> QED  BY <1>1, <1>2 DEF HookInv

\* A thread begins or ends a call; what it was refused stays.
LEMMA CallChanges ==
    ASSUME HookInv, UNCHANGED <<generation, enabled, retry, refused>>,
           NEW t \in HookThreads, NEW c, Enter(t, c),
           c.at = "alloc" => c.request \in Requests[t]
    PROVE  HookInv'
<1>1. RequestsAreAsked' /\ DOMAIN usmCall' = HookThreads
  BY DEF HookInv, RequestsAreAsked, Enter
<1> QED  BY <1>1 DEF HookInv, Remembered, Never, NoRetry

\* A call of a thread ends with an answer that is not a refusal.
LEMMA AnswerEnds ==
    ASSUME HookInv, UNCHANGED <<generation, enabled>>,
           NEW t \in HookThreads, Enter(t, Idle),
           refused' = [refused EXCEPT ![t] = Never],
           DOMAIN retry' = HookThreads,
           \A u \in HookThreads \ {t} : retry'[u] = retry[u]
    PROVE  HookInv'
<1>1. RequestsAreAsked' /\ DOMAIN usmCall' = HookThreads
  BY DEF HookInv, RequestsAreAsked, Enter, Idle
<1>2. refused' \in [HookThreads -> [asked : SUBSET [device : HookDevices, size : Nat,
                                                   generation : Nat],
                                    times : Nat]]
  BY DEF HookInv, Never, NoRetry
<1>3. ASSUME NEW u \in HookThreads PROVE Remembered(u)'
  <2>1. CASE u = t  BY <2>1 DEF HookInv, Remembered
  <2>2. CASE u # t
    BY <2>2 DEF HookInv, Remembered, Never, NoRetry
  <2> QED  BY <2>1, <2>2
<1> QED  BY <1>1, <1>2, <1>3 DEF HookInv

\* A step that takes no part in the exchange of any thread but t, whose
\* g_retry it only clears while the hook is off.
LEMMA RetryCleared ==
    ASSUME HookInv, UNCHANGED <<generation, enabled, refused>>, ~enabled,
           NEW t \in HookThreads, Enter(t, Idle), Forget(t)
    PROVE  HookInv'
<1>1. RequestsAreAsked' /\ DOMAIN usmCall' = HookThreads
  BY DEF HookInv, RequestsAreAsked, Enter, Idle
<1>2. DOMAIN retry' = HookThreads
  BY DEF HookInv, Forget
<1> QED  BY <1>1, <1>2 DEF HookInv, Remembered, Never, NoRetry

\* A refusal is the first of its request: had the request been the one refused
\* last, the thread would still remember it, and not be refused.
LEMMA RefusalIsFirst ==
    ASSUME HookInv, UNCHANGED <<generation, enabled>>, enabled,
           NEW t \in HookThreads, Enter(t, Idle),
           NEW r \in [device : HookDevices, size : Nat \ {0},
                      torch : BOOLEAN, owned : BOOLEAN],
           retry[t] # Asked(r), Refuse(t, r)
    PROVE  HookInv'
<1> DEFINE Exchange == [device : HookDevices, size : Nat, generation : Nat]
<1>1. PICK a \in Exchange : Asked(r) = {a} /\ a.generation = generation
  <2>1. [device |-> r.device, size |-> r.size, generation |-> generation] \in Exchange
    BY DEF HookInv
  <2> QED  BY <2>1 DEF Asked
<1>2. refused[t].asked # Asked(r)
  <2>1. CASE refused[t] = Never
    <3>1. refused[t].asked = {}
      BY <2>1 DEF Never, NoRetry
    <3> QED  BY <3>1, <1>1
  <2>2. CASE refused[t] # Never
    <3>1. PICK b \in Exchange :
            /\ refused[t] = [asked |-> {b}, times |-> 1]
            /\ enabled /\ b.generation = generation => retry[t] = {b}
      BY <2>2 DEF HookInv, Remembered
    <3>2. SUFFICES ASSUME refused[t].asked = {a} PROVE FALSE
      BY <1>1
    <3>3. b = a
      BY <3>1, <3>2
    <3> QED  BY <3>1, <3>3, <1>1
  <2> QED  BY <2>1, <2>2
<1>3. /\ refused' = [refused EXCEPT ![t] = [asked |-> {a}, times |-> 1]]
      /\ retry' = [retry EXCEPT ![t] = {a}]
  BY <1>1, <1>2 DEF Refuse
<1>4. RequestsAreAsked' /\ DOMAIN usmCall' = HookThreads
  BY DEF HookInv, RequestsAreAsked, Enter, Idle
<1>5. refused' \in [HookThreads -> [asked : SUBSET Exchange, times : Nat]]
  BY <1>1, <1>3 DEF HookInv
<1>6. ASSUME NEW u \in HookThreads PROVE Remembered(u)'
  <2>1. CASE u = t
    <3>1. refused'[u] = [asked |-> {a}, times |-> 1] /\ retry'[u] = {a}
      BY <2>1, <1>3 DEF HookInv
    <3>2. a.generation <= generation'
      BY <1>1 DEF HookInv
    <3> QED  BY <3>1, <3>2, <1>1 DEF Remembered
  <2>2. CASE u # t
    BY <2>2, <1>3 DEF HookInv, Remembered, Never, NoRetry
  <2> QED  BY <2>1, <2>2
<1> QED  BY <1>3, <1>4, <1>5, <1>6 DEF HookInv

\* What a thread may be asked to remember changes with its own calls only.
LEMMA RequestKeeps ==
    ASSUME HookInv, NEW t \in HookThreads, Alloc(t)
    PROVE  HookInv'
<1> DEFINE r == usmCall[t].request
<1>1. r \in [device : HookDevices, size : Nat \ {0}, torch : BOOLEAN, owned : BOOLEAN]
  BY HookAssumption DEF HookInv, RequestsAreAsked, Alloc, Locked
<1>2. /\ UNCHANGED <<generation, enabled>> /\ enabled /\ Enter(t, Idle)
      /\ \/ Fail(t) \/ Answer(t, r, FALSE) \/ Answer(t, r, TRUE)
         \/ retry[t] # Asked(r) /\ Refuse(t, r)
  BY DEF Alloc, stateVars
<1> HIDE DEF r
<1>3. CASE retry[t] # Asked(r) /\ Refuse(t, r)
  BY <1>1, <1>2, <1>3, RefusalIsFirst
<1>4. CASE Fail(t) \/ Answer(t, r, FALSE) \/ Answer(t, r, TRUE)
  <2>1. refused' = [refused EXCEPT ![t] = Never]
    BY <1>4 DEF Fail, Answer
  <2>2. \E x : retry' = [retry EXCEPT ![t] = x]
    BY <1>4 DEF Fail, Answer, Forget
  <2>3. /\ DOMAIN retry' = HookThreads
        /\ \A u \in HookThreads \ {t} : retry'[u] = retry[u]
    BY <2>2 DEF HookInv
  <2> QED  BY <1>2, <2>1, <2>3, AnswerEnds
<1> QED  BY <1>2, <1>3, <1>4

\* The steps that neither refuse a request nor answer one.
LEMMA CallsKeep ==
    ASSUME HookInv, NEW t \in HookThreads,
           \/ \E r \in Requests[t] : AllocCheck(t, r)
           \/ AllocPass(t) \/ AllocUnknown(t) \/ AllocShutdown(t)
           \/ \E p \in Cells : FreeCheck(t, p)
           \/ FreePass(t) \/ Free(t)
    PROVE  HookInv'
<1> USE DEF stateVars
<1>1. ASSUME NEW r \in Requests[t], AllocCheck(t, r) PROVE HookInv'
  <2>1. UNCHANGED <<generation, enabled, retry, refused>>
    BY <1>1 DEF AllocCheck
  <2>2. CASE UNCHANGED usmCall
    BY <2>1, <2>2, Elsewhere DEF callVars
  <2>3. CASE Enter(t, [at |-> IF enabled THEN "alloc" ELSE "pass", request |-> r])
    BY <2>1, <2>3, CallChanges
  <2> QED  BY <1>1, <2>2, <2>3 DEF AllocCheck
<1>2. CASE AllocPass(t)
  <2>1. /\ UNCHANGED <<generation, enabled, retry>> /\ Enter(t, Idle)
        /\ refused' = [refused EXCEPT ![t] = Never]
    BY <1>2 DEF AllocPass, Untracked
  <2>2. DOMAIN retry' = HookThreads /\ \A u \in HookThreads \ {t} : retry'[u] = retry[u]
    BY <2>1 DEF HookInv
  <2> QED  BY <2>1, <2>2, AnswerEnds
<1>3. CASE AllocUnknown(t)
  <2>1. /\ UNCHANGED <<generation, enabled>> /\ Enter(t, Idle) /\ Forget(t)
        /\ refused' = [refused EXCEPT ![t] = Never]
    BY <1>3 DEF AllocUnknown, Untracked
  <2>2. DOMAIN retry' = HookThreads /\ \A u \in HookThreads \ {t} : retry'[u] = retry[u]
    BY <2>1 DEF HookInv, Forget
  <2> QED  BY <2>1, <2>2, AnswerEnds
<1>4. CASE AllocShutdown(t)
  BY <1>4, CallChanges DEF AllocShutdown, Idle
<1>5. ASSUME NEW p \in Cells, FreeCheck(t, p) PROVE HookInv'
  BY <1>5, CallChanges DEF FreeCheck
<1>6. CASE FreePass(t)
  BY <1>6, CallChanges DEF FreePass, Idle
<1>7. CASE Free(t)
  <2>1. UNCHANGED <<generation, enabled, refused>> /\ Enter(t, Idle)
    BY <1>7 DEF Free
  <2>2. CASE enabled
    BY <1>7, <2>1, <2>2, CallChanges DEF Free, KeepRetry, Idle
  <2>3. CASE ~enabled
    BY <1>7, <2>1, <2>3, RetryCleared DEF Free, KeepRetry
  <2> QED  BY <2>2, <2>3
<1> QED  BY <1>1, <1>2, <1>3, <1>4, <1>5, <1>6, <1>7

\* The exchange of a refused thread outlasts every call and every change of the
\* context, on whatever thread.
LEMMA HookInvNext == HookInv /\ [HookNext]_hookVars => HookInv'
<1> SUFFICES ASSUME HookInv, [HookNext]_hookVars PROVE HookInv'
  OBVIOUS
<1>1. ASSUME NEW t \in HookThreads, Alloc(t) PROVE HookInv'
  BY <1>1, RequestKeeps
<1>2. ASSUME NEW t \in HookThreads,
             \/ \E r \in Requests[t] : AllocCheck(t, r)
             \/ AllocPass(t) \/ AllocUnknown(t) \/ AllocShutdown(t)
             \/ \E p \in Cells : FreeCheck(t, p)
             \/ FreePass(t) \/ Free(t)
      PROVE HookInv'
  BY <1>2, CallsKeep
<1>3. CASE \/ \E ds \in SUBSET HookDevices \ {{}} : InitDevices(ds)
           \/ EnableFails \/ RetireMarks \/ GiveUp \/ CloseContext
           \/ \E d \in HookDevices, some \in BOOLEAN : Publish(d, some)
           \/ UNCHANGED hookVars
  <2>1. UNCHANGED <<generation, enabled, callVars>>
    BY <1>3 DEF InitDevices, EnableFails, RetireMarks, GiveUp, CloseContext, Publish,
                hookVars, stateVars
  <2> QED  BY <2>1, Elsewhere
<1>4. CASE Enable \/ Disable \/ Retire
  <2>1. UNCHANGED callVars /\ generation' = generation + 1
    BY <1>4 DEF Enable, Disable, Retire
  <2> QED  BY <2>1, NewGeneration
<1> QED  BY <1>1, <1>2, <1>3, <1>4 DEF HookNext

\* A thread that repeats the request it was refused is not refused again while the
\* generation of the hook stays the same, for every number of threads, devices,
\* requests and contexts (the exchange of urUSMDeviceAlloc with PyTorch through
\* g_retry; a repetition in another generation is a new request).
THEOREM RetriesAnswered == HookSpec => []RetriesAreAnswered
<1>1. HookInv => RetriesAreAnswered
  BY DEF HookInv, Remembered, RetriesAreAnswered, Never
<1> QED  BY <1>1, HookInvInit, HookInvNext, PTL DEF HookSpec

-----------------------------------------------------------------------------
(* The ledger: what a device is charged with is the sum of the entries that *)
(* say so.                                                                  *)

\* The entries of the ledger that count towards the limit.
EntryCounted == {p \in DOMAIN ledger : ledger[p].accounted}

\* An entry of the ledger.
Entries == [size : Nat, device : HookDevices, accounted : BOOLEAN, retired : BOOLEAN,
            owned : BOOLEAN]

\* The sizes that entries ps of l add to device d.
Sizes(l, ps, d) == [p \in {q \in ps : l[q].device = d} |-> l[p].size]

\* The fold of the model is the sum of a function.
LEMMA BytesAreSizes ==
    ASSUME NEW l, NEW ps, NEW d, IsFiniteSet(ps)
    PROVE  Bytes(l, ps, d) = SumFunction(Sizes(l, ps, d))
<1>. DEFINE S == {p \in ps : l[p].device = d}
            f == Sizes(l, ps, d)
            g == CHOOSE h : h = [s \in SUBSET S |->
                      IF s = {} THEN 0 ELSE l[First(s)].size + h[s \ {First(s)}]]
            k == CHOOSE h : IsSum(h, f, SUBSET S)
<1>1. DOMAIN f = S /\ IsFiniteSet(S) /\ \A p \in S : f[p] = l[p].size
    BY FS_Subset DEF Sizes
<1>2. \A h : h = [s \in SUBSET S |->
                     IF s = {} THEN 0 ELSE l[First(s)].size + h[s \ {First(s)}]]
             <=> IsSum(h, f, SUBSET S)
    <2>1. \A s \in SUBSET S : s # {} => f[First(s)] = l[First(s)].size
        BY <1>1, FirstIsIn
    <2>. HIDE DEF f, S
    <2>. QED  BY <2>1 DEF IsSum
<1>3. IsSum(k, f, SUBSET S)
    BY <1>1, SumExists
<1>4. IsSum(g, f, SUBSET S)
    <2>. HIDE DEF f, S
    <2>. QED  BY <1>2, <1>3
<1>5. Bytes(l, ps, d) = g[S]
    BY DEF Bytes, MapThenSumSet, MapThenFoldSet, First
<1>6. PICK h : IsSum(h, f, SUBSET S) /\ SumFunction(f) = h[S]
    BY <1>1, SumIsSum
<1>7. g[S] = h[S]
    <2>1. SUBSET S \subseteq SUBSET S /\ \A x \in S : f[x] = f[x]
        OBVIOUS
    <2>. HIDE DEF f, S, g
    <2>. QED  BY <1>1, <1>4, <1>6, <2>1, SumAgrees
<1>. QED  BY <1>5, <1>6, <1>7

\* A set of entries with their sizes.
SizesOK(l, ps) == IsFiniteSet(ps) /\ \A p \in ps : l[p].size \in Nat

\* A number of bytes is a natural number.
LEMMA BytesType ==
    ASSUME NEW l, NEW ps, SizesOK(l, ps), NEW d
    PROVE  Bytes(l, ps, d) \in Nat
<1>. DEFINE f == Sizes(l, ps, d)
<1>1. IsFiniteSet(DOMAIN f) /\ \A p \in DOMAIN f : f[p] \in Nat
    BY FS_Subset DEF Sizes, SizesOK
<1>. HIDE DEF f
<1>2. SumFunction(f) \in Nat
    BY <1>1, SumOfNaturals
<1>. QED  BY <1>2, BytesAreSizes DEF f, SizesOK

\* No entries have no bytes.
LEMMA BytesOfNone ==
    ASSUME NEW l, NEW ps, ps = {}, NEW d
    PROVE  Bytes(l, ps, d) = 0
<1>1. DOMAIN Sizes(l, ps, d) = {} /\ IsFiniteSet(ps)
    BY FS_EmptySet DEF Sizes
<1>. QED  BY <1>1, SumOfNone, BytesAreSizes

\* Entries of the same devices and sizes have the same bytes.
LEMMA BytesAgree ==
    ASSUME NEW l, NEW m, NEW ps, IsFiniteSet(ps), NEW d,
           \A p \in ps : l[p].size = m[p].size /\ l[p].device = m[p].device
    PROVE  Bytes(l, ps, d) = Bytes(m, ps, d)
<1>. DEFINE f == Sizes(l, ps, d)  h == Sizes(m, ps, d)
<1>1. IsFiniteSet(DOMAIN f) /\ DOMAIN h = DOMAIN f /\ \A p \in DOMAIN f : f[p] = h[p]
    BY FS_Subset DEF Sizes
<1>. HIDE DEF f, h
<1>2. SumFunction(f) = SumFunction(h)
    BY <1>1, SumSame
<1>. QED  BY <1>2, BytesAreSizes DEF f, h

\* The bytes of two sets of entries add up.
LEMMA BytesOfBoth ==
    ASSUME NEW l, NEW ps, NEW qs, SizesOK(l, ps), SizesOK(l, qs), ps \cap qs = {}, NEW d
    PROVE  Bytes(l, ps \cup qs, d) = Bytes(l, ps, d) + Bytes(l, qs, d)
<1>. DEFINE S == {p \in ps \cup qs : l[p].device = d}
            U == {p \in ps : l[p].device = d}
            f == Sizes(l, ps \cup qs, d)
<1>1. IsFiniteSet(ps \cup qs) /\ IsFiniteSet(S) /\ IsFiniteSet(ps) /\ IsFiniteSet(qs)
    BY FS_Union, FS_Subset DEF SizesOK
<1>2. DOMAIN f = S /\ (\A x \in S : f[x] \in Int) /\ U \in SUBSET S
    BY DEF Sizes, SizesOK
<1>3. /\ Restrict(f, S) = f
      /\ Restrict(f, U) = Sizes(l, ps, d)
      /\ Restrict(f, S \ U) = Sizes(l, qs, d)
    <2>1. S \ U = {p \in qs : l[p].device = d}
        OBVIOUS
    <2>. QED  BY <2>1 DEF Restrict, Sizes
<1>. HIDE DEF S, U, f
<1>4. SumFunction(Restrict(f, S)) = SumFunction(Restrict(f, U)) + SumFunction(Restrict(f, S \ U))
    BY <1>1, <1>2, SumOfParts
<1>. QED  BY <1>1, <1>3, <1>4, BytesAreSizes DEF f

-----------------------------------------------------------------------------
(* The books, step by step.                                                 *)

\* The types of what the ledger says nothing about.
Flags ==
    /\ cells \in [Cells -> {"free", "held", "lost"}]
    /\ context \subseteq HookDevices
    /\ phase \in {"down", "up", "on", "failed", "off"}
    /\ enabled \in BOOLEAN /\ shutdown \in BOOLEAN /\ retiring \in BOOLEAN
    /\ generation \in Nat /\ duplicates \in Nat
    /\ hint \in [HookDevices -> BOOLEAN]
    /\ enabled => phase = "on"
    /\ phase = "down" => context = {}
    /\ retiring => ~enabled /\ phase \in {"on", "failed"}

\* Outside of an attached context no entry is charged.
Books ==
    /\ usage \in [HookDevices -> Nat]
    /\ DOMAIN ledger \subseteq Cells /\ IsFiniteSet(DOMAIN ledger)
    /\ \A p \in DOMAIN ledger : ledger[p] \in Entries
    /\ phase # "on" => EntryCounted = {}
    /\ phase # "off" => \A d \in HookDevices : usage[d] = Bytes(ledger, EntryCounted, d)
    /\ \A p \in EntryCounted : ledger[p].device \in context
    /\ retiredLive = Cardinality(Retired)

\* Books in order are what the two properties say.
LEMMA BooksAreCounted ==
    ASSUME Flags, Books
    PROVE  HookTypeOK /\ LedgerIsCounted
<1>1. IsFiniteSet(Retired)
    BY FS_Subset DEF Books, Retired
<1>2. retiredLive \in Nat
    BY <1>1, FS_CardinalityType DEF Books
<1>. QED  BY <1>2 DEF Flags, Books, HookTypeOK, LedgerIsCounted, EntryCounted, Here, Entries

\* The entries of a set of addresses have sizes.
LEMMA EntriesHaveSizes ==
    ASSUME Books, NEW ps \in SUBSET DOMAIN ledger
    PROVE  SizesOK(ledger, ps)
BY FS_Subset DEF Books, SizesOK, Entries

\* A step that touches no ledger.
LEMMA BooksUnchanged ==
    ASSUME Books, UNCHANGED <<usage, ledger, retiredLive, context, phase>>
    PROVE  Books'
BY DEF Books, EntryCounted, Retired

\* An entry is made.
LEMMA TrackKeepsBooks ==
    ASSUME Books, Flags, enabled, UNCHANGED <<context, phase>>, NEW p \in Cells,
           NEW r \in [device : HookDevices, size : Nat \ {0}, torch : BOOLEAN, owned : BOOLEAN],
           r.device \in context, Track(p, r)
    PROVE  Books'
<1>. DEFINE new == [size |-> r.size, device |-> r.device, accounted |-> TRUE,
                    retired |-> FALSE, owned |-> r.owned]
            D == DOMAIN ledger
<1>1. /\ ledger' = [q \in D \cup {p} |-> IF q = p THEN new ELSE ledger[q]]
      /\ usage' = Charged(usage, ledger', {p})
      /\ p \notin D /\ retiredLive' = retiredLive
    BY DEF Track
<1>2. new \in Entries /\ new.accounted /\ ~new.retired /\ new.size = r.size
      /\ new.device = r.device
    BY DEF Entries
<1>. HIDE DEF new
<1>3. /\ DOMAIN ledger' = D \cup {p} /\ ledger'[p] = new
      /\ \A q \in D : ledger'[q] = ledger[q]
    BY <1>1
<1>4. EntryCounted' = EntryCounted \cup {p} /\ Retired' = Retired /\ p \notin EntryCounted /\ EntryCounted \subseteq D
    BY <1>1, <1>2, <1>3 DEF EntryCounted, Retired
<1>5. IsFiniteSet(D \cup {p}) /\ IsFiniteSet(EntryCounted)
    BY <1>4, FS_AddElement, FS_Subset DEF Books
<1>6. SizesOK(ledger', EntryCounted) /\ SizesOK(ledger', {p})
    BY <1>2, <1>3, <1>4, <1>5, FS_Singleton DEF Books, SizesOK, Entries
<1>7. phase = "on"
    BY DEF Flags
<1>8. ASSUME NEW d \in HookDevices
      PROVE  usage'[d] = Bytes(ledger', EntryCounted', d) /\ usage'[d] \in Nat
    <2>1. usage'[d] = usage[d] + Bytes(ledger', {p}, d)
        BY <1>1 DEF Charged
    <2>2. usage[d] = Bytes(ledger, EntryCounted, d) /\ usage[d] \in Nat
        BY <1>7 DEF Books
    <2>3. Bytes(ledger, EntryCounted, d) = Bytes(ledger', EntryCounted, d)
        BY <1>3, <1>4, <1>5, BytesAgree
    <2>4. Bytes(ledger', EntryCounted \cup {p}, d)
            = Bytes(ledger', EntryCounted, d) + Bytes(ledger', {p}, d)
        BY <1>4, <1>6, BytesOfBoth
    <2>5. Bytes(ledger', {p}, d) \in Nat
        BY <1>6, BytesType
    <2>. QED  BY <1>4, <2>1, <2>2, <2>3, <2>4, <2>5
<1>9. usage' \in [HookDevices -> Nat]
    BY <1>1, <1>8 DEF Charged
<1>10. \A q \in EntryCounted' : ledger'[q].device \in context'
    BY <1>2, <1>3, <1>4 DEF Books
<1>11. DOMAIN ledger' \subseteq Cells /\ \A q \in DOMAIN ledger' : ledger'[q] \in Entries
    BY <1>2, <1>3 DEF Books
<1>12. retiredLive' = Cardinality(Retired')
    BY <1>1, <1>4 DEF Books
<1>. QED  BY <1>3, <1>5, <1>7, <1>8, <1>9, <1>10, <1>11, <1>12 DEF Books

\* An entry is removed.
LEMMA RemoveKeepsBooks ==
    ASSUME Books, Flags, UNCHANGED <<context, phase>>, NEW p, Remove(p)
    PROVE  Books'
<1>1. CASE p \notin DOMAIN ledger
    BY <1>1, BooksUnchanged DEF Remove, ledgerVars
<1>2. CASE p \in DOMAIN ledger
    <2>. DEFINE D == DOMAIN ledger  R == Released(ledger[p], p)
    <2>1. /\ usage' = Credited(usage, ledger, R)
          /\ retiredLive' = retiredLive - (IF ledger[p].retired THEN 1 ELSE 0)
          /\ ledger' = [q \in D \ {p} |-> ledger[q]]
        BY <1>2 DEF Remove
    <2>2. DOMAIN ledger' = D \ {p} /\ \A q \in D \ {p} : ledger'[q] = ledger[q]
        BY <2>1
    <2>3. R = (IF ledger[p].accounted THEN {p} ELSE {}) /\ R \subseteq EntryCounted
        BY <1>2 DEF Released, Here, Books, EntryCounted
    <2>4. EntryCounted' = EntryCounted \ R /\ Retired' = Retired \ {p} /\ EntryCounted \subseteq D
        BY <2>2, <2>3 DEF EntryCounted, Retired
    <2>. HIDE DEF R
    <2>5. SizesOK(ledger, R) /\ SizesOK(ledger, EntryCounted \ R) /\ SizesOK(ledger, EntryCounted)
        BY <2>3, <2>4, EntriesHaveSizes
    <2>6. IsFiniteSet(EntryCounted \ R) /\ IsFiniteSet(D \ {p}) /\ IsFiniteSet(Retired)
        BY <2>4, FS_Subset DEF Books, Retired
    <2>7. ASSUME NEW d \in HookDevices
          PROVE  /\ usage'[d] \in Nat
                 /\ phase # "off" => usage'[d] = Bytes(ledger', EntryCounted', d)
        <3>1. usage'[d] = LET n == Bytes(ledger, R, d)
                          IN  IF n < usage[d] THEN usage[d] - n ELSE 0
            BY <2>1 DEF Credited
        <3>2. Bytes(ledger, R, d) \in Nat /\ Bytes(ledger, EntryCounted \ R, d) \in Nat
            BY <2>5, BytesType
        <3>3. Bytes(ledger, R \cup (EntryCounted \ R), d)
                = Bytes(ledger, R, d) + Bytes(ledger, EntryCounted \ R, d)
            BY <2>5, BytesOfBoth
        <3>4. R \cup (EntryCounted \ R) = EntryCounted
            BY <2>3
        <3>5. Bytes(ledger, EntryCounted \ R, d) = Bytes(ledger', EntryCounted \ R, d)
            <4>1. \A q \in EntryCounted \ R : q \in D \ {p}
                BY <2>3, <2>4 DEF EntryCounted
            <4>. QED  BY <2>2, <2>6, <4>1, BytesAgree
        <3>6. usage[d] \in Nat /\ (phase # "off" => usage[d] = Bytes(ledger, EntryCounted, d))
            BY DEF Books
        <3>. DEFINE n == Bytes(ledger, R, d)  b == Bytes(ledger, EntryCounted \ R, d)  u == usage[d]
        <3>7. /\ usage'[d] = IF n < u THEN u - n ELSE 0
              /\ n \in Nat /\ b \in Nat /\ u \in Nat
              /\ phase # "off" => u = n + b
            BY <3>1, <3>2, <3>3, <3>4, <3>6
        <3>8. b = Bytes(ledger', EntryCounted', d)
            BY <2>4, <3>5
        <3>. HIDE DEF n, b, u
        <3>. QED  BY <3>7, <3>8
    <2>8. usage' \in [HookDevices -> Nat]
        BY <2>1, <2>7 DEF Credited
    <2>9. retiredLive' = Cardinality(Retired')
        <3>1. CASE ledger[p].retired
            <4>1. p \in Retired
                BY <1>2, <3>1 DEF Retired
            <4>2. Cardinality(Retired \ {p}) = Cardinality(Retired) - 1
                BY <2>6, <4>1, FS_RemoveElement
            <4>3. (IF ledger[p].retired THEN 1 ELSE 0) = 1
                BY <3>1, Zenon
            <4>4. retiredLive = Cardinality(Retired) /\ retiredLive' = retiredLive - 1
                BY <2>1, <4>3, Zenon DEF Books
            <4>. QED  BY <2>4, <4>2, <4>4, Zenon
        <3>2. CASE ~ledger[p].retired
            <4>1. Retired \ {p} = Retired
                BY <3>2 DEF Retired
            <4>2. Cardinality(Retired) \in Nat
                BY <2>6, FS_CardinalityType
            <4>3. (IF ledger[p].retired THEN 1 ELSE 0) = 0
                BY <3>2, Zenon
            <4>4. retiredLive = Cardinality(Retired) /\ retiredLive' = retiredLive - 0
                BY <2>1, <4>3, Zenon DEF Books
            <4>5. Retired' = Retired
                BY <2>4, <4>1
            <4>. QED  BY <4>2, <4>4, <4>5
        <3>. QED  BY <3>1, <3>2
    <2>10. \A q \in EntryCounted' : ledger'[q].device \in context'
        BY <2>2, <2>3, <2>4 DEF Books, EntryCounted
    <2>11. DOMAIN ledger' \subseteq Cells /\ \A q \in DOMAIN ledger' : ledger'[q] \in Entries
        BY <2>2 DEF Books
    <2>12. phase' # "on" => EntryCounted' = {}
        BY <2>4 DEF Books
    <2>. QED  BY <2>2, <2>6, <2>7, <2>8, <2>9, <2>10, <2>11, <2>12 DEF Books
<1>. QED  BY <1>1, <1>2

\* Marking entries changes neither where they are nor how large.
LEMMA MarkKeepsSizes ==
    ASSUME NEW l, \A p \in DOMAIN l : l[p] \in Entries, NEW ps, NEW b \in BOOLEAN
    PROVE  /\ DOMAIN Mark(l, ps, b) = DOMAIN l
           /\ \A p \in DOMAIN l :
                 /\ Mark(l, ps, b)[p] \in Entries
                 /\ Mark(l, ps, b)[p].size = l[p].size
                 /\ Mark(l, ps, b)[p].device = l[p].device
                 /\ Mark(l, ps, b)[p].retired = l[p].retired
                 /\ p \in ps => Mark(l, ps, b)[p].accounted = b
                 /\ p \notin ps => Mark(l, ps, b)[p].accounted = l[p].accounted
BY DEF Mark, Entries

\* A new context, or none: nothing is charged to it.
LEMMA NothingIsCharged ==
    ASSUME Books, EntryCounted = {}, UNCHANGED <<ledger, retiredLive>>, phase' # "on",
           usage' = [d \in HookDevices |-> 0]
    PROVE  Books'
<1>1. EntryCounted' = {} /\ Retired' = Retired
    BY DEF EntryCounted, Retired
<1>2. \A d \in HookDevices : Bytes(ledger', EntryCounted', d) = 0
    BY <1>1, BytesOfNone
<1>. QED  BY <1>1, <1>2 DEF Books

\* The context takes over the entries that wait.
LEMMA EnableKeepsBooks ==
    ASSUME Books, Enable
    PROVE  Books'
<1>1. /\ ledger' = Mark(ledger, Waiting, TRUE)
      /\ usage' = Charged(usage, ledger, Waiting)
      /\ phase = "up" /\ phase' = "on" /\ Here(Waiting) = Waiting
      /\ UNCHANGED <<context, retiredLive>>
    BY DEF Enable
<1>2. Waiting \in SUBSET DOMAIN ledger /\ EntryCounted = {}
    BY <1>1 DEF Waiting, Retired, Books
<1>3. /\ DOMAIN ledger' = DOMAIN ledger
      /\ \A p \in DOMAIN ledger :
            /\ ledger'[p] \in Entries
            /\ ledger'[p].size = ledger[p].size
            /\ ledger'[p].device = ledger[p].device
            /\ ledger'[p].retired = ledger[p].retired
            /\ p \in Waiting => ledger'[p].accounted = TRUE
            /\ p \notin Waiting => ledger'[p].accounted = ledger[p].accounted
    <2>. DEFINE m == Mark(ledger, Waiting, TRUE)
    <2>1. \A p \in DOMAIN ledger : ledger[p] \in Entries
        BY DEF Books
    <2>2. /\ DOMAIN m = DOMAIN ledger
          /\ \A p \in DOMAIN ledger :
                /\ m[p] \in Entries
                /\ m[p].size = ledger[p].size
                /\ m[p].device = ledger[p].device
                /\ m[p].retired = ledger[p].retired
                /\ p \in Waiting => m[p].accounted = TRUE
                /\ p \notin Waiting => m[p].accounted = ledger[p].accounted
        BY <2>1, MarkKeepsSizes
    <2>. HIDE DEF m
    <2>3. ledger' = m
        BY <1>1 DEF m
    <2>. QED  BY <2>2, <2>3
<1>4. EntryCounted' = Waiting /\ Retired' = Retired
    BY <1>2, <1>3 DEF EntryCounted, Retired
<1>5. SizesOK(ledger, Waiting)
    BY <1>2, EntriesHaveSizes
<1>6. ASSUME NEW d \in HookDevices
      PROVE  usage'[d] \in Nat /\ usage'[d] = Bytes(ledger', EntryCounted', d)
    <2>1. usage'[d] = usage[d] + Bytes(ledger, Waiting, d)
        BY <1>1 DEF Charged
    <2>2. usage[d] = 0
        BY <1>1, <1>2, BytesOfNone DEF Books
    <2>3. Bytes(ledger, Waiting, d) \in Nat
        BY <1>5, BytesType
    <2>4. Bytes(ledger, Waiting, d) = Bytes(ledger', Waiting, d)
        BY <1>2, <1>3, <1>5, BytesAgree DEF SizesOK
    <2>. QED  BY <1>4, <2>1, <2>2, <2>3, <2>4
<1>7. usage' \in [HookDevices -> Nat]
    BY <1>1, <1>6 DEF Charged
<1>8. \A p \in EntryCounted' : ledger'[p].device \in context'
    BY <1>1, <1>2, <1>3, <1>4 DEF Here
<1>. QED  BY <1>1, <1>3, <1>4, <1>6, <1>7, <1>8 DEF Books

\* What was taken over of an adoption that fails is given back.
LEMMA EnableFailsKeepsBooks ==
    ASSUME Books, EnableFails
    PROVE  Books'
<1>1. PICK ps \in SUBSET Here(Waiting) :
          RollBack(Mark(ledger, ps, TRUE), Charged(usage, ledger, ps))
    BY DEF EnableFails
<1>2. phase = "up" /\ phase' = "failed" /\ UNCHANGED <<context, retiredLive>>
    BY DEF EnableFails
<1>3. ps \in SUBSET DOMAIN ledger /\ EntryCounted = {} /\ ps \subseteq Here(Retired)
    BY <1>2 DEF Waiting, Retired, Here, Books
<1>. DEFINE l == Mark(ledger, ps, TRUE)
            u == Charged(usage, ledger, ps)
            qs == {p \in Here(Retired) : l[p].accounted}
<1>4. /\ DOMAIN l = DOMAIN ledger
      /\ \A p \in DOMAIN ledger :
            /\ l[p] \in Entries
            /\ l[p].size = ledger[p].size
            /\ l[p].device = ledger[p].device
            /\ l[p].retired = ledger[p].retired
            /\ p \in ps => l[p].accounted = TRUE
            /\ p \notin ps => l[p].accounted = ledger[p].accounted
    BY MarkKeepsSizes DEF Books
<1>5. ledger' = Mark(l, qs, FALSE) /\ usage' = Credited(u, l, qs)
    BY <1>1, Zenon DEF RollBack
<1>6. qs = ps
    BY <1>3, <1>4 DEF Here, Retired, EntryCounted
<1>. HIDE DEF l, qs
<1>7. /\ DOMAIN ledger' = DOMAIN ledger
      /\ \A p \in DOMAIN ledger :
            /\ ledger'[p] \in Entries
            /\ ledger'[p].retired = ledger[p].retired
            /\ p \in ps => ledger'[p].accounted = FALSE
            /\ p \notin ps => ledger'[p].accounted = l[p].accounted
    <2>. DEFINE m == Mark(l, ps, FALSE)
    <2>1. \A p \in DOMAIN l : l[p] \in Entries
        BY <1>4
    <2>2. /\ DOMAIN m = DOMAIN l
          /\ \A p \in DOMAIN l :
                /\ m[p] \in Entries
                /\ m[p].size = l[p].size
                /\ m[p].device = l[p].device
                /\ m[p].retired = l[p].retired
                /\ p \in ps => m[p].accounted = FALSE
                /\ p \notin ps => m[p].accounted = l[p].accounted
        BY <2>1, MarkKeepsSizes
    <2>. HIDE DEF m
    <2>3. ledger' = m
        BY <1>5, <1>6 DEF m
    <2>. QED  BY <1>4, <2>2, <2>3
<1>8. EntryCounted' = {} /\ Retired' = Retired
    BY <1>3, <1>4, <1>7 DEF EntryCounted, Retired
<1>9. ASSUME NEW d \in HookDevices
      PROVE  usage'[d] = 0
    <2>1. u[d] = usage[d] + Bytes(ledger, ps, d)
        BY DEF Charged
    <2>2. usage[d] = 0
        BY <1>2, <1>3, BytesOfNone DEF Books
    <2>3. SizesOK(ledger, ps)
        BY <1>3, EntriesHaveSizes
    <2>4. Bytes(ledger, ps, d) \in Nat
        BY <2>3, BytesType
    <2>5. Bytes(ledger, ps, d) = Bytes(l, ps, d)
        BY <1>3, <1>4, <2>3, BytesAgree DEF SizesOK
    <2>6. usage'[d] = LET n == Bytes(l, ps, d) IN IF n < u[d] THEN u[d] - n ELSE 0
        BY <1>5, <1>6 DEF Credited
    <2>7. u[d] = Bytes(l, ps, d) /\ Bytes(l, ps, d) \in Nat
        BY <2>1, <2>2, <2>4, <2>5
    <2>. HIDE DEF u
    <2>. QED  BY <2>6, <2>7
<1>10. usage' \in [HookDevices -> Nat]
    BY <1>5, <1>9 DEF Credited
<1>11. \A d \in HookDevices : usage'[d] = Bytes(ledger', EntryCounted', d)
    BY <1>8, <1>9, BytesOfNone
<1>. QED  BY <1>2, <1>7, <1>8, <1>10, <1>11 DEF Books

\* Every entry is retired.
LEMMA RetireMarksKeepsBooks ==
    ASSUME Books, RetireMarks
    PROVE  Books'
<1>1. /\ ledger' = [p \in DOMAIN ledger |->
                       [ledger[p] EXCEPT !.retired = TRUE, !.accounted = FALSE]]
      /\ retiredLive' = retiredLive + Cardinality(DOMAIN ledger \ Retired)
      /\ phase' = "off" /\ usage' = usage
    BY DEF RetireMarks
<1>2. /\ DOMAIN ledger' = DOMAIN ledger
      /\ \A p \in DOMAIN ledger :
            ledger'[p] \in Entries /\ ledger'[p].retired /\ ~ledger'[p].accounted
    BY <1>1 DEF Books, Entries
<1>3. EntryCounted' = {} /\ Retired' = DOMAIN ledger
    BY <1>2 DEF EntryCounted, Retired
<1>4. Cardinality(DOMAIN ledger) = Cardinality(Retired) + Cardinality(DOMAIN ledger \ Retired)
    <2>. DEFINE A == Retired  B == DOMAIN ledger \ Retired
    <2>1. A \cup B = DOMAIN ledger /\ A \cap B = {} /\ IsFiniteSet(A) /\ IsFiniteSet(B)
        BY FS_Subset DEF Books, Retired
    <2>. HIDE DEF A, B
    <2>2. Cardinality(A \cup B) = Cardinality(A) + Cardinality(B) - 0
        BY <2>1, FS_Union, FS_EmptySet
    <2>3. Cardinality(A) \in Nat /\ Cardinality(B) \in Nat
        BY <2>1, FS_CardinalityType
    <2>. QED  BY <2>1, <2>2, <2>3 DEF A, B
<1>5. retiredLive' = Cardinality(Retired')
    BY <1>1, <1>3, <1>4 DEF Books
<1>. QED  BY <1>1, <1>2, <1>3, <1>5 DEF Books

\* Every step keeps the types.
LEMMA FlagsNext ==
    ASSUME Flags, HookNext
    PROVE  Flags'
<1>1. ASSUME NEW t \in HookThreads, NEW r \in Requests[t], AllocCheck(t, r) PROVE Flags'
    BY <1>1 DEF AllocCheck, Flags, stateVars, ledgerVars
<1>2. ASSUME NEW t \in HookThreads,
             AllocPass(t) \/ AllocUnknown(t) \/ AllocShutdown(t) \/ FreePass(t)
      PROVE  Flags'
    BY <1>2 DEF AllocPass, AllocUnknown, AllocShutdown, FreePass, Untracked, Become, Flags,
                stateVars, ledgerVars
<1>3. ASSUME NEW t \in HookThreads, Alloc(t) PROVE Flags'
    <2>. DEFINE r == usmCall[t].request
    <2>1. UNCHANGED stateVars
        BY <1>3 DEF Alloc
    <2>2. CASE Fail(t)
        BY <2>1, <2>2 DEF Fail, Flags, stateVars, ledgerVars
    <2>3. CASE Refuse(t, r)
        BY <2>1, <2>3 DEF Refuse, Flags, stateVars, ledgerVars
    <2>4. ASSUME NEW arms \in BOOLEAN, Answer(t, r, arms) PROVE Flags'
        <3>1. \/ UNCHANGED <<cells, duplicates>>
              \/ \E p \in Cells : /\ \/ Become(p, "held") /\ duplicates' = duplicates
                                     \/ Become(p, "lost") /\ duplicates' = duplicates + 1
            BY <2>4 DEF Answer, Track, Duplicate, ledgerVars
        <3>2. hint' = hint
            BY <2>4 DEF Answer
        <3>. QED  BY <2>1, <3>1, <3>2 DEF Become, Flags, stateVars
    <2>. QED  BY <1>3, <2>2, <2>3, <2>4 DEF Alloc
<1>4. ASSUME NEW t \in HookThreads, NEW p \in Cells, FreeCheck(t, p) PROVE Flags'
    BY <1>4 DEF FreeCheck, Flags, stateVars, ledgerVars
<1>5. ASSUME NEW t \in HookThreads, Free(t) PROVE Flags'
    BY <1>5 DEF Free, Remove, Become, Flags, stateVars, ledgerVars
<1>6. ASSUME NEW ds \in SUBSET HookDevices, InitDevices(ds) PROVE Flags'
    BY <1>6 DEF InitDevices, Flags
<1>7. CASE Enable
    <2>1. /\ enabled' \in BOOLEAN /\ shutdown' \in BOOLEAN /\ retiring' \in BOOLEAN
          /\ phase' = "on" /\ generation' = generation + 1
          /\ UNCHANGED <<cells, context, duplicates, retiring>> /\ NoHints /\ phase = "up"
        BY <1>7, Zenon DEF Enable, Flags
    <2>. QED  BY <2>1 DEF NoHints, Flags
<1>8. CASE EnableFails \/ GiveUp
    <2>1. /\ phase # "on" /\ phase' \in {"failed", "off"} /\ ~retiring
          /\ UNCHANGED <<cells, context, duplicates, enabled, shutdown, retiring, hint,
                         generation>>
        BY <1>8 DEF EnableFails, GiveUp, ledgerVars, Flags
    <2>. QED  BY <2>1 DEF Flags
<1>9. CASE Disable
    <2>1. /\ enabled' \in BOOLEAN /\ shutdown' \in BOOLEAN /\ retiring' \in BOOLEAN
          /\ ~enabled' /\ ~retiring' /\ phase' = "off" /\ generation' = generation + 1
          /\ UNCHANGED <<cells, context, duplicates>> /\ NoHints
        BY <1>9, Zenon DEF Disable, Attached, Flags, ledgerVars
    <2>. QED  BY <2>1 DEF NoHints, Flags
<1>10. CASE Retire
    <2>1. /\ enabled' \in BOOLEAN /\ shutdown' \in BOOLEAN /\ retiring' \in BOOLEAN
          /\ ~enabled' /\ generation' = generation + 1
          /\ UNCHANGED <<cells, context, duplicates, phase>> /\ NoHints
          /\ phase \in {"on", "failed"}
        BY <1>10, Zenon DEF Retire, Attached, Flags, ledgerVars
    <2>. QED  BY <2>1 DEF NoHints, Flags
<1>11. CASE RetireMarks
    <2>1. enabled' \in BOOLEAN /\ shutdown' \in BOOLEAN /\ retiring' \in BOOLEAN
        BY <1>11, Zenon DEF RetireMarks, Flags
    <2>. QED  BY <1>11, <2>1 DEF RetireMarks, Flags
<1>12. CASE CloseContext
    BY <1>12 DEF CloseContext, Flags
<1>13. ASSUME NEW d \in HookDevices, NEW some \in BOOLEAN, Publish(d, some) PROVE Flags'
    BY <1>13 DEF Publish, Flags, ledgerVars, stateVars
<1>. QED  BY <1>1, <1>2, <1>3, <1>4, <1>5, <1>6, <1>7, <1>8, <1>9, <1>10,
          <1>11, <1>12, <1>13 DEF HookNext

\* Every step keeps the books in order.
LEMMA BooksNext ==
    ASSUME HookInv, Flags, Books, HookNext
    PROVE  Books'
<1>1. ASSUME NEW t \in HookThreads,
             \/ \E r \in Requests[t] : AllocCheck(t, r)
             \/ AllocPass(t) \/ AllocUnknown(t) \/ AllocShutdown(t) \/ FreePass(t)
             \/ \E p \in Cells : FreeCheck(t, p)
      PROVE  Books'
    <2>1. UNCHANGED <<usage, ledger, retiredLive, context, phase>>
        BY <1>1 DEF AllocCheck, AllocPass, AllocUnknown, AllocShutdown, FreePass, FreeCheck,
                    Untracked, ledgerVars, stateVars
    <2>. QED  BY <2>1, BooksUnchanged
<1>2. ASSUME NEW t \in HookThreads, Alloc(t) PROVE Books'
    <2>. DEFINE r == usmCall[t].request
    <2>1. /\ r \in [device : HookDevices, size : Nat \ {0}, torch : BOOLEAN, owned : BOOLEAN]
          /\ r.device \in context /\ enabled /\ UNCHANGED <<context, phase>>
        BY <1>2, HookAssumption DEF HookInv, RequestsAreAsked, Alloc, Locked, stateVars
    <2>2. \/ UNCHANGED <<usage, ledger, retiredLive>>
          \/ \E p \in Cells : Track(p, r)
        BY <1>2 DEF Alloc, Fail, Refuse, Answer, Duplicate, ledgerVars
    <2>. HIDE DEF r
    <2>3. ASSUME NEW p \in Cells, Track(p, r) PROVE Books'
        BY <2>1, <2>3, TrackKeepsBooks
    <2>. QED  BY <2>1, <2>2, <2>3, BooksUnchanged
<1>3. ASSUME NEW t \in HookThreads, Free(t) PROVE Books'
    <2>1. UNCHANGED <<context, phase>>
        BY <1>3 DEF Free, stateVars
    <2>2. Remove(usmCall[t].ptr) \/ UNCHANGED ledgerVars
        BY <1>3 DEF Free
    <2>. QED  BY <2>1, <2>2, RemoveKeepsBooks, BooksUnchanged DEF ledgerVars
<1>4. ASSUME NEW ds \in SUBSET HookDevices, InitDevices(ds) PROVE Books'
    <2>1. EntryCounted = {}
        BY <1>4 DEF InitDevices, Books
    <2>. QED  BY <1>4, <2>1, NothingIsCharged DEF InitDevices
<1>5. CASE CloseContext
    <2>1. EntryCounted = {}
        BY <1>5 DEF CloseContext, Books
    <2>. QED  BY <1>5, <2>1, NothingIsCharged DEF CloseContext
<1>6. CASE Enable
    BY <1>6, EnableKeepsBooks
<1>7. CASE EnableFails
    BY <1>7, EnableFailsKeepsBooks
<1>8. CASE RetireMarks
    BY <1>8, RetireMarksKeepsBooks
<1>9. CASE Retire \/ \E d \in HookDevices, some \in BOOLEAN : Publish(d, some)
    <2>1. UNCHANGED <<usage, ledger, retiredLive, context, phase>>
        BY <1>9 DEF Retire, Publish, ledgerVars, stateVars
    <2>. QED  BY <2>1, BooksUnchanged
<1>10. CASE Disable \/ GiveUp
    <2>1. UNCHANGED <<usage, ledger, retiredLive, context>> /\ phase' = "off"
        BY <1>10 DEF Disable, GiveUp, ledgerVars
    <2>2. EntryCounted = {}
        BY <1>10 DEF Disable, GiveUp, Books, EntryCounted
    <2>3. EntryCounted' = EntryCounted /\ Retired' = Retired
        BY <2>1 DEF EntryCounted, Retired
    <2>. QED  BY <2>1, <2>2, <2>3 DEF Books
<1>. QED  BY <1>1, <1>2, <1>3, <1>4, <1>5, <1>6, <1>7, <1>8, <1>9, <1>10 DEF HookNext

\* What is charged and counted, and the flags of the hook, in every state.
LEMMA LedgerInvariant == HookSpec => [](HookInv /\ Flags /\ Books)
<1>1. HookInit => HookInv /\ Flags /\ Books
    <2>. SUFFICES ASSUME HookInit PROVE HookInv /\ Flags /\ Books
        OBVIOUS
    <2>1. DOMAIN ledger = {} /\ EntryCounted = {} /\ Retired = {}
        BY DEF HookInit, EntryCounted, Retired
    <2>2. IsFiniteSet({}) /\ Cardinality({}) = 0
        BY FS_EmptySet
    <2>3. \A d \in HookDevices : Bytes(ledger, EntryCounted, d) = 0
        BY <2>1, BytesOfNone
    <2>4. Books
        BY <2>1, <2>2, <2>3 DEF HookInit, Books
    <2>5. Flags
        BY DEF HookInit, Flags
    <2>. QED  BY <2>4, <2>5, HookInvInit
<1>2. HookInv /\ Flags /\ Books /\ [HookNext]_hookVars => (HookInv /\ Flags /\ Books)'
    <2>. SUFFICES ASSUME HookInv, Flags, Books, [HookNext]_hookVars
                  PROVE  HookInv' /\ Flags' /\ Books'
        OBVIOUS
    <2>1. HookInv'
        BY HookInvNext
    <2>2. CASE HookNext
        BY <2>1, <2>2, FlagsNext, BooksNext
    <2>3. CASE UNCHANGED hookVars
        <3>1. Flags'
            BY <2>3 DEF hookVars, stateVars, ledgerVars, Flags
        <3>2. Books'
            BY <2>3, BooksUnchanged DEF hookVars, stateVars, ledgerVars
        <3>. QED  BY <2>1, <3>1, <3>2
    <2>. QED  BY <2>2, <2>3
<1>. QED  BY <1>1, <1>2, PTL DEF HookSpec

\* The budget of a device is charged with exactly the entries that say so until
\* the hook is detached, and the count of the retired is right, for every number
\* of threads, addresses, devices, requests and contexts (enable_locked,
\* retire_borrowed_locked, real_allocate_and_account, urUSMFree).
THEOREM LedgerCounted == HookSpec => [](HookTypeOK /\ LedgerIsCounted)
<1>1. HookInv /\ Flags /\ Books => HookTypeOK /\ LedgerIsCounted
    BY BooksAreCounted
<1>. QED  BY <1>1, LedgerInvariant, PTL

-----------------------------------------------------------------------------
(* The parts side by side, as TLC runs them (MCServices).                    *)

\* A step is one of one part, and leaves the others alone.
LEMMA ServicesStep ==
    [MCNext]_partVars => [RNext]_vars /\ [NativeNext]_nativeVars /\ [HookNext]_hookVars
BY DEF MCNext, partVars

\* What the instances of the run do is what the components do: the reader, the proxy
\* and the hook are each specified alone, and nothing of one can disturb another.
THEOREM ServicesAreComponents == MCSpec => RSpec /\ NativeSpec /\ HookSpec
<1>1. MCInit => Init /\ NativeInit /\ HookInit
    BY DEF MCInit
<1>. QED  BY <1>1, ServicesStep, PTL DEF MCSpec, RSpec, NativeSpec, HookSpec

\* The types of the file reader, the allocator proxy and the hook on USM.
THEOREM ServicesTyped == MCSpec => []ServicesTypeOK
<1>1. ReaderTypeOK /\ NativeTypeOK /\ HookTypeOK => ServicesTypeOK
    BY DEF ServicesTypeOK
<1>. QED
    BY <1>1, ServicesAreComponents, ReaderTypeCorrect, NativeTypeCorrect, LedgerCounted, PTL

=============================================================================
