---------------------------- MODULE RetireQueues ----------------------------
(***************************************************************************)
(* Retirement fences of the XPU dispatch layer (src-xpu/dispatch.cpp).     *)
(*                                                                         *)
(* Every queue that consumed a VBAR page owns a slot of g_retire_queues.   *)
(* A consumer takes a token <<slot, incarnation, generation>> after it     *)
(* submitted its operator; tokens of one slot share the open generation    *)
(* until a barrier is submitted for it.  When the barrier's event is seen  *)
(* complete the generation is retired, and a token is complete when its    *)
(* generation is.  A reset drains the queues and forgets the slots; the    *)
(* incarnation keeps a token of the old life of a slot from being          *)
(* completed by the new one.                                               *)
(*                                                                         *)
(* Each action is one critical section of g_retire_mutex, except those of  *)
(* the reset, which gives the mutex up while it waits for the device.      *)
(***************************************************************************)
EXTENDS Naturals, FiniteSets

CONSTANTS
    Queues,             \* SYCL queues
    InitialQueue,       \* the queue xpu_set_queues is given for the device
    NoQueue,            \* an empty slot's queue
    MaxTracked,         \* kMaxTrackedQueues
    FenceSlots,         \* kRetireFenceSlots
    BatchUses,          \* kRetireBatchUses
    MaxIncarnation,     \* AIMDO_XPU_RETIRE_INCARNATION_MASK
    MaxGeneration,      \* AIMDO_XPU_RETIRE_GENERATION_MASK
    MaxOps,             \* bound: operators submitted to each queue
    MaxFaults           \* bound: driver calls that throw

ASSUME RetireAssumption ==
    /\ InitialQueue \in Queues
    /\ NoQueue \notin Queues
    /\ MaxTracked \in Nat \ {0}
    /\ FenceSlots \in Nat \ {0}
    /\ BatchUses \in Nat \ {0}
    /\ MaxIncarnation \in Nat
    /\ MaxGeneration \in Nat \ {0}
    /\ MaxOps \in Nat
    /\ MaxFaults \in Nat

VARIABLES
    (* the device, outside src/ *)
    submitted,      \* commands (operators and barriers) submitted per queue
    barriers,       \* the ones that are barriers
    done,           \* the ones the device has finished
    (* the registry *)
    slots,          \* g_retire_queues
    count,          \* g_retire_queue_count
    incarnations,   \* g_retire_incarnation_counter
    accepting,      \* g_retire_accepting
    reset,          \* the reset in progress: where it is and what it waits for
    (* its clients *)
    issued,         \* every token handed out, with the prefix it stands for
    snapshot,       \* the completed[] array of the latest pressure boundary
    faults          \* driver calls that threw so far

device   == <<submitted, barriers, done>>
registry == <<slots, count, incarnations, accepting>>
vars     == <<device, registry, reset, issued, snapshot, faults>>

Slots == 1..MaxTracked

FreshSlot(q, inc) == [queue |-> q, incarnation |-> inc, open |-> 1,
                      retired |-> 0, pending |-> 0, fences |-> {}]

EmptySlot == FreshSlot(NoQueue, 0)

NoReset == [at |-> "idle", caller |-> "none", waits |-> {}, drained |-> TRUE]

Init ==
    /\ submitted    = [q \in Queues |-> 0]
    /\ barriers     = [q \in Queues |-> {}]
    /\ done         = [q \in Queues |-> {}]
    /\ slots        = [i \in Slots |-> EmptySlot]
    /\ count        = 0
    /\ incarnations = 0
    /\ accepting    = FALSE
    /\ reset        = NoReset
    /\ issued       = {}
    /\ snapshot     = [i \in Slots |-> [incarnation |-> 0, retired |-> 0]]
    /\ faults       = 0

-----------------------------------------------------------------------------
(* The device.  Operators of a queue may finish in any order; a barrier     *)
(* finishes only after every command submitted to its queue before it.     *)

Submit(q) ==
    /\ Cardinality(1..submitted[q] \ barriers[q]) < MaxOps
    /\ submitted' = [submitted EXCEPT ![q] = @ + 1]
    /\ UNCHANGED <<barriers, done, registry, reset, issued, snapshot, faults>>

Finish(q, n) ==
    /\ n \in 1..submitted[q] \ done[q]
    /\ n \in barriers[q] => 1..(n - 1) \subseteq done[q]
    /\ done' = [done EXCEPT ![q] = @ \cup {n}]
    /\ UNCHANGED <<submitted, barriers, registry, reset, issued, snapshot,
                   faults>>

-----------------------------------------------------------------------------
(* Helpers that run under g_retire_mutex.                                   *)

\* A driver call may throw while the bound on faults is not used up.
MayThrow(thrown) == /\ thrown => faults < MaxFaults
                    /\ faults' = faults + (IF thrown THEN 1 ELSE 0)

\* Mutant of Noted: a queue is looked up by the pointer the caller passed, which
\* a copied wrapper does not share, and enters the table again.
Noted_ByPointer(q, throws) ==
    IF accepting /\ count < MaxTracked /\ incarnations < MaxIncarnation
    THEN {[slot |-> count + 1, reg |->
             [slots |-> [slots EXCEPT ![count + 1] =
                           FreshSlot(q, incarnations + 1)],
              count |-> count + 1, inc |-> incarnations + 1]]}
    ELSE {[slot |-> 0, reg |-> [slots |-> slots, count |-> count,
                                inc |-> incarnations]]}

\* Mutant of Noted: a full table still counts the queue.
Noted_CountsFull(q, throws) ==
    {[slot |-> 0, reg |-> [slots |-> slots, count |-> count + 1,
                           inc |-> incarnations]]}

\* aimdo_xpu_note_queue_locked: the slot of queue q, or 0, and the registry
\* it leaves.  A queue that is not of this device, or whose native handles
\* cannot be read, leaves the registry alone; one that cannot be copied leaves
\* a slot that is counted but empty.
Noted(q, throws) ==
    LET known == {i \in 1..count : slots[i].queue = q}
        same  == [slots |-> slots, count |-> count, inc |-> incarnations]
        added == [slots |-> [slots EXCEPT ![count + 1] =
                               FreshSlot(q, incarnations + 1)],
                  count |-> count + 1, inc |-> incarnations + 1]
        lost  == [slots |-> slots, count |-> count + 1, inc |-> incarnations]
        full  == count >= MaxTracked \/ incarnations >= MaxIncarnation
    IN  IF accepting /\ known # {}
        THEN {[slot |-> i, reg |-> same] : i \in known}
        ELSE IF ~accepting \/ full
        THEN {[slot |-> 0, reg |-> same]}
        ELSE IF throws
        THEN {[slot |-> 0, reg |-> same], [slot |-> 0, reg |-> lost]}
        ELSE {[slot |-> count + 1, reg |-> added]}

\* The fences of slot s whose event query answers "complete"; a query in
\* unanswered threw and tells nothing.
Completed(s, unanswered) ==
    {f \in s.fences : f.at \in done[s.queue]} \ unanswered

\* high is the generation poll_retire_queue_locked leaves in s.
IsRetiredBy(high, s, unanswered) ==
    LET seen == {s.retired} \cup {f.generation : f \in Completed(s, unanswered)}
    IN  high \in seen /\ \A g \in seen : g <= high

\* Mutant of Polled: a completed fence is not given back.
Polled_KeepsFences(s, high, unanswered) == [s EXCEPT !.retired = high]

\* poll_retire_queue_locked
Polled(s, high, unanswered) ==
    [queue |-> s.queue, incarnation |-> s.incarnation, open |-> s.open,
     retired |-> high, pending |-> s.pending,
     fences |-> s.fences \ Completed(s, unanswered)]

\* submit_retire_fence_locked submits a barrier: there is a batch to close
\* and a fence is free.
CanFence(s) == /\ s.queue # NoQueue
               /\ s.pending # 0
               /\ Cardinality(s.fences) < FenceSlots

\* Mutant of Fenced: the generation stays open after its barrier.
Fenced_StaysOpen(s) ==
    [s EXCEPT !.fences  = @ \cup {[generation |-> s.open,
                                   at |-> submitted[s.queue] + 1]},
              !.pending = 0]

Fenced(s) ==
    [queue |-> s.queue, incarnation |-> s.incarnation, open |-> s.open + 1,
     retired |-> s.retired, pending |-> 0,
     fences |-> s.fences \cup {[generation |-> s.open,
                                at |-> submitted[s.queue] + 1]}]

\* The barriers of the slots in F reach their queues.
SubmitBarriers(F, S) ==
    LET fenced(q) == \E i \in F : S[i].queue = q
    IN  /\ submitted' = [q \in Queues |->
                            submitted[q] + IF fenced(q) THEN 1 ELSE 0]
        /\ barriers'  = [q \in Queues |-> barriers[q] \cup
                            IF fenced(q) THEN {submitted[q] + 1} ELSE {}]
        /\ UNCHANGED done

-----------------------------------------------------------------------------
(* The operations.                                                          *)

\* aimdo_xpu_register_consumer_queue and the first half of resolve_queue.
Register(q, throws) ==
    /\ MayThrow(throws)
    /\ \E n \in Noted(q, throws) :
          /\ slots' = n.reg.slots
          /\ count' = n.reg.count
          /\ incarnations' = n.reg.inc
    /\ UNCHANGED <<device, accepting, reset, issued, snapshot>>

\* aimdo_xpu_retire_token_current: token zero when the queue has no slot or
\* its generations are used up, else the open generation of its slot.  A full
\* batch is closed at once; when its barrier is refused it stays open.
TokenCurrent(q, throws, unanswered, refused) ==
    /\ MayThrow(throws \/ unanswered # {} \/ refused # {})
    /\ \E n \in Noted(q, throws) :
       /\ count' = n.reg.count
       /\ incarnations' = n.reg.inc
       /\ IF n.slot = 0
          THEN /\ slots' = n.reg.slots
               /\ UNCHANGED <<device, issued>>
          ELSE \E high \in 0..MaxGeneration :
               LET s == n.reg.slots[n.slot]
                   p == Polled(s, high, unanswered)
                   u == IF p.pending < BatchUses
                        THEN [p EXCEPT !.pending = @ + 1] ELSE p
                   F == {i \in {n.slot} \ refused :
                            u.pending >= BatchUses /\ CanFence(u)}
               IN  /\ IsRetiredBy(high, s, unanswered)
                   /\ IF p.open > MaxGeneration
                      THEN /\ slots' = [n.reg.slots EXCEPT ![n.slot] = p]
                           /\ UNCHANGED <<device, issued>>
                      ELSE /\ issued' = issued \cup {[slot        |-> n.slot,
                                                      incarnation |-> p.incarnation,
                                                      generation  |-> p.open,
                                                      queue       |-> q,
                                                      upto        |-> submitted[q]]}
                           /\ slots' = [n.reg.slots EXCEPT ![n.slot] =
                                          IF F # {} THEN Fenced(u) ELSE u]
                           /\ SubmitBarriers(F, n.reg.slots)
    /\ UNCHANGED <<accepting, reset, snapshot>>

\* aimdo_xpu_retire_snapshot: poll every slot, close partial batches when the
\* caller is under pressure, and copy the retired generations.
Snapshot(force, unanswered, refused) ==
    /\ MayThrow(unanswered # {} \/ refused # {})
    /\ \E high \in [Slots -> 0..MaxGeneration] :
          LET P == [i \in Slots |-> Polled(slots[i], high[i], unanswered)]
              F == {i \in 1..count \ refused : force /\ CanFence(P[i])}
          IN  /\ \A i \in Slots : IsRetiredBy(high[i], slots[i], unanswered)
              /\ slots' = [i \in Slots |-> IF i \in F THEN Fenced(P[i]) ELSE P[i]]
              /\ SubmitBarriers(F, P)
              /\ snapshot' = [i \in Slots |->
                    IF i <= count THEN [incarnation |-> P[i].incarnation,
                                        retired     |-> P[i].retired]
                                  ELSE [incarnation |-> 0, retired |-> 0]]
    /\ UNCHANGED <<count, incarnations, accepting, reset, issued>>

-----------------------------------------------------------------------------
(* aimdo_xpu_retire_reset and its callers.                                  *)

\* xpu_set_queues and aimdo_cuda_runtime_cleanup stop new tokens first.
ResetBegin(caller) ==
    /\ reset.at = "idle"
    /\ accepting' = FALSE
    /\ reset' = [at |-> "copy", caller |-> caller, waits |-> {}, drained |-> TRUE]
    /\ UNCHANGED <<device, slots, count, incarnations, issued, snapshot, faults>>

\* The queues to drain are copied under the mutex ...
ResetCopy ==
    /\ reset.at = "copy"
    /\ reset' = [reset EXCEPT !.at = "wait",
                     !.waits = {slots[i].queue : i \in 1..count} \ {NoQueue}]
    /\ UNCHANGED <<device, registry, issued, snapshot, faults>>

\* Mutant of ResetWait: a failed wait is taken for a drain.
ResetWait_IgnoresFailure(q, throws) ==
    /\ reset.at = "wait"
    /\ q \in reset.waits
    /\ MayThrow(throws)
    /\ throws \/ 1..submitted[q] \subseteq done[q]
    /\ reset' = [reset EXCEPT !.waits = @ \ {q}]
    /\ UNCHANGED <<device, registry, issued, snapshot>>

\* ... and waited for without it; a wait that throws proves nothing.
ResetWait(q, throws) ==
    /\ reset.at = "wait"
    /\ q \in reset.waits
    /\ MayThrow(throws)
    /\ throws \/ 1..submitted[q] \subseteq done[q]
    /\ reset' = [reset EXCEPT !.waits = @ \ {q}, !.drained = @ /\ ~throws]
    /\ UNCHANGED <<device, registry, issued, snapshot>>

\* Mutant of ResetEnd: the counter of incarnations starts over as well.
ResetEnd_RestartsIncarnations ==
    /\ reset.at = "wait"
    /\ reset.waits = {}
    /\ slots' = [i \in Slots |-> EmptySlot]
    /\ count' = 0
    /\ incarnations' = 0
    /\ reset' = IF reset.caller = "set_queues"
                THEN [reset EXCEPT !.at = "accept"] ELSE NoReset
    /\ UNCHANGED <<device, accepting, issued, snapshot, faults>>

\* Only a complete drain clears the registry; otherwise it stays as it is.
ResetEnd ==
    /\ reset.at = "wait"
    /\ reset.waits = {}
    /\ IF reset.drained
       THEN /\ slots' = [i \in Slots |-> EmptySlot]
            /\ count' = 0
       ELSE UNCHANGED <<slots, count>>
    /\ reset' = IF reset.drained /\ reset.caller = "set_queues"
                THEN [reset EXCEPT !.at = "accept"] ELSE NoReset
    /\ UNCHANGED <<device, incarnations, accepting, issued, snapshot, faults>>

\* xpu_set_queues opens the registry again, then enters the initial queue and
\* closes the registry if that fails.
Accept ==
    /\ reset.at = "accept"
    /\ accepting' = TRUE
    /\ reset' = [reset EXCEPT !.at = "note"]
    /\ UNCHANGED <<device, slots, count, incarnations, issued, snapshot, faults>>

NoteInitial(throws) ==
    /\ reset.at = "note"
    /\ MayThrow(throws)
    /\ \E n \in Noted(InitialQueue, throws) :
          /\ slots' = n.reg.slots
          /\ count' = n.reg.count
          /\ incarnations' = n.reg.inc
          /\ accepting' = (n.slot # 0)
    /\ reset' = NoReset
    /\ UNCHANGED <<device, issued, snapshot>>

\* aimdo_cuda_runtime_init opens the registry whatever the last reset left.
RuntimeInit ==
    /\ reset.at = "idle"
    /\ ~accepting
    /\ accepting' = TRUE
    /\ UNCHANGED <<device, slots, count, incarnations, reset, issued, snapshot,
                   faults>>

-----------------------------------------------------------------------------
DeviceNext ==
    \E q \in Queues : Submit(q) \/ \E n \in 1..submitted[q] : Finish(q, n)

Outstanding == UNION {slots[i].fences : i \in Slots}

Consume ==
    \E q \in Queues, throws \in BOOLEAN :
        \/ Register(q, throws)
        \/ \E unanswered \in SUBSET Outstanding, refused \in SUBSET Slots :
              TokenCurrent(q, throws, unanswered, refused)

Boundary ==
    \E force \in BOOLEAN, unanswered \in SUBSET Outstanding,
       refused \in SUBSET Slots : Snapshot(force, unanswered, refused)

Reset ==
    \/ \E caller \in {"set_queues", "cleanup"} : ResetBegin(caller)
    \/ ResetCopy
    \/ \E q \in Queues, throws \in BOOLEAN : ResetWait(q, throws)
    \/ ResetEnd
    \/ Accept
    \/ \E throws \in BOOLEAN : NoteInitial(throws)
    \/ RuntimeInit

Next == DeviceNext \/ Consume \/ Boundary \/ Reset

Spec == Init /\ [][Next]_vars

\* Every command finishes unless it waits for an earlier one, and the model
\* owner keeps reaching pressure boundaries (every vbar_fault passes one).
FairSpec ==
    /\ Spec
    /\ \A q \in Queues : WF_vars(\E n \in 1..submitted[q] : Finish(q, n))
    /\ WF_vars(Snapshot(TRUE, {}, {}))

-----------------------------------------------------------------------------
(* vbar_retire_complete (src/model-vbar.c) for one token against an array   *)
(* of completed generations.                                                *)
Complete(t, completed) ==
    /\ completed[t.slot].incarnation = t.incarnation
    /\ completed[t.slot].retired >= t.generation

SlotRecord == [queue : Queues \cup {NoQueue}, incarnation : Nat,
               open : Nat \ {0}, retired : Nat, pending : Nat,
               fences : SUBSET [generation : Nat, at : Nat]]

Token == [slot : Slots, incarnation : Nat, generation : Nat, queue : Queues,
          upto : Nat]

ResetRecord == [at : {"idle", "copy", "wait", "accept", "note"},
                caller : {"none", "set_queues", "cleanup"},
                waits : SUBSET Queues, drained : BOOLEAN]

\* The state has the types the comments above give it.
TypeOK ==
    /\ submitted \in [Queues -> Nat]
    /\ barriers \in [Queues -> SUBSET Nat]
    /\ done \in [Queues -> SUBSET Nat]
    /\ slots \in [Slots -> SlotRecord]
    /\ count \in 0..MaxTracked
    /\ incarnations \in 0..MaxIncarnation
    /\ accepting \in BOOLEAN
    /\ reset \in ResetRecord
    /\ issued \subseteq Token
    /\ snapshot \in [Slots -> [incarnation : Nat, retired : Nat]]
    /\ faults \in Nat

\* A page is reclaimed on the strength of the latest snapshot, which may be
\* older than a reset of the registry and than the tokens it is compared with.
\* Whatever happened in between, a token the comparison accepts stands for
\* operators the device has finished (the page's consumers are really done).
CompleteTokensAreDone ==
    \A t \in issued : Complete(t, snapshot) => 1..t.upto \subseteq done[t.queue]

\* The slots of the registry name distinct queues and distinct incarnations, so
\* that an index and an incarnation identify the queue a token was taken for
\* and a second registration of a queue cannot split its uses over two slots.
SlotsAreDistinct ==
    \A i, j \in 1..count :
       i # j /\ slots[i].queue # NoQueue =>
          /\ slots[i].queue # slots[j].queue
          /\ slots[i].incarnation # slots[j].incarnation

\* No token outlives its registration unfinished: a token whose slot was
\* cleared by a reset, so that no boundary will ever report it, stands for
\* operators the device has finished (the reset drained them before it let go).
ForgottenTokensAreDone ==
    \A t \in issued :
       slots[t.slot].incarnation # t.incarnation =>
          1..t.upto \subseteq done[t.queue]

\* Partial batches are not forgotten: every token handed out is in the end
\* reported complete by a boundary, or its registration is reset (the batch
\* size is never needed, a refused barrier is retried, a full set of fences is
\* polled free).  A token is named by its incarnation, which is that of one slot,
\* and its generation.
TokensRetire ==
    \A i \in 1..MaxIncarnation, g \in 1..MaxGeneration :
       LET is(t) == t.incarnation = i /\ t.generation = g IN
       (\E t \in issued : is(t)) ~>
          \E t \in issued : /\ is(t)
                              /\ \/ Complete(t, snapshot)
                                 \/ slots[t.slot].incarnation # i

\* What the page table relies on.
Frontier(q) == {t.upto : t \in {u \in issued : u.queue = q /\ Complete(u, snapshot)}}

Contract == INSTANCE RetireContract WITH
    frontier <- [q \in Queues |->
                   CHOOSE n \in {0} \cup Frontier(q) : \A m \in Frontier(q) : m <= n]

ImplementsContract == Contract!Spec
=============================================================================
