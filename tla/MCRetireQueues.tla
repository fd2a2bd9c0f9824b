--------------------------- MODULE MCRetireQueues ---------------------------
(***************************************************************************)
(* Two small instances of RetireQueues in one, for TLC: a wide one, where  *)
(* every queue is used, and a long one, where only the initial queue is    *)
(* used, in one slot, and its generations are used up.                     *)
(***************************************************************************)
EXTENDS RetireQueues

VARIABLE wide

Others == Queues \ {InitialQueue}

\* The wide instance takes tokens of first generations only, and the initial
\* queue is entered ahead of the others.
Bounded ==
    IF wide
    THEN slots[1].queue \notin Others /\ \A t \in issued : t.generation = 1
    ELSE count <= 1 /\ \A q \in Others : submitted[q] = 0 /\ slots[1].queue # q

MCInit == Init /\ wide \in BOOLEAN
MCNext == Next /\ UNCHANGED wide /\ Bounded'

\* With the fairness of FairSpec, whose steps the bounds never prevent.
MCSpec ==
    /\ MCInit /\ [][MCNext]_<<vars, wide>>
    /\ \A q \in Queues :
           WF_vars((\E n \in 1..submitted[q] : Finish(q, n)) /\ UNCHANGED wide)
    /\ WF_vars(Snapshot(TRUE, {}, {}) /\ UNCHANGED wide)
=============================================================================
