--------------------------- MODULE RetireContract ---------------------------
(***************************************************************************)
(* What the VBAR page table relies on when it asks the XPU dispatch layer  *)
(* whether the GPU is done with a page (aimdo_xpu_retire_token_current and *)
(* aimdo_xpu_retire_snapshot in src-xpu/dispatch.cpp).  Commands of one    *)
(* queue are numbered in submission order.  A token stands for a prefix of *)
(* a queue, and a snapshot is a frontier: the longest prefix of each queue *)
(* that some completed token stands for.  The contract is that a frontier  *)
(* never runs ahead of the device.                                         *)
(*                                                                         *)
(* RetireQueues implements this contract with fences, generations and      *)
(* incarnations; VbarPages is built on it.                                 *)
(***************************************************************************)
EXTENDS Naturals

CONSTANT Queues     \* the SYCL queues of the process

VARIABLES
    submitted,      \* number of commands submitted to each queue
    done,           \* the commands of each queue the device has finished
    frontier        \* what the latest snapshot reports, per queue

contractVars == <<submitted, done, frontier>>

\* A snapshot may report f only if every command it covers is finished.
Reportable(f, finished) == \A q \in Queues : 1..f[q] \subseteq finished[q]

Init ==
    /\ submitted = [q \in Queues |-> 0]
    /\ done      = [q \in Queues |-> {}]
    /\ frontier  = [q \in Queues |-> 0]

\* Operators and barriers are submitted, and the device finishes commands.
DeviceStep ==
    /\ submitted' \in [Queues -> Nat]
    /\ done' \in [Queues -> SUBSET Nat]
    /\ \A q \in Queues :
          /\ submitted[q] <= submitted'[q]
          /\ done[q] \subseteq done'[q]
          /\ done'[q] \subseteq 1..submitted'[q]
    /\ UNCHANGED frontier

\* A pressure boundary publishes a new frontier.  It may go back (a registry
\* reset forgets every generation) but never past finished commands.  The
\* boundary may submit barriers of its own in the same critical section.
Report ==
    /\ frontier' \in [Queues -> Nat]
    /\ Reportable(frontier', done)
    /\ submitted' \in [Queues -> Nat]
    /\ \A q \in Queues : submitted[q] <= submitted'[q]
    /\ UNCHANGED done

Next == DeviceStep \/ Report

Spec == Init /\ [][Next]_contractVars
=============================================================================
