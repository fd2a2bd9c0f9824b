---------------------------- MODULE MCVbarCalls ----------------------------
(***************************************************************************)
(* A small instance of VbarPages for TLC and for calls that must return.   *)
(* Driver calls fail, or operators and copies come: not both in one        *)
(* behaviour.  Pins, holds and copies stay for ever if they like.          *)
(***************************************************************************)
EXTENDS VbarPages

CONSTANTS
    MaxBusyCalls,   \* bound: calls of a busy behaviour
    MaxBusyGen      \* bound: eviction generation of a page in a busy behaviour

\* An operator was submitted, or a copy is under way.
AtWork == (\E q \in Queues : submitted[q] > 0) \/ (\E v \in Vbars : vbar[v].copies > 0)

\* The constraint of the run.  Calls that return stay below MaxBusyGen, one that
\* freezes the same pages for ever comes to it, and stays there.
Bounded ==
    AtWork => /\ calls <= MaxBusyCalls /\ faults = 0
              /\ \A p \in Pages : page[p].gen <= MaxBusyGen

\* With the fairness of FairSpec, within the bounds: threads take their steps,
\* operators finish.  A copy, a pin or a hold need never end.
MCSpec ==
    /\ Spec
    /\ \A t \in Threads : WF_vars(Step(t) /\ Bounded')
    /\ WF_vars((\E o \in inflight : Finish(o)) /\ Bounded')
=============================================================================
