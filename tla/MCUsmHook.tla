----------------------------- MODULE MCUsmHook -----------------------------
(* Who uses the USM hook in its small instances, for TLC.                   *)
EXTENDS UsmHook

\* A thread of PyTorch, on which AIMDO allocates too, and one of another library.
PyTorch == [device |-> 1, size |-> 1, torch |-> TRUE,  owned |-> FALSE]
Own     == [device |-> 1, size |-> 1, torch |-> FALSE, owned |-> TRUE]
Library == [device |-> 2, size |-> 2, torch |-> FALSE, owned |-> FALSE]
Users        == {"torch", "other"}
UserRequests == [torch |-> {PyTorch, Own}, other |-> {Library}]
=============================================================================
