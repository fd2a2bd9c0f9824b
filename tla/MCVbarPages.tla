---------------------------- MODULE MCVbarPages ----------------------------
(***************************************************************************)
(* Small instances of VbarPages for TLC.                                   *)
(***************************************************************************)
EXTENDS VbarPages, TLC

CONSTANTS v1, v2, t1, t2, q1, q2

\* Threads are interchangeable, and so are VBARs.
ThreadSymmetry == Permutations(Threads)
VbarSymmetry   == Permutations(Threads) \cup Permutations(Vbars)
=============================================================================
