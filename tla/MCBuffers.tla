----------------------------- MODULE MCBuffers -----------------------------
(***************************************************************************)
(* Small instances, for TLC, of components of the library that share no    *)
(* state: the file transfer pool, the host buffer, the device buffer on    *)
(* its virtual memory, the Torch block cache and the copy owners.  A       *)
(* behaviour is one of one of them.                                        *)
(***************************************************************************)
EXTENDS TransferPool, HostBuffer, VramBuffer, TorchBlocks, CopyResidency

\* Two devices of one context, and one of them in a context of its own.
Device1   == [device |-> 1, context |-> 1]
AllOwners == {Device1, [device |-> 2, context |-> 1], [device |-> 1, context |-> 2]}

VARIABLE part
partVars == <<poolVars, hostVars, vramVars, torchVars, copyVars, part>>

\* Bound: behaviours of the Torch blocks in which a barrier is lost know one size.
Forgetful == \E b \in Blocks : block[b].forgot # 0
OneSizeIfForgetful == Forgetful => \A b \in Blocks : block[b].size <= 1

MCInit ==
    /\ PoolInit /\ HostInit /\ VramInit /\ TorchInit /\ CopyInit
    /\ part \in {"pool", "host", "vram", "torch", "copies"}
    /\ part # "vram" => rival.device = 2
MCNext ==
    \/ /\ part = "pool" /\ Next
       /\ UNCHANGED <<hostVars, vramVars, torchVars, copyVars, part>>
    \/ /\ part = "host" /\ HostNext
       /\ UNCHANGED <<poolVars, vramVars, torchVars, copyVars, part>>
    \/ /\ part = "vram" /\ VramNext
       /\ UNCHANGED <<poolVars, hostVars, torchVars, copyVars, part>>
    \/ /\ part = "torch" /\ TorchNext /\ OneSizeIfForgetful'
       /\ UNCHANGED <<poolVars, hostVars, vramVars, copyVars, part>>
    \/ /\ part = "copies" /\ CopyNext
       /\ UNCHANGED <<poolVars, hostVars, vramVars, torchVars, part>>

\* What is fair in the part that moves; the others have nothing to do.
MCSpec ==
    /\ MCInit /\ [][MCNext]_partVars
    /\ PoolFairness /\ HostFairness

\* The types of every part.
PartsTypeOK == TypeOK /\ HostTypeOK /\ TorchTypeOK /\ CopyTypeOK

\* Nothing of a buffer stays behind, be it a host buffer (hostbuf_free) or, when no
\* call of the driver failed, a device buffer (vrambuf_destroy).
GoneBuffersLeaveNothing == GoneBuffersAreReturned /\ CleanBuffersLeaveNothing

\* Every call of the transfer pool (_xfer_file_transfer) comes to an end, whatever
\* fails and whichever threads cannot be created.  So does every call of a host
\* buffer, except once its prewarm pool was created only in part (CallsReturn).
BufferCallsReturn == TransfersReturn /\ CallsReturn
=============================================================================
