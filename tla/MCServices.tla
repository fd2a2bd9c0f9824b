----------------------------- MODULE MCServices -----------------------------
(***************************************************************************)
(* Small instances, for TLC, of components that share no state: the file   *)
(* reader with its transfer pool, the allocator proxy and the hook on USM. *)
(* A behaviour is one of one of them.                                      *)
(***************************************************************************)
EXTENDS FileReader, NativeOwner, MCUsmHook

VARIABLE part
partVars == <<vars, nativeVars, hookVars, part>>

\* Pointers are interchangeable: this one is the first that gets an owner.
FirstPointer == CHOOSE p \in Pointers : TRUE

MCInit ==
    /\ Init /\ NativeInit /\ HookInit
    /\ part \in {"reader", "proxy", "hook"}
MCNext ==
    \/ /\ part = "reader" /\ RNext
       /\ UNCHANGED <<nativeVars, hookVars, part>>
    \/ /\ part = "proxy" /\ NativeNext
       /\ owner' # <<>> => owner'[1].ptr = FirstPointer
       /\ UNCHANGED <<vars, hookVars, part>>
    \/ /\ part = "hook" /\ HookNext
       /\ UNCHANGED <<vars, nativeVars, part>>

\* Only the reader promises to come to an end.
MCSpec == MCInit /\ [][MCNext]_partVars /\ RFairness

\* The types of every part.
ServicesTypeOK == ReaderTypeOK /\ NativeTypeOK /\ HookTypeOK
=============================================================================
