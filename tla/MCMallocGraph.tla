--------------------------- MODULE MCMallocGraph ---------------------------
(***************************************************************************)
(* Small instances of MallocGraph for TLC.                                 *)
(***************************************************************************)
EXTENDS MallocGraph

OneSize == {<<"large", 1>>}
MCSizes == {<<"large", 1>>, <<"large", 2>>, <<"small", 1>>}

\* Two instances in one.  In a flat one every option, size and failure occurs
\* on a tree of few events in one scope; in a plain one scopes nest and the
\* tree grows, with allocations of one page and no failure, and the free of a
\* rogue, once begun, is not interleaved with anything; with assert_breaks
\* scopes do not nest there either.
VARIABLE plain

Flat == Len(frames) <= 1 /\ Cardinality(DOMAIN tree) <= 4
Plain ==
    /\ Cardinality(Allocated(vm)) < Cardinality(Memory)
    /\ faults = 0 /\ ~graph.avoidAlias /\ (graph.assertBreaks => Len(frames) <= 1)
    /\ \A d \in DOMAIN frames : ~frames[d].excluded
    /\ \A e \in DOMAIN tree : tree[e].ptr[1] # "small" /\ tree[e].size <= 1
    /\ \A h \in DOMAIN held : held[h].ptr[1] # "small" /\ held[h].size <= 1
Bounded  == IF plain THEN Plain ELSE Flat
BoundedStep ==
    /\ Bounded'
    /\ plain /\ (\E p \in DOMAIN rogues : rogues[p].freeing) => rogues' # rogues

MCInit == Init /\ plain \in BOOLEAN /\ Bounded

\* Next, one disjunct for each of its actions.
Request == \E h \in 1..MaxHeld :
    \/ \E size \in Sizes : Alloc(h, size[1], size[2])
    \/ Free(h) \/ FreeRogue(h)
MCNext ==
    \/ Request /\ UNCHANGED plain
    \/ NoteExcluded /\ UNCHANGED plain
    \/ PushRoot /\ UNCHANGED plain
    \/ (\E name \in Names : Push(name)) /\ UNCHANGED plain
    \/ PopSkipped /\ UNCHANGED plain
    \/ Pop /\ UNCHANGED plain
    \/ Handoff /\ UNCHANGED plain
    \/ HandoffFails /\ UNCHANGED plain
    \/ Finalize /\ UNCHANGED plain
    \/ FinalizeFails /\ UNCHANGED plain
    \/ Abort /\ UNCHANGED plain
    \/ AbortEnds /\ UNCHANGED plain
    \/ NoticeFreed /\ UNCHANGED plain
    \/ Destroy /\ UNCHANGED plain
    \/ RogueStep /\ UNCHANGED plain

MCSpec == MCInit /\ [][MCNext]_<<graphVars, plain>>
=============================================================================
