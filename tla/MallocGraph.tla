---------------------------- MODULE MallocGraph ----------------------------
(***************************************************************************)
(* The malloc graph (src/malloc-graph.c, XPU build): a compiler of         *)
(* allocation traces.  While a scope is recorded, allocations are placed   *)
(* on pages of a reserved range, two virtual pages sharing a physical one  *)
(* if they were never live together.  When the same scope runs again the   *)
(* trace is replayed: an allocation that matches the next event gets the   *)
(* address of the event at once, without looking at what is live.  Where   *)
(* the run leaves the trace, the state of the allocator is rebuilt from    *)
(* the last snapshot and recording starts again.                           *)
(*                                                                         *)
(* The events form a tree.  A call event and the scope it enters are one   *)
(* node here (a call has no successors of its own).  Of AllocationState    *)
(* and small_ranges, live keeps the events of the allocations with their   *)
(* depths: spans, liveness of physical pages and small ranges follow from  *)
(* it, and so does the list State.allocations (Tracked).                   *)
(*                                                                         *)
(* The thread that owns the graph runs one call at a time; a call is one   *)
(* action, except that other threads may free candidates and rogues        *)
(* between the two halves of a pop or of an abort (phase "handoff").       *)
(* Small allocations are measured in units, large ones in pages.           *)
(***************************************************************************)
EXTENDS Rogues, SequencesExt

CONSTANTS
    Sizes,          \* the sizes requested: <<area, units or pages>>
    Names,          \* names of scopes
    AssertBreaks,   \* the values of assert_breaks a graph is created with
    AvoidAlias,     \* those of AIMDO_XPU_GRAPH_AVOID_ALIAS
    OtherQueues,    \* whether a queue the compiler scope excludes is in use
    MaxEvents,      \* bound: events in the tree
    MaxDepth,       \* bound: nested scopes
    MaxHeld         \* bound: allocations the application holds

VARIABLES
    tree,           \* the events, from the root 0
    snaps,          \* the snapshot of each scope
    live,           \* allocations: [ev, depth] of every live allocation
    frames,         \* the stack of State, the top last
    cands,          \* rogue_candidates: the severed events
    owned,          \* those with rogue_owned
    vaPhys,         \* va_phys
    holes,          \* black_holes
    smallSize,      \* small_size
    unusable,       \* small_unusable: [pages, ptr]
    graph,          \* the flags of the graph
    phase,          \* "run", or the half of a pop or abort that is next
    held            \* the allocations of the application, by number

recordVars == <<tree, snaps, live, frames, cands, owned>>
placeVars  == <<vaPhys, holes, smallSize, unusable>>
graphVars  == <<rogueVars, recordVars, placeVars, graph, phase, held>>

Root   == 0
NoPtr  == <<"none", 0>>
NoHeld == [ptr |-> NoPtr, size |-> 0]

Node(type, ptr, size, prev) ==
    [type |-> type, ptr |-> ptr, size |-> size, prev |-> prev, next |-> <<>>,
     freedOut |-> FALSE]

Frame(scope, recording) ==
    [cursor |-> scope, recording |-> recording, excluded |-> FALSE]

Init ==
    /\ RoguesInit
    /\ tree = [e \in {Root} |-> Node("scope", NoPtr, 0, Root)]
    /\ snaps = [e \in {Root} |-> {}]
    /\ live = {}
    /\ frames = <<Frame(Root, TRUE)>>
    /\ cands = {}
    /\ owned = {}
    /\ vaPhys = <<>>
    /\ holes = <<>>
    /\ smallSize = 0
    /\ unusable = {}
    /\ \E breaks \in AssertBreaks, avoid \in AvoidAlias :
           graph = [assertBreaks |-> breaks, avoidAlias |-> avoid, active |-> TRUE,
                    failed |-> FALSE, complete |-> FALSE, attempted |-> FALSE,
                    aborted |-> FALSE, terminal |-> FALSE, closing |-> FALSE,
                    bases |-> Areas, refused |-> NoPtr]
    /\ phase = "run"
    /\ held = [h \in 1..MaxHeld |-> NoHeld]

-----------------------------------------------------------------------------
(* Where things are.                                                        *)

Depth == Len(frames)
Top   == frames[Depth]

PhysSlot(i)       == <<"phys", "large", i, 0>>
SmallSlot(p)      == <<"phys", "small", p, 0>>
MapSlot(area, p)  == <<"map", area, p, 0>>

PhysCount  == Cardinality({x \in InUse(vm) : x[1] = "phys" /\ x[2] = "large"})
SmallPages == Cardinality({x \in InUse(vm) : x[1] = "phys" /\ x[2] = "small"})

Covers(e) == PagesOf(tree[e].ptr, tree[e].size)
PhysOf(e) == {vaPhys[v] : v \in Covers(e)}
Large(S)  == {e \in S : tree[e].ptr[1] = "large"}
Small(S)  == {e \in S : tree[e].ptr[1] = "small"}

LiveEvents(l)   == {a.ev : a \in l}
PhysicalLive(l) == UNION {PhysOf(e) : e \in Large(LiveEvents(l))}

\* State.allocations of the frame at depth d: empty unless it is recording.
Tracked(l, d) == {a.ev : a \in {b \in l : b.depth = d}} \ cands

\* graph_failed: also if another thread has freed a candidate.
GraphFailed ==
    graph.failed \/ \E e \in cands : \E p \in {tree[e].ptr} :
                        p \in DOMAIN candidates /\ candidates[p]

\* The calls that work on the running graph.
Ready == graph.active /\ ~GraphFailed /\ phase = "run"

\* rogue_va: part of a rogue that still exists, or of a candidate.  A page of
\* a rogue that is gone is mapped again on the way (StaleHoles).
RogueVa(v) ==
    \/ v \in DOMAIN holes /\ holes[v] \in DOMAIN rogues
    \/ \E e \in Large(cands) : v \in Covers(e)
StaleHoles(S) == {v \in S \cap DOMAIN holes : holes[v] \notin DOMAIN rogues}

\* rogue_phys
RoguePhys(i) == \E e \in Large(cands) : i \in PhysOf(e)

\* small_unavailable and what small_allocation_offset keeps away from: pages
\* of small rogues that exist and of candidates.
SmallTaken ==
    UNION {u.pages : u \in {w \in unusable : w.ptr \in DOMAIN rogues}}
    \cup UNION {Covers(e) : e \in Small(cands)}

\* prune_small_unusable
Pruned == {u \in unusable : u.ptr \in DOMAIN rogues}

-----------------------------------------------------------------------------
(* The trace.                                                               *)

Same(e, type, ptr, size) ==
    /\ tree[e].type = type /\ tree[e].size = size
    /\ IF type = "alloc" THEN tree[e].ptr[1] = ptr[1] ELSE tree[e].ptr = ptr

\* An allocation is not replayed onto pages that rogues use.
Usable(e) ==
    /\ e \in Large({e}) => \A v \in Covers(e) : ~RogueVa(v) /\ ~RoguePhys(vaPhys[v])
    /\ e \in Small({e}) => Covers(e) \cap SmallTaken = {}

Successors == tree[Top.cursor].next

\* find_event; the root stands for NULL.
Matches(type, ptr, size) ==
    {i \in DOMAIN Successors : /\ Same(Successors[i], type, ptr, size)
                               /\ type = "alloc" => Usable(Successors[i])}
FindEvent(type, ptr, size) ==
    LET I == Matches(type, ptr, size)
    IN  IF I = {} THEN Root ELSE Successors[Min(I)]

\* The virtual pages find_event asks rogue_va about.
SeenByFind(ptr, size) ==
    LET tried == {i \in DOMAIN Successors :
                      /\ Same(Successors[i], "alloc", ptr, size)
                      /\ \A m \in Matches("alloc", ptr, size) : i <= m}
        seen(e) == {v \in Covers(e) : \A w \in Covers(e) :
                        w < v => ~RogueVa(w) /\ ~RoguePhys(vaPhys[w])}
    IN  UNION {seen(e) : e \in Large({Successors[i] : i \in tried})}

HasEvent == 1..MaxEvents \ DOMAIN tree # {}
NewEvent == Min(1..MaxEvents \ DOMAIN tree)

\* append_event
Appended(t, parent, e, node) == [Put(t, e, node) EXCEPT ![parent].next = Append(@, e)]

\* A free that dry_apply cannot undo: the allocation is not of this frame.
Lost == [ev |-> Root, depth |-> 0]

\* dry_apply
DryApply(l, e, d) ==
    LET freed == {a \in l : a.depth = d /\ tree[a.ev].ptr = tree[e].ptr} IN
    CASE tree[e].type = "alloc" -> l \cup {[ev |-> e, depth |-> d]}
      [] tree[e].type = "free"  -> IF freed = {} THEN l \cup {Lost} ELSE l \ freed
      [] OTHER                  -> l

\* Mutant of Materialized: the state is taken to be that of the snapshot.
Materialized_SnapshotOnly(e, d) ==
    LET R[x \in DOMAIN tree] == IF x \in DOMAIN snaps THEN snaps[x] ELSE R[tree[x].prev]
    IN  R[e]

\* materialize: the snapshot of the scope, then the events up to e.
Materialized(e, d) ==
    LET R[x \in DOMAIN tree] ==
            IF x \in DOMAIN snaps THEN snaps[x] ELSE DryApply(R[tree[x].prev], x, d)
    IN  R[e]

\* What a call that records starts from: start_recording, if it has to.
Recorded  == IF Top.recording THEN live ELSE Materialized(Top.cursor, Depth)
MayRecord == Top.recording \/ (~graph.assertBreaks /\ Lost \notin Recorded)

\* The frame after the call went to, or recorded, event e.
Replayed(e) == [frames EXCEPT ![Depth].cursor = e]
Recording(e) ==
    [frames EXCEPT ![Depth].cursor = e, ![Depth].recording = TRUE]

\* The call gives up: start_recording is refused.
Fails == /\ graph' = [graph EXCEPT !.failed = TRUE]
         /\ UNCHANGED <<rogueVars, recordVars, placeVars, phase>>

\* A free gives up: the application is told that it is done, but nothing notes
\* that the pointer is gone (refused is no field of the program).
FailsToFree(ptr) == /\ graph' = [graph EXCEPT !.failed = TRUE, !.refused = ptr]
                    /\ UNCHANGED <<rogueVars, recordVars, placeVars, phase>>

-----------------------------------------------------------------------------
(* Placement.                                                               *)

\* map_reference for the pages of rogues that are gone, when rogue_va meets
\* them: from now on the graph uses them again.
Remapped(s, S) ==
    LET slots == {MapSlot("large", v) : v \in S} IN
    [s EXCEPT
        !.page = [x \in DOMAIN @ \cup slots |->
                     IF x \in slots THEN s.page[PhysSlot(vaPhys[x[3]])] ELSE @[x]],
        !.addr = [x \in DOMAIN @ \cup slots |->
                     IF x \in slots THEN <<"large", x[3]>> ELSE @[x]],
        !.map  = [a \in DOMAIN @ \cup {<<"large", v>> : v \in S} |->
                     IF a \in DOMAIN @ THEN @[a] ELSE s.page[PhysSlot(vaPhys[a[2]])]]]

Refused(S)  == {v \in S : MapRefused(vm, <<"large", v>>)}

\* One of the mappings fails; those before it are done.
RemapFails(S) ==
    /\ S # {}
    /\ IF Refused(S) # {} THEN UNCHANGED faults ELSE Fault
    /\ \E done \in SUBSET (S \ Refused(S)) :
           /\ done # S
           /\ vm' = Remapped(vm, done)
           /\ holes' = Drop(holes, done)
    /\ graph' = [graph EXCEPT !.failed = TRUE]
    /\ UNCHANGED <<ranges, candidates, rogues, recordVars, vaPhys, smallSize, unusable,
                   phase>>

\* Mutant of Blocked: a page of a candidate of an inner scope is used again.
Blocked_NoCandidates(l, v) == RogueVa(v) \/ vaPhys[v] \in PhysicalLive(l)

\* A page the search for a place does not take.
Blocked(l, v) == RogueVa(v) \/ vaPhys[v] \in PhysicalLive(l) \/ RoguePhys(vaPhys[v])

\* The search of malloc_graph_alloc for n pages: it takes the first place and
\* resumes behind the page that was in the way, or behind the earlier one of
\* two pages that share physical memory.
Search(l, n) ==
    LET count == Len(vaPhys)
        alias(v, j) == {k \in 0..(j - 1) : vaPhys[v + k] = vaPhys[v + j]}
        bad(v) == {j \in 0..(n - 1) : Blocked(l, v + j) \/ alias(v, j) # {}}
        S[v \in 1..(count + 1)] ==
            IF v + n - 1 > count THEN [at |-> count + 1, seen |-> v - 1]
            ELSE IF bad(v) = {} THEN [at |-> v, seen |-> v + n - 1]
            ELSE LET j    == Min(bad(v))
                     next == IF alias(v, j) = {} THEN v + j + 1 ELSE v + Max(alias(v, j)) + 1
                 IN  [S[next] EXCEPT !.seen = Max({@, v + j})]
    IN  S[1]

\* The physical pages for n new virtual pages: the first one that is not live,
\* or a new one.
NewPhysical(l, n) ==
    LET P[j \in 0..n] ==
            IF j = 0 THEN <<>>
            ELSE LET taken == PhysicalLive(l) \cup ToSet(P[j - 1])
                     free  == {i \in 1..PhysCount : i \notin taken /\ ~RoguePhys(i)}
                 IN  Append(P[j - 1],
                            IF free = {} \/ graph.avoidAlias
                            THEN Max({PhysCount} \cup ToSet(P[j - 1])) + 1
                            ELSE Min(free))
    IN  P[n]

\* map_page for the pages of phys, from virtual page v on.
MapPages(s, v, phys) ==
    FoldLeft(LAMBDA t, j :
                 Mapped(IF PhysSlot(phys[j]) \in InUse(t) THEN t
                        ELSE NewPage(t, PhysSlot(phys[j])),
                        MapSlot("large", v + j - 1), PhysSlot(phys[j]),
                        <<"large", v + j - 1>>),
             s, [j \in DOMAIN phys |-> j])

Created(phys)  == {i \in ToSet(phys) : i > PhysCount}
RoomFor(phys)  == Cardinality(Created(phys)) <= Cardinality(Memory \ Allocated(vm))

\* small_allocation_offset: the smallest hole that is large enough, or the
\* end, behind the pages that may not be used.
SmallOffset(l, n) ==
    LET used == {u \in 0..(smallSize + PageUnits) :
                    \/ \E e \in Small(LiveEvents(l)) :
                           u \in tree[e].ptr[2]..(tree[e].ptr[2] + tree[e].size - 1)
                    \/ u \div PageUnits \in SmallTaken}
        hole == {<<a, b>> \in (0..smallSize) \X (0..smallSize) :
                    /\ b - a >= n
                    /\ \A u \in a..(b - 1) : u \notin used
                    /\ a = 0 \/ a - 1 \in used
                    /\ b = smallSize \/ b \in used}
        best == {<<a, b>> \in hole : \A h \in hole :
                    h[2] - h[1] > b - a \/ (h[2] - h[1] = b - a /\ h[1] >= a)}
    IN  IF hole # {} THEN (CHOOSE h \in best : TRUE)[1]
        ELSE Min(smallSize..(smallSize + PageUnits) \ used)

SmallMapped(s, p) ==
    Mapped(NewPage(s, SmallSlot(p)), MapSlot("small", p), SmallSlot(p), <<"small", p>>)

-----------------------------------------------------------------------------
(* malloc_graph_alloc.                                                      *)

FreeNumber == CHOOSE h \in 0..MaxHeld :
                  /\ h = 0 => \A k \in 1..MaxHeld : held[k] # NoHeld
                  /\ h # 0 => held[h] = NoHeld /\ \A k \in 1..(h - 1) : held[k] # NoHeld
Gives(h, ptr, size) == held' = [held EXCEPT ![h] = [ptr |-> ptr, size |-> size]]

\* The trace has the allocation: its address is returned, nothing else changes.
Replay(h, ptr, size, e) ==
    LET seen == StaleHoles(SeenByFind(ptr, size)) IN
    \/ /\ Refused(seen) = {}
       /\ vm' = Remapped(vm, seen)
       /\ holes' = Drop(holes, seen)
       /\ frames' = Replayed(e)
       /\ Gives(h, tree[e].ptr, size)
       /\ UNCHANGED <<ranges, candidates, rogues, faults, tree, snaps, live, cands, owned,
                      vaPhys, smallSize, unusable, graph, phase>>
    \/ RemapFails(seen) /\ UNCHANGED held

\* The event of a new allocation, and the allocation in the live state.
Records(l, ptr, size) ==
    LET e == NewEvent IN
    /\ HasEvent
    /\ tree' = Appended(tree, Top.cursor, e, Node("alloc", ptr, size, Top.cursor))
    /\ live' = l \cup {[ev |-> e, depth |-> Depth]}
    /\ frames' = Recording(e)
    /\ UNCHANGED <<snaps, cands, owned>>

\* A large allocation on pages of the range that are free, or behind them.
RecordLarge(h, l, n) ==
    LET place == Search(l, n)
        seen  == StaleHoles(1..place.seen \cup SeenByFind(<<"large", 0>>, n))
        new   == place.at > Len(vaPhys)
        phys  == IF new THEN NewPhysical(l, n) ELSE <<>>
        ptr   == <<"large", place.at>>
    IN  \/ /\ Refused(seen) = {} /\ RoomFor(phys)
           /\ vm' = MapPages(Remapped(vm, seen), place.at, phys)
           /\ holes' = Drop(holes, seen)
           /\ vaPhys' = vaPhys \o phys
           /\ Records(l, ptr, n)
           /\ Gives(h, ptr, n)
           /\ UNCHANGED <<ranges, candidates, rogues, faults, smallSize, unusable, graph,
                          phase>>
        \/ RemapFails(seen) /\ UNCHANGED held
        \/ \* create_page or map_reference fails for page k + 1.
           \E k \in 0..(Len(phys) - 1) :
              LET done == SubSeq(phys, 1, k)
                  full == ~RoomFor(SubSeq(phys, 1, k + 1))
                  slot == PhysSlot(phys[k + 1])
                  s    == MapPages(Remapped(vm, seen), place.at, done)
              IN  /\ seen = {} /\ RoomFor(done)
                  /\ IF full THEN UNCHANGED faults ELSE Fault
                  /\ \/ vm' = s
                     \/ ~full /\ slot \notin InUse(s) /\ vm' = NewPage(s, slot)
                  /\ vaPhys' = vaPhys \o done
                  /\ graph' = [graph EXCEPT !.failed = TRUE]
                  /\ UNCHANGED <<ranges, candidates, rogues, recordVars, holes, smallSize,
                                 unusable, phase, held>>

\* A small allocation in a hole, or at the end, which may need one more page.
RecordSmall(h, l, n) ==
    LET offset == SmallOffset(l, n)
        grows  == SmallPages * PageUnits < offset + n
        ptr    == <<"small", offset>>
    IN  \/ /\ grows => HasRoom(vm)
           /\ vm' = IF grows THEN SmallMapped(vm, SmallPages) ELSE vm
           /\ smallSize' = Max({smallSize, offset + n})
           /\ unusable' = Pruned
           /\ Records(l, ptr, n)
           /\ Gives(h, ptr, n)
           /\ UNCHANGED <<ranges, candidates, rogues, faults, vaPhys, holes, graph, phase>>
        \/ /\ grows
           /\ IF HasRoom(vm) THEN Fault ELSE UNCHANGED faults
           /\ \/ UNCHANGED vm
              \/ HasRoom(vm) /\ vm' = NewPage(vm, SmallSlot(SmallPages))
           /\ unusable' = Pruned
           /\ graph' = [graph EXCEPT !.failed = TRUE]
           /\ UNCHANGED <<ranges, candidates, rogues, recordVars, vaPhys, holes, smallSize,
                          phase, held>>

Alloc(h, area, size) ==
    LET ptr   == <<area, 0>>
        match == IF Top.recording THEN Root ELSE FindEvent("alloc", ptr, size)
    IN  /\ Ready /\ h = FreeNumber
        /\ IF match # Root THEN Replay(h, ptr, size, match)
           ELSE IF ~MayRecord THEN Fails /\ UNCHANGED held
           ELSE IF area = "large" THEN RecordLarge(h, Recorded, size)
           ELSE RecordSmall(h, Recorded, size)

\* malloc_graph_note_excluded_allocation
NoteExcluded ==
    /\ OtherQueues /\ Ready /\ ~Top.recording /\ Depth = 1 /\ Top.cursor = Root
    /\ frames' = [frames EXCEPT ![1].excluded = TRUE]
    /\ UNCHANGED <<rogueVars, tree, snaps, live, cands, owned, placeVars, graph, phase,
                   held>>

-----------------------------------------------------------------------------
(* malloc_graph_free, and free_rogue, which the allocators ask first.       *)

Takes(h) == held' = [held EXCEPT ![h] = NoHeld]

FreeRogue(h) ==
    /\ held[h] # NoHeld
    /\ BeginFree(held[h].ptr)
    /\ Takes(h)
    /\ UNCHANGED <<recordVars, placeVars, graph, phase>>

\* Mutant of FreedOutOfScope: nothing remembers that the pointer is gone.
FreedOutOfScope_Forgotten(e) == tree

\* The event of an allocation of an outer scope remembers that its pointer is gone.
FreedOutOfScope(e) == [tree EXCEPT ![e].freedOut = TRUE]

\* Such an allocation may not be freed here: the graph fails.
FreeRecorded(l, ptr) ==
    LET mine == {a \in l : tree[a.ev].ptr = ptr /\ a.ev \notin cands}
        e    == NewEvent
    IN  IF mine = {} THEN FailsToFree(ptr)
        ELSE LET a == CHOOSE b \in mine : TRUE IN
             IF a.depth # Depth
             THEN /\ tree' = FreedOutOfScope(a.ev)
                  /\ frames' = Recording(Top.cursor)
                  /\ live' = l
                  /\ graph' = [graph EXCEPT !.failed = TRUE]
                  /\ UNCHANGED <<rogueVars, snaps, cands, owned, placeVars, phase>>
             ELSE /\ HasEvent
                  /\ tree' = Appended(tree, Top.cursor, e,
                                      Node("free", ptr, 0, Top.cursor))
                  /\ live' = l \ {a}
                  /\ frames' = Recording(e)
                  /\ UNCHANGED <<rogueVars, snaps, cands, owned, placeVars, graph, phase>>

Free(h) ==
    LET ptr   == held[h].ptr
        match == IF Top.recording THEN Root ELSE FindEvent("free", ptr, 0)
    IN  /\ Ready /\ held[h] # NoHeld /\ ~Known(ptr)
        /\ Takes(h)
        /\ IF match # Root
           THEN /\ frames' = Replayed(match)
                /\ UNCHANGED <<rogueVars, tree, snaps, live, cands, owned, placeVars,
                               graph, phase>>
           ELSE IF MayRecord THEN FreeRecorded(Recorded, ptr)
           ELSE FailsToFree(ptr)

-----------------------------------------------------------------------------
(* malloc_graph_push.                                                       *)

\* A null name replays the whole graph again.  The driver (malloc_graph.py) does
\* not use a graph again that it has tried to destroy.
PushRoot ==
    /\ graph.complete /\ ~graph.closing /\ ~graph.active /\ ~GraphFailed /\ phase = "run"
    /\ graph' = [graph EXCEPT !.complete = FALSE, !.active = TRUE]
    /\ frames' = <<Frame(Root, FALSE)>>
    /\ UNCHANGED <<rogueVars, tree, snaps, live, cands, owned, placeVars, phase, held>>

\* A call does not move the cursor: the scope runs again from the same place.
Push(name) ==
    LET call  == FindEvent("call", <<"name", name>>, 0)
        e     == NewEvent
        outer == Recording(Top.cursor)
    IN  /\ Ready /\ Depth < MaxDepth
        /\ UNCHANGED held
        /\ IF call # Root
           THEN /\ frames' = Append(frames, Frame(call, FALSE))
                /\ UNCHANGED <<rogueVars, tree, snaps, live, cands, owned, placeVars,
                               graph, phase>>
           ELSE IF ~MayRecord THEN Fails
           ELSE /\ HasEvent
                /\ tree' = Appended(tree, Top.cursor, e,
                               Node("call", <<"name", name>>, 0, Top.cursor))
                /\ snaps' = Put(snaps, e, Recorded)
                /\ live' = Recorded
                /\ frames' = Append(outer, Frame(e, TRUE))
                /\ UNCHANGED <<rogueVars, cands, owned, placeVars, graph, phase>>

-----------------------------------------------------------------------------
(* malloc_graph_pop, the handoff of its rogues and malloc_graph_abort.      *)

\* sever_event for the events of S: their successors take their place.
Severed(t, S) ==
    LET Up[e \in DOMAIN t]   == IF e \in S THEN Up[t[e].prev] ELSE e
        Down[e \in DOMAIN t] ==
            FlattenSeq([i \in DOMAIN t[e].next |->
                           LET n == t[e].next[i] IN IF n \in S THEN Down[n] ELSE <<n>>])
    IN  [e \in DOMAIN t |->
            IF e \in S THEN [t[e] EXCEPT !.next = <<>>]
            ELSE [t[e] EXCEPT !.next = Down[e], !.prev = Up[@]]]

\* The scope or event a severed cursor moves to.
Moved(e, S) ==
    LET Up[x \in DOMAIN tree] == IF x \in S THEN Up[tree[x].prev] ELSE x IN Up[e]

\* collect_rogue_candidates
Collected(S) ==
    /\ candidates' = [p \in DOMAIN candidates \cup {tree[e].ptr : e \in S} |->
                         IF p \in DOMAIN candidates THEN candidates[p]
                         ELSE \E e \in S : tree[e].ptr = p /\ tree[e].freedOut]
    /\ cands' = cands \cup S

\* The root only saw requests of the excluded queue: the trace is kept.
PopSkipped ==
    /\ Ready /\ Depth = 1 /\ ~Top.recording /\ Top.cursor = Root /\ Top.excluded
    /\ frames' = <<>>
    /\ graph' = [graph EXCEPT !.complete = TRUE, !.active = FALSE]
    /\ UNCHANGED <<rogueVars, tree, snaps, live, cands, owned, placeVars, phase, held>>

\* The end of the outermost scope waits for the handoff, if there are rogues.
EndOfScope(rest, rogueEvents) ==
    /\ frames' = IF Depth > 1 \/ rogueEvents = {} THEN rest ELSE frames
    /\ IF Depth > 1 THEN UNCHANGED <<graph, phase>>
       ELSE IF rogueEvents = {}
       THEN /\ graph' = [graph EXCEPT !.complete = TRUE, !.active = FALSE]
            /\ UNCHANGED phase
       ELSE /\ graph' = [graph EXCEPT !.attempted = TRUE]
            /\ phase' = "pop"

Pop ==
    LET end  == IF Top.recording THEN Root ELSE FindEvent("end", NoPtr, 0)
        l    == Recorded
        left == Tracked(l, Depth)
        from == Moved(Top.cursor, left)
        rest == SubSeq(frames, 1, Depth - 1)
    IN  /\ Ready /\ ~(Depth = 1 /\ ~Top.recording /\ Top.cursor = Root /\ Top.excluded)
        /\ UNCHANGED held
        /\ IF end # Root
           THEN /\ EndOfScope(rest, cands)
                /\ UNCHANGED <<rogueVars, tree, snaps, live, cands, owned, placeVars>>
           ELSE IF ~MayRecord THEN Fails
           ELSE /\ HasEvent
                /\ Collected(left)
                /\ tree' = Appended(Severed(tree, left), from, NewEvent,
                                    Node("end", NoPtr, 0, from))
                /\ live' = l
                /\ EndOfScope(rest, cands \cup left)
                /\ UNCHANGED <<vm, ranges, rogues, faults, snaps, owned, placeVars>>

\* The candidates that handoff_rogues has not come to yet.
Pending == {e \in cands : tree[e].ptr \in DOMAIN candidates}

\* handoff_rogues for one candidate.
Handoff ==
    /\ phase \in {"pop", "abort"}
    /\ \E e \in Pending :
           LET ptr  == tree[e].ptr
               from == [p \in Covers(e) |-> IF ptr[1] = "large" THEN PhysSlot(vaPhys[p])
                                            ELSE SmallSlot(p)]
               mine == ~candidates[ptr]
           IN  /\ HandOff(ptr, tree[e].size, from)
               /\ owned' = IF mine THEN owned \cup {e} ELSE owned
               /\ holes' = IF mine /\ ptr[1] = "large"
                           THEN [v \in DOMAIN holes \cup Covers(e) |->
                                    IF v \in Covers(e) THEN ptr ELSE holes[v]]
                           ELSE holes
    /\ UNCHANGED <<faults, tree, snaps, live, frames, cands, vaPhys, smallSize, unusable,
                   graph, phase, held>>

\* A synchronization before or after the handoffs fails, or an allocation.
HandoffFails ==
    /\ phase \in {"pop", "abort"}
    /\ Fault
    /\ graph' = [graph EXCEPT !.failed = TRUE]
    /\ phase' = "run"
    /\ UNCHANGED <<vm, ranges, candidates, rogues, recordVars, placeVars, held>>

\* The physical pages that rogues keep, and the virtual pages they are at.
Shared      == UNION {PhysOf(e) : e \in Large(owned)}
Aliases(B)  == {v \in DOMAIN vaPhys : vaPhys[v] \in B}

\* The graph gets new memory for the physical pages of B and maps it wherever
\* no rogue is; stuck pages keep their mapping, lost ones have none.
Replaced(s, B, stuck, lost) ==
    LET room == Memory \ Allocated(s)
        new  == CHOOSE f \in [B -> room] : \A i, j \in B : f[i] = f[j] => i = j
        pages == {PhysSlot(i) : i \in B}
        maps == {MapSlot("large", v) : v \in Aliases(B) \ stuck}
        u    == Unreferenced(s, (maps \cup pages) \cap InUse(s))
        back == {MapSlot("large", v) : v \in Aliases(B) \ (stuck \cup lost \cup DOMAIN holes)}
        memory(x) == IF x \in pages THEN new[x[3]] ELSE new[vaPhys[x[3]]]
    IN  [page |-> [x \in InUse(u) \cup pages \cup back |->
                      IF x \in pages \cup back THEN memory(x) ELSE u.page[x]],
         addr |-> [x \in InUse(u) \cup pages \cup back |->
                      IF x \in pages THEN NoAddress
                      ELSE IF x \in back THEN <<"large", x[3]>> ELSE u.addr[x]],
         map  |-> [a \in DOMAIN u.map \cup {<<"large", x[3]>> : x \in back} |->
                      IF a \in DOMAIN u.map THEN u.map[a] ELSE new[vaPhys[a[2]]]]]

RoomToReplace == Cardinality(Shared) <= Cardinality(Memory \ Allocated(vm))

\* scrub_rogue_candidates
Scrubbed(l) == {a \in l : a.ev \notin cands}

\* free_rogue_candidates
ForgetCandidates ==
    /\ tree' = Drop(tree, cands)
    /\ cands' = {}
    /\ owned' = {}

\* Mutant of Finalize: only the place of the rogue gets new memory.
Finalize_KeepsShared ==
    /\ phase = "pop" /\ Pending = {}
    /\ unusable' = unusable \cup {[pages |-> Covers(e), ptr |-> tree[e].ptr] : e \in Small(owned)}
    /\ live' = Scrubbed(live)
    /\ snaps' = [e \in DOMAIN snaps |-> Scrubbed(snaps[e])]
    /\ ForgetCandidates
    /\ frames' = <<>>
    /\ graph' = [graph EXCEPT !.attempted = FALSE, !.complete = TRUE, !.active = FALSE]
    /\ phase' = "run"
    /\ UNCHANGED <<vm, ranges, candidates, rogues, faults, vaPhys, holes, smallSize, held>>

\* finalize_rogues behind the handoff, and the rest of the outermost pop.
Finalize ==
    /\ phase = "pop" /\ Pending = {} /\ RoomToReplace
    /\ vm' = Replaced(vm, Shared, {}, {})
    /\ unusable' = unusable \cup {[pages |-> Covers(e), ptr |-> tree[e].ptr] : e \in Small(owned)}
    /\ live' = Scrubbed(live)
    /\ snaps' = [e \in DOMAIN snaps |-> Scrubbed(snaps[e])]
    /\ ForgetCandidates
    /\ frames' = <<>>
    /\ graph' = [graph EXCEPT !.attempted = FALSE, !.complete = TRUE, !.active = FALSE]
    /\ phase' = "run"
    /\ UNCHANGED <<ranges, candidates, rogues, faults, vaPhys, holes, smallSize, held>>

\* A replacement cannot be created, or one mapping cannot be undone or made.
FinalizeFails ==
    /\ phase = "pop" /\ Pending = {}
    /\ IF RoomToReplace THEN Fault ELSE UNCHANGED faults
    /\ \/ UNCHANGED vm
       \/ \E v \in Aliases(Shared) :
             /\ RoomToReplace
             /\ \/ /\ MapSlot("large", v) \in InUse(vm)
                   /\ UnmapMayFail(vm, MapSlot("large", v))
                   /\ vm' = Replaced(vm, Shared, {v}, {})
                \/ v \notin DOMAIN holes /\ vm' = Replaced(vm, Shared, {}, {v})
    /\ graph' = [graph EXCEPT !.failed = TRUE]
    /\ phase' = "run"
    /\ UNCHANGED <<ranges, candidates, rogues, recordVars, placeVars, held>>

\* The trace of a graph that is not used again, which no call reads any more:
\* only the candidates are left of it.
OnlyCandidates(S) ==
    /\ frames' = <<>>
    /\ tree' = [e \in S \cup {Root} |->
                   IF e = Root THEN Node("scope", NoPtr, 0, Root)
                   ELSE [tree[e] EXCEPT !.prev = Root, !.next = <<>>]]
    /\ snaps' = [e \in {Root} |-> {}]
    /\ live' = {}

\* What the frame at depth d still owns, rebuilt from its cursor.
Owned(d) == Tracked(Materialized(frames[d].cursor, d), d)

\* abort_graph: what every frame owns is collected.  It is tried only once.
Abort ==
    LET left == UNION {Owned(d) : d \in 1..Depth} IN
    /\ graph.active /\ phase = "run" /\ ~graph.attempted
    /\ graph' = [graph EXCEPT !.attempted = TRUE, !.active = FALSE]
    /\ Collected(left)
    /\ OnlyCandidates(cands \cup left)
    /\ phase' = "abort"
    /\ UNCHANGED <<vm, ranges, rogues, faults, owned, placeVars, held>>

AbortEnds ==
    /\ phase = "abort" /\ Pending = {}
    /\ cands' = {} /\ owned' = {}
    /\ OnlyCandidates({})
    /\ graph' = [graph EXCEPT !.aborted = TRUE]
    /\ phase' = "run"
    /\ UNCHANGED <<rogueVars, placeVars, held>>

\* graph_failed notices that a candidate was freed: every call fails from now on.
NoticeFreed ==
    /\ graph.active /\ phase = "run" /\ GraphFailed /\ ~graph.failed
    /\ Fails /\ UNCHANGED held

-----------------------------------------------------------------------------
(* malloc_graph_destroy_checked.                                            *)

\* The references of the graph in the order they are released.
ReleaseOrder ==
    LET order == [v \in DOMAIN vaPhys |-> MapSlot("large", v)]
                 \o [i \in 1..PhysCount |-> PhysSlot(i)]
                 \o FlattenSeq([p \in 1..(smallSize + PageUnits) |->
                                   <<MapSlot("small", p - 1), SmallSlot(p - 1)>>])
    IN  SelectSeq(order, LAMBDA x : x \in InUse(vm))

MayDestroy == graph.bases # {} /\ ~graph.terminal /\ phase = "run"
              /\ (graph.complete \/ graph.aborted)

Destroyed(s, bases, terminal) ==
    /\ vm' = s
    /\ graph' = [graph EXCEPT !.bases = bases, !.terminal = terminal, !.closing = TRUE]
    /\ ranges' = [area \in Areas |->
                     ranges[area] - (IF area \in graph.bases \ bases THEN 1 ELSE 0)]
    /\ OnlyCandidates({}) /\ holes' = <<>> /\ unusable' = {}
    /\ UNCHANGED <<candidates, rogues, cands, owned, vaPhys, smallSize, phase, held>>

\* A release fails for want of memory and can be tried again, or for good.
\* The large range goes first.
Destroy ==
    /\ MayDestroy
    /\ \/ Destroyed(Unreferenced(vm, ToSet(ReleaseOrder)), {}, FALSE) /\ UNCHANGED faults
       \/ \E k \in DOMAIN ReleaseOrder, terminal \in BOOLEAN :
             LET x    == ReleaseOrder[k]
                 s    == Unreferenced(vm, ToSet(SubSeq(ReleaseOrder, 1, k - 1)))
                 u    == Unmapped(s, {x})
                 rest == ToSet(SubSeq(ReleaseOrder, k + 1, Len(ReleaseOrder)))
                 kept(t) == IF terminal THEN t ELSE Unreferenced(t, rest)
             IN  /\ Fault
                 /\ \/ UnmapMayFail(s, x) /\ Destroyed(kept(s), graph.bases, terminal)
                    \/ ReleaseMayFail(u, x) /\ Destroyed(kept(u), graph.bases, terminal)
       \/ \E area \in graph.bases, terminal \in BOOLEAN :
             /\ Fault /\ RangeMayFail(area)
             /\ Destroyed(Unreferenced(vm, ToSet(ReleaseOrder)),
                          IF area = "large" THEN graph.bases ELSE {"small"}, terminal)

-----------------------------------------------------------------------------
RogueStep ==
    /\ FreeStep
    /\ UNCHANGED <<recordVars, placeVars, graph, phase, held>>

Next ==
    \/ \E h \in 1..MaxHeld :
           \/ \E size \in Sizes : Alloc(h, size[1], size[2])
           \/ Free(h) \/ FreeRogue(h)
    \/ NoteExcluded \/ PushRoot \/ \E name \in Names : Push(name)
    \/ PopSkipped \/ Pop \/ Handoff \/ HandoffFails \/ Finalize \/ FinalizeFails
    \/ Abort \/ AbortEnds \/ NoticeFreed \/ Destroy \/ RogueStep

Spec == Init /\ [][Next]_graphVars

-----------------------------------------------------------------------------
(* Properties.                                                              *)

\* The memory the application uses: the units of the physical pages of its
\* allocations, as the driver maps them now.
Cells(h) ==
    IF held[h] = NoHeld THEN {}
    ELSE LET area  == held[h].ptr[1]
             first == held[h].ptr[2]
             last  == first + held[h].size - 1
         IN  IF area = "large"
             THEN {<<<<area, p>>, u>> : p \in first..last, u \in 0..(PageUnits - 1)}
             ELSE {<<<<area, i \div PageUnits>>, i % PageUnits>> : i \in first..last}
Memories(h) == {<<vm.map[c[1]], c[2]>> : c \in {d \in Cells(h) : d[1] \in DOMAIN vm.map}}

\* Types, and the references agree with the driver.
GraphTypeOK ==
    /\ PagesOK(vm)
    /\ \A area \in Areas : ranges[area] \in Nat
    /\ \A p \in DOMAIN candidates : candidates[p] \in BOOLEAN
    /\ \A e \in DOMAIN tree : /\ tree[e].prev \in DOMAIN tree
                              /\ ToSet(tree[e].next) \subseteq DOMAIN tree
    /\ graph.aborted \/ \A e \in DOMAIN snaps : LiveEvents(snaps[e]) \subseteq DOMAIN tree
    /\ graph.aborted \/ LiveEvents(live) \subseteq DOMAIN tree
    /\ cands \subseteq DOMAIN tree /\ owned \subseteq cands
    /\ \A d \in DOMAIN frames : frames[d].cursor \in DOMAIN tree
    /\ phase \in {"run", "pop", "abort"}
    /\ held \in [1..MaxHeld -> [ptr : (Areas \X Nat) \cup {NoPtr}, size : Nat]]

\* Whatever path the trace takes, allocations in use are mapped and no two of
\* them share memory: two virtual pages with the same physical page are never
\* given out together, and the memory of a rogue is not given out again.
AllocationsAreDisjoint ==
    /\ \A h \in 1..MaxHeld : \A c \in Cells(h) : c[1] \in DOMAIN vm.map
    /\ \A h, k \in 1..MaxHeld : h # k => Memories(h) \cap Memories(k) = {}

\* The memory under an allocation stays the same until the application frees
\* it: the remapping for rogues, aborts and destroyed graphs do not touch it.
HeldMemoryIsStable ==
    [][\A h \in 1..MaxHeld :
           held[h] # NoHeld /\ held'[h] = held[h] => Memories(h)' = Memories(h)]_graphVars

\* A root that is passed over did not take part in the compilation (comment in
\* malloc_graph_pop): nothing was allocated from the graph that still waits
\* for its handoff, and memory in use never loses its pages.
SkippedRootsAreIdle == graph.complete => cands = {}

\* When the graph is destroyed, the application has freed all it was given and
\* no driver call failed, all memory, mappings and addresses are back: of every
\* allocation that was freed out of its scope, while its handoff was under way or
\* afterwards, nothing is left.  The exception is the free that the graph
\* answered while it refused to record it (malloc_graph_free with assert_breaks,
\* or when materialize fails): abort hands that allocation to a rogue nobody
\* frees, and the rogue keeps just its own pages and one reference to the range.
NothingLeaks ==
    /\ graph.bases = {} /\ faults = 0
    /\ \A h \in 1..MaxHeld : held[h] = NoHeld
    /\ \A p \in DOMAIN rogues : ~rogues[p].freeing
    => /\ DOMAIN rogues \subseteq {graph.refused}
       /\ InUse(vm) = UNION {{RogueSlot(p, x) : x \in rogues[p].pages} : p \in DOMAIN rogues}
       /\ \A area \in Areas : ranges[area] = Cardinality({p \in DOMAIN rogues : p[1] = area})
=============================================================================
