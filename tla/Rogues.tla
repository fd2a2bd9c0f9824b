------------------------------- MODULE Rogues -------------------------------
(***************************************************************************)
(* Rogue allocations (src/malloc-rogue.c): memory of a malloc graph that   *)
(* the application kept past the end of a recorded scope.  At the end of   *)
(* the scope it is registered as a candidate; at the end of the outermost  *)
(* scope a candidate is handed to a Rogue, which has references of its own *)
(* to the pages and outlives the graph.  Any thread may free either.       *)
(*                                                                         *)
(* The lists are guarded by allocations_lock, but free_rogue releases it   *)
(* while it synchronizes the device and drops the references: these are    *)
(* separate steps here.                                                    *)
(***************************************************************************)
EXTENDS SharedPages, Sequences

CONSTANTS
    PageUnits,      \* the units of a page small allocations are made of
    MaxFrees,       \* bound: rogues that are being freed at the same time
    MaxFaults       \* bound: driver calls and allocations that fail

VARIABLES
    vm,             \* the physical pages (SharedPages)
    ranges,         \* references to the two reserved address ranges
    candidates,     \* global_rogue_candidates: pointer -> freed
    rogues,         \* rogues: pointer -> the Rogue
    faults          \* calls that failed so far

rogueVars == <<vm, ranges, candidates, rogues, faults>>

\* A pointer names a page of the large range or a unit of the small one.
Areas == {"large", "small"}

\* The pages a pointer and its size (in pages or units) touch.
PagesOf(ptr, size) ==
    IF ptr[1] = "large" THEN ptr[2]..(ptr[2] + size - 1)
    ELSE (ptr[2] \div PageUnits)..((ptr[2] + size - 1) \div PageUnits)

RogueSlot(ptr, page) == <<"rogue", ptr[1], ptr[2], page>>

RoguesInit ==
    /\ vm = NoPages
    /\ ranges = [area \in Areas |-> 1]
    /\ candidates = <<>>
    /\ rogues = <<>>
    /\ faults = 0

Fault == faults < MaxFaults /\ faults' = faults + 1

\* The Rogue gets references of its own, at the addresses the pages have.
BecomesRogue(ptr, size, from) ==
    LET new == {RogueSlot(ptr, p) : p \in PagesOf(ptr, size)} IN
    /\ rogues' = Put(rogues, ptr, [pages |-> PagesOf(ptr, size), freeing |-> FALSE])
    /\ ranges' = [ranges EXCEPT ![ptr[1]] = @ + 1]
    /\ vm' = [vm EXCEPT
           !.page = [x \in DOMAIN @ \cup new |->
                        IF x \in new THEN vm.page[from[x[4]]] ELSE @[x]],
           !.addr = [x \in DOMAIN @ \cup new |->
                        IF x \in new THEN <<ptr[1], x[4]>> ELSE @[x]]]

\* Mutant of HandOff: a free that came in the meantime is overlooked.
HandOff_KeepsFreed(ptr, size, from) ==
    /\ candidates' = Drop(candidates, {ptr})
    /\ BecomesRogue(ptr, size, from)

\* handoff_rogue: the references are dropped again if the candidate was freed
\* in the meantime, which is decided under the lock.
HandOff(ptr, size, from) ==
    /\ candidates' = Drop(candidates, {ptr})
    /\ IF candidates[ptr] THEN UNCHANGED <<vm, ranges, rogues>>
                          ELSE BecomesRogue(ptr, size, from)

\* free_rogue knows the pointer.
Known(ptr) == ptr \in DOMAIN rogues \cup DOMAIN candidates

\* The first critical section of free_rogue.
BeginFree(ptr) ==
    /\ Known(ptr)
    /\ ptr \in DOMAIN rogues =>
           Cardinality({p \in DOMAIN rogues : rogues[p].freeing}) < MaxFrees
    /\ IF ptr \in DOMAIN rogues
       THEN /\ rogues' = [rogues EXCEPT ![ptr].freeing = TRUE]
            /\ UNCHANGED candidates
       ELSE /\ candidates' = [candidates EXCEPT ![ptr] = TRUE]
            /\ UNCHANGED rogues
    /\ UNCHANGED <<vm, ranges, faults>>

\* After the device is synchronized, one reference after the other is dropped.
\* The error of a reference that stays is returned; the rogue forgets it.
DropPage(ptr) ==
    /\ rogues[ptr].freeing /\ rogues[ptr].pages # {}
    /\ LET p    == CHOOSE q \in rogues[ptr].pages :
                       \A r \in rogues[ptr].pages : q <= r
           slot == RogueSlot(ptr, p)
       IN  /\ rogues' = [rogues EXCEPT ![ptr].pages = @ \ {p}]
           /\ \/ vm' = Unreferenced(vm, {slot}) /\ UNCHANGED faults
              \/ Fault /\ UnmapMayFail(vm, slot) /\ UNCHANGED vm
              \/ Fault /\ ReleaseMayFail(vm, slot) /\ vm' = Unmapped(vm, {slot})
    /\ UNCHANGED <<ranges, candidates>>

\* virtual_range_unref: the driver may refuse to take the address range back,
\* and the last reference stays.
RangeMayFail(area) == ranges[area] = 1

\* The reference to the range, then the rogue leaves the list in any case.
EndFree(ptr) ==
    /\ rogues[ptr].freeing /\ rogues[ptr].pages = {}
    /\ \/ ranges' = [ranges EXCEPT ![ptr[1]] = @ - 1] /\ UNCHANGED faults
       \/ Fault /\ RangeMayFail(ptr[1]) /\ UNCHANGED ranges
    /\ rogues' = Drop(rogues, {ptr})
    /\ UNCHANGED <<vm, candidates>>

FreeStep == \E ptr \in DOMAIN rogues : DropPage(ptr) \/ EndFree(ptr)
=============================================================================
