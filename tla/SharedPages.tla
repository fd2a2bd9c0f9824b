---------------------------- MODULE SharedPages ----------------------------
(***************************************************************************)
(* Reference counted physical memory (src/vmm-ref.c).  A PhysicalPage is a *)
(* reference to an allocation of the driver and knows the address it is    *)
(* mapped at, if any.  Several references may name the same address; the   *)
(* last one of them unmaps it, and the last reference of all releases the  *)
(* memory.                                                                 *)
(*                                                                         *)
(* A reference is named by the place that keeps it, its slot.  The state s *)
(* of the driver and of every reference is a record:                       *)
(*   page  the allocation of each slot in use                              *)
(*   addr  the address of each slot in use                                 *)
(*   map   what the driver has mapped at each address                      *)
(* Every function below is one critical section of allocations_lock.       *)
(***************************************************************************)
EXTENDS Naturals, FiniteSets

CONSTANTS
    Memory,         \* the allocations the device has room for
    NoAddress       \* the address of a reference that maps nothing

NoPages == [page |-> <<>>, addr |-> <<>>, map |-> <<>>]

InUse(s)     == DOMAIN s.page
Allocated(s) == {s.page[x] : x \in InUse(s)}

Put(f, x, v) == [y \in DOMAIN f \cup {x} |-> IF y = x THEN v ELSE f[y]]
Drop(f, S)   == [y \in DOMAIN f \ S |-> f[y]]

\* physical_page_ref
Referenced(s, slot, memory, address) ==
    [s EXCEPT !.page = Put(@, slot, memory), !.addr = Put(@, slot, address)]

\* physical_page_alloc: the device is out of memory when nothing is free.
HasRoom(s)         == Memory \ Allocated(s) # {}
NewPage(s, slot)   == Referenced(s, slot, CHOOSE m \in Memory : m \notin Allocated(s),
                                 NoAddress)

\* physical_page_ref followed by cuMemMap; the driver refuses an address that
\* is mapped already.
MapRefused(s, address)         == address \in DOMAIN s.map
Mapped(s, slot, from, address) ==
    [Referenced(s, slot, s.page[from], address)
        EXCEPT !.map = Put(@, address, s.page[from])]

\* Mutant of SoleAt: every reference unmaps the address it was mapped at.
SoleAt_Always(s, S) == {x \in S : s.addr[x] # NoAddress}

\* The slots of S that no reference outside S shares an address with.
SoleAt(s, S) ==
    {x \in S : /\ s.addr[x] # NoAddress
               /\ \A y \in InUse(s) \ S : s.page[y] = s.page[x] => s.addr[y] # s.addr[x]}

\* The first half of physical_page_unref for all slots of S.
Unmapped(s, S) ==
    [s EXCEPT !.addr = [x \in InUse(s) |-> IF x \in S THEN NoAddress ELSE @[x]],
              !.map  = Drop(@, {s.addr[x] : x \in SoleAt(s, S)})]

\* physical_page_unref for all slots of S: their order does not matter, since
\* the state after all of them depends on what is left only.
Unreferenced(s, S) ==
    LET u == Unmapped(s, S)
    IN  [u EXCEPT !.page = Drop(@, S), !.addr = Drop(@, S)]

\* When physical_page_unref fails for a slot it kept either the mapping or,
\* after the unmap, the memory; either way the slot stays in use.
UnmapMayFail(s, x)   == x \in SoleAt(s, {x})
ReleaseMayFail(s, x) == \A y \in InUse(s) \ {x} : s.page[y] # s.page[x]

-----------------------------------------------------------------------------
(* What the references promise: memory is mapped only where a reference     *)
(* says so, hence it is never released while it is mapped.                  *)
PagesOK(s) ==
    /\ DOMAIN s.addr = DOMAIN s.page
    /\ \A x \in InUse(s) : s.addr[x] # NoAddress =>
           /\ s.addr[x] \in DOMAIN s.map
           /\ s.map[s.addr[x]] = s.page[x]
    /\ \A a \in DOMAIN s.map : \E x \in InUse(s) : s.addr[x] = a
=============================================================================
