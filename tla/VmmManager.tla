----------------------------- MODULE VmmManager -----------------------------
(***************************************************************************)
(* The owner of device virtual memory (src-xpu/vmm-manager.h) and the      *)
(* driver below it.  Addresses and sizes are in pages.  Several owners     *)
(* share a table; an address or a handle means something only within the   *)
(* context of its owner, and two contexts may use the same numbers.  Every *)
(* operation holds one mutex.  A driver call that fails has changed        *)
(* nothing.                                                                *)
(***************************************************************************)
EXTENDS Integers, FiniteSets

CONSTANTS
    Owners,         \* VmmOwner: records with the fields device and context
    Handles,        \* bound: the handles a driver can give out in a context
    Space,          \* bound: pages of a context's address space
    VmmSizes,       \* bound: sizes asked for
    Alignments      \* bound: alignments asked for, in pages

ASSUME VmmAssumption ==
    /\ Space \in Nat /\ Handles \subseteq Nat
    /\ VmmSizes \subseteq Nat \ {0} /\ Alignments \subseteq Nat \ {0}

VARIABLES
    reservations, physical, mappings,   \* the lists of VmmManager
    dres, dphys, dmap                   \* what the driver holds

vmmTables == <<reservations, physical, mappings>>
driver    == <<dres, dphys, dmap>>
vmmVars   == <<vmmTables, driver>>

NoSpan == <<0, 0>>

VmmInit ==
    /\ reservations = {} /\ physical = {} /\ mappings = {}
    /\ dres = {} /\ dphys = {} /\ dmap = {}

Contains(p, n, q, m) == p <= q /\ q + m <= p + n
Overlaps(p, n, q, m) == p < q + m /\ q < p + n
AlignUp(p, a) == ((p + a - 1) \div a) * a

\* reservation(owner, address, bytes): those that hold the range.
Reservation(o, lo, n) ==
    {r \in reservations : r.owner = o /\ Contains(r.lo, r.n, lo, n)}

\* The pages of mappings whose cleanup has not begun.
Covered(o, lo, n) ==
    LET hit == {m \in mappings : m.owner = o /\ Overlaps(lo, n, m.lo, m.n)} IN
    /\ \A m \in hit : Contains(lo, n, m.lo, m.n) /\ m.span = NoSpan
    /\ \A p \in lo .. lo + n - 1 : \E m \in hit : p \in m.lo .. m.lo + m.n - 1

-----------------------------------------------------------------------------

\* Where the driver may put a reservation.
Vacant(c, outer, n) ==
    /\ outer + n <= Space
    /\ \A d \in dres : d.context = c => ~Overlaps(outer, n, d.lo, d.n)

\* reserve: padded by the alignment, of which only the aligned interior is
\* given out.
Reserve(o, n, a, outer) ==
    /\ Vacant(o.context, outer, n + a - 1)
    /\ dres' = dres \cup {[context |-> o.context, lo |-> outer, n |-> n + a - 1]}
    /\ reservations' = reservations \cup
          {[owner |-> o, lo |-> AlignUp(outer, a), n |-> n, outer |-> outer, outerN |-> n + a - 1]}
    /\ UNCHANGED <<physical, mappings, dphys, dmap>>

\* Mutant of MayFree: only the first page is looked at.
MayFree_FirstPage(o, lo, n) ==
    /\ \E r \in Reservation(o, lo, n) : r.lo = lo /\ r.n = n
    /\ \A m \in mappings :
          m.owner.context = o.context => ~Overlaps(lo, 1, m.lo, m.n)

\* free: the exact range of a reservation nothing is mapped in.
MayFree(o, lo, n) ==
    /\ \E r \in Reservation(o, lo, n) : r.lo = lo /\ r.n = n
    /\ \A m \in mappings :
          m.owner.context = o.context => ~Overlaps(lo, n, m.lo, m.n)

FreeReserved(o, lo, n) ==
    /\ MayFree(o, lo, n)
    /\ \E r \in Reservation(o, lo, n) :
          /\ r.lo = lo /\ r.n = n
          /\ dres' = dres \ {[context |-> o.context, lo |-> r.outer, n |-> r.outerN]}
          /\ reservations' = reservations \ {r}
    /\ UNCHANGED <<physical, mappings, dphys, dmap>>

\* The handles the driver can give out; it takes the lowest one (a bound).
FreeHandles(c) == Handles \ {d.handle : d \in {x \in dphys : x.context = c}}

Create(o, h, n) ==
    /\ h \in FreeHandles(o.context) /\ \A g \in FreeHandles(o.context) : h <= g
    /\ dphys' = dphys \cup {[context |-> o.context, handle |-> h, n |-> n]}
    /\ physical' = physical \cup {[owner |-> o, handle |-> h, n |-> n]}
    /\ UNCHANGED <<reservations, mappings, dres, dmap>>

\* Mutant of MayMap: the span of an unfinished unmap is not looked at.
MayMap_InSpans(o, lo, n, h, off) ==
    /\ Reservation(o, lo, n) # {}
    /\ \E p \in physical : p.handle = h /\ p.owner = o /\ off + n <= p.n
    /\ \A m \in mappings :
          m.owner.context = o.context => ~Overlaps(lo, n, m.lo, m.n)

\* map: a free range, outside of every range whose cleanup is unfinished.
MayMap(o, lo, n, h, off) ==
    /\ Reservation(o, lo, n) # {}
    /\ \E p \in physical : p.handle = h /\ p.owner = o /\ off + n <= p.n
    /\ \A m \in mappings :
          m.owner.context = o.context =>
             /\ ~Overlaps(lo, n, m.lo, m.n)
             /\ m.span # NoSpan => ~Overlaps(lo, n, m.span[1], m.span[2])

Map(o, lo, n, h, off) ==
    /\ MayMap(o, lo, n, h, off)
    /\ dmap' = dmap \cup {[context |-> o.context, lo |-> lo, n |-> n, handle |-> h, off |-> off]}
    /\ mappings' = mappings \cup
          {[owner |-> o, lo |-> lo, n |-> n, handle |-> h, off |-> off, span |-> NoSpan]}
    /\ UNCHANGED <<reservations, physical, dres, dphys>>

\* unmap: whole mappings, and of those whose cleanup has begun only with the
\* range it began with.
MayUnmap(o, lo, n) ==
    LET near == {m \in mappings : m.owner.context = o.context} IN
    /\ Reservation(o, lo, n) # {}
    /\ \A m \in near :
          Overlaps(lo, n, m.lo, m.n) =>
             /\ m.owner = o /\ Contains(lo, n, m.lo, m.n)
             /\ m.span \in {NoSpan, <<lo, n>>}
    /\ \/ \E m \in near : m.owner = o /\ m.span = <<lo, n>>
       \/ Covered(o, lo, n)

Doomed(o, lo, n) == {m \in mappings : m.owner = o /\ Contains(lo, n, m.lo, m.n)}
DriverMapping(m) ==
    [context |-> m.owner.context, lo |-> m.lo, n |-> m.n, handle |-> m.handle, off |-> m.off]

\* Mutant of Unmap: mappings are forgotten though the driver refused them.
Unmap_Forgets(o, lo, n, kept) ==
    /\ MayUnmap(o, lo, n) /\ kept \subseteq Doomed(o, lo, n)
    /\ mappings' = mappings \ Doomed(o, lo, n)
    /\ dmap' = dmap \ {DriverMapping(m) : m \in Doomed(o, lo, n) \ kept}
    /\ UNCHANGED <<reservations, physical, dres, dphys>>

\* The driver unmaps one mapping after the other and may fail before all are
\* done; those that are kept wait for a repetition.
Unmap(o, lo, n, kept) ==
    /\ MayUnmap(o, lo, n) /\ kept \subseteq Doomed(o, lo, n)
    /\ mappings' = (mappings \ Doomed(o, lo, n)) \cup {[m EXCEPT !.span = <<lo, n>>] : m \in kept}
    /\ dmap' = dmap \ {DriverMapping(m) : m \in Doomed(o, lo, n) \ kept}
    /\ UNCHANGED <<reservations, physical, dres, dphys>>

\* Mutant of MayDestroy: mappings whose cleanup has begun do not count.
MayDestroy_Unfinished(o, h) ==
    /\ \E p \in physical : p.handle = h /\ p.owner = o
    /\ \A m \in mappings :
          ~(m.owner.context = o.context /\ m.handle = h /\ m.span = NoSpan)

\* destroy: physical memory that nothing in the context maps.
MayDestroy(o, h) ==
    /\ \E p \in physical : p.handle = h /\ p.owner = o
    /\ \A m \in mappings : ~(m.owner.context = o.context /\ m.handle = h)

DestroyPhysical(o, h) ==
    /\ MayDestroy(o, h)
    /\ \E p \in physical :
          /\ p.handle = h /\ p.owner = o
          /\ dphys' = dphys \ {[context |-> o.context, handle |-> h, n |-> p.n]}
          /\ physical' = physical \ {p}
    /\ UNCHANGED <<reservations, mappings, dres, dmap>>

-----------------------------------------------------------------------------
(* Properties.                                                              *)

\* The lists are what the driver holds, one entry each.
TablesMatchDriver ==
    /\ dres  = {[context |-> r.owner.context, lo |-> r.outer, n |-> r.outerN] : r \in reservations}
    /\ dphys = {[context |-> p.owner.context, handle |-> p.handle, n |-> p.n] : p \in physical}
    /\ dmap  = {DriverMapping(m) : m \in mappings}

\* Whatever failed, the manager knows what the driver holds ("Failed releases
\* retain the owner and accounting", vmm-manager.h:4), and nothing mapped
\* loses its ground: a mapping lies in one reservation and within one piece of
\* physical memory, both of its own owner, and no two mappings of a context
\* share an address.
MappingsAreGrounded ==
    /\ TablesMatchDriver
    /\ \A m \in mappings :
          /\ \E r \in reservations : r.owner = m.owner /\ Contains(r.lo, r.n, m.lo, m.n)
          /\ \E p \in physical : p.owner = m.owner /\ p.handle = m.handle /\ m.off + m.n <= p.n
    /\ \A m1, m2 \in mappings :
          m1 # m2 /\ m1.owner.context = m2.owner.context => ~Overlaps(m1.lo, m1.n, m2.lo, m2.n)

\* An unmap that stopped half way keeps its range to itself: it lies in a
\* reservation, and whatever is mapped in it is part of the same cleanup, so
\* that repeating the same call is always accepted and finishes it.
CleanupsCanBeRepeated ==
    \A m \in mappings :
       m.span # NoSpan =>
          /\ MayUnmap(m.owner, m.span[1], m.span[2])
          /\ \A k \in mappings :
                /\ k.owner.context = m.owner.context
                /\ Overlaps(m.span[1], m.span[2], k.lo, k.n)
                => k.span = m.span /\ k.owner = m.owner
=============================================================================
