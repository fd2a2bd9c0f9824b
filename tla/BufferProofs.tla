---------------------------- MODULE BufferProofs ----------------------------
(***************************************************************************)
(* Proofs about the two buffers of the library that grow, for every size,  *)
(* chunk, page, limit, number of threads and number of failures.           *)
(*                                                                         *)
(* The device buffer (VramBuffer) and the owner of device virtual memory   *)
(* below it: the manager's tables stay what the driver holds, nothing      *)
(* mapped loses its ground, an unmap that stopped half way can always be   *)
(* repeated, and the buffer keeps what it has given out.  VmmInv is        *)
(* inductive for every operation of the manager, one lemma each; the       *)
(* specification that uses them is the device buffer next to a client that *)
(* may ask for anything.  BufInv adds to it how the chunks lie (all of them *)
(* whole, but for one that ends at max_size), that no other owner can      *)
(* remove a mapping of the buffer, and that the buffer's own unmaps hit no *)
(* chunk but the one they are meant for.  CleanInv follows what the buffer *)
(* still has while it is destroyed: as long as no driver call failed the   *)
(* manager accepts every release, and nothing stays behind.                *)
(*                                                                         *)
(* The host buffer (HostBuffer), its decommit queue and its prewarm        *)
(* threads: what the caller holds stays committed and touched.  The        *)
(* invariant says what is committed for good (Live): all of it, or what a  *)
(* truncation under way keeps.  What is queued lies behind that, what the  *)
(* pool touches lies behind what is in use, and the two are never there    *)
(* together.                                                               *)
(***************************************************************************)
EXTENDS VramBuffer, HostBuffer, TLAPS

-----------------------------------------------------------------------------
(* The manager of device virtual memory.                                     *)

ReservationRecords ==
    [owner : Owners, lo : Nat, n : Nat \ {0}, outer : Nat, outerN : Nat \ {0}]
PhysicalRecords == [owner : Owners, handle : Nat, n : Nat]
MappingRecords ==
    [owner : Owners, lo : Nat, n : Nat \ {0}, handle : Nat, off : Nat, span : Nat \X Nat]

VmmTypeOK ==
    /\ reservations \subseteq ReservationRecords
    /\ physical \subseteq PhysicalRecords
    /\ mappings \subseteq MappingRecords

\* What the driver set aside contains what is given out, and never overlaps.
ReservationsAreApart ==
    /\ \A r \in reservations : Contains(r.outer, r.outerN, r.lo, r.n)
    /\ \A r1, r2 \in reservations :
          r1 # r2 /\ r1.owner.context = r2.owner.context
          => ~Overlaps(r1.outer, r1.outerN, r2.outer, r2.outerN)

HandlesAreUnique ==
    \A p1, p2 \in physical :
       p1 # p2 /\ p1.owner.context = p2.owner.context => p1.handle # p2.handle

\* A mapping whose cleanup has begun lies in the range of the cleanup, which
\* lies in a reservation and holds nothing else.
SpansAreOwned ==
    \A m \in mappings :
       m.span # NoSpan =>
          /\ \E r \in reservations :
                r.owner = m.owner /\ Contains(r.lo, r.n, m.span[1], m.span[2])
          /\ Contains(m.span[1], m.span[2], m.lo, m.n)
          /\ \A k \in mappings :
                /\ k.owner.context = m.owner.context
                /\ Overlaps(m.span[1], m.span[2], k.lo, k.n)
                => k.span = m.span /\ k.owner = m.owner

VmmInv ==
    /\ VmmTypeOK /\ ReservationsAreApart /\ HandlesAreUnique
    /\ SpansAreOwned /\ MappingsAreGrounded

\* Rounding up to a multiple never goes down, and by less than one multiple.
LEMMA RoundingUp ==
    ASSUME NEW p \in Nat, NEW a \in Nat \ {0}
    PROVE  /\ ((p + a - 1) \div a) * a \in Nat
           /\ p <= ((p + a - 1) \div a) * a
           /\ ((p + a - 1) \div a) * a <= p + a - 1
<1>1. p <= ((p + a - 1) \div a) * a
    OBVIOUS
<1>2. ((p + a - 1) \div a) * a <= p + a - 1
    OBVIOUS
<1>3. ((p + a - 1) \div a) * a \in Int
    OBVIOUS
<1>. QED  BY <1>1, <1>2, <1>3

\* The invariant depends on the lists and on what the driver holds only.
LEMMA VmmUnchanged == VmmInv /\ UNCHANGED vmmVars => VmmInv'
BY DEF VmmInv, vmmVars, vmmTables, driver, VmmTypeOK, ReservationsAreApart, HandlesAreUnique,
       SpansAreOwned, MappingsAreGrounded, TablesMatchDriver

\* Nothing is held in the beginning.
LEMMA VmmStarts == VmmInit => VmmInv
BY DEF VmmInit, VmmInv, VmmTypeOK, ReservationsAreApart, HandlesAreUnique, SpansAreOwned,
       MappingsAreGrounded, TablesMatchDriver

\* An unfinished unmap is accepted when it is repeated.
LEMMA Repeatable == VmmInv => CleanupsCanBeRepeated
<1>. SUFFICES ASSUME VmmInv, NEW m \in mappings, m.span # NoSpan
              PROVE  /\ MayUnmap(m.owner, m.span[1], m.span[2])
                     /\ \A k \in mappings :
                           /\ k.owner.context = m.owner.context
                           /\ Overlaps(m.span[1], m.span[2], k.lo, k.n)
                           => k.span = m.span /\ k.owner = m.owner
    BY DEF CleanupsCanBeRepeated
<1>1. m.span = <<m.span[1], m.span[2]>>
    BY DEF VmmInv, VmmTypeOK, MappingRecords
<1>2. Reservation(m.owner, m.span[1], m.span[2]) # {}
    BY DEF VmmInv, SpansAreOwned, Reservation
<1>3. ASSUME NEW k \in mappings, k.owner.context = m.owner.context,
             Overlaps(m.span[1], m.span[2], k.lo, k.n)
      PROVE  /\ k.owner = m.owner /\ k.span = m.span
             /\ Contains(m.span[1], m.span[2], k.lo, k.n)
    <2>1. k.span = m.span /\ k.owner = m.owner
        BY <1>3 DEF VmmInv, SpansAreOwned
    <2>2. Contains(k.span[1], k.span[2], k.lo, k.n)
        BY <2>1 DEF VmmInv, SpansAreOwned
    <2>. QED  BY <2>1, <2>2
<1>. QED  BY <1>1, <1>2, <1>3 DEF MayUnmap

-----------------------------------------------------------------------------
(* One lemma per operation of the manager.                                  *)

LEMMA ReserveKeeps ==
    ASSUME VmmInv, NEW o \in Owners, NEW n \in Nat \ {0}, NEW a \in Nat \ {0},
           NEW outer \in Nat, Space \in Nat, Reserve(o, n, a, outer)
    PROVE  VmmInv'
<1>. DEFINE r == [owner |-> o, lo |-> AlignUp(outer, a), n |-> n,
                  outer |-> outer, outerN |-> n + a - 1]
<1>1. /\ reservations' = reservations \cup {r}
      /\ dres' = dres \cup {[context |-> o.context, lo |-> outer, n |-> n + a - 1]}
      /\ UNCHANGED <<physical, mappings, dphys, dmap>>
      /\ Vacant(o.context, outer, n + a - 1)
    BY DEF Reserve
<1>2. r \in ReservationRecords /\ Contains(r.outer, r.outerN, r.lo, r.n)
    <2>1. AlignUp(outer, a) \in Nat /\ outer <= AlignUp(outer, a) /\ AlignUp(outer, a) <= outer + a - 1
        BY RoundingUp DEF AlignUp
    <2>2. Contains(outer, n + a - 1, AlignUp(outer, a), n)
        BY <2>1 DEF Contains
    <2>3. n + a - 1 \in Nat \ {0}
        OBVIOUS
    <2>. QED  BY <2>1, <2>2, <2>3 DEF ReservationRecords
<1>3. VmmTypeOK'
    BY <1>1, <1>2 DEF VmmInv, VmmTypeOK
<1>4. \A x \in reservations :
         x.owner.context = o.context => /\ ~Overlaps(outer, n + a - 1, x.outer, x.outerN)
                                        /\ ~Overlaps(x.outer, x.outerN, outer, n + a - 1)
    <2>1. \A x \in reservations :
             [context |-> x.owner.context, lo |-> x.outer, n |-> x.outerN] \in dres
        BY DEF VmmInv, MappingsAreGrounded, TablesMatchDriver
    <2>. QED  BY <1>1, <2>1 DEF Vacant, Overlaps
<1>5. ReservationsAreApart'
    BY <1>1, <1>2, <1>4 DEF VmmInv, ReservationsAreApart
<1>6. TablesMatchDriver'
    <2>. DEFINE Held(x) == [context |-> x.owner.context, lo |-> x.outer, n |-> x.outerN]
    <2>1. TablesMatchDriver
        BY DEF VmmInv, MappingsAreGrounded
    <2>2. dres = {Held(x) : x \in reservations}
        BY <2>1 DEF TablesMatchDriver
    <2>3. dres' = dres \cup {Held(r)}
        BY <1>1
    <2>4. dres' = {Held(x) : x \in reservations'}
        <3>. HIDE DEF Held, r
        <3>. QED  BY <1>1, <2>2, <2>3
    <2>. QED  BY <1>1, <2>1, <2>4 DEF TablesMatchDriver
<1>7. MappingsAreGrounded'
    BY <1>1, <1>6 DEF VmmInv, MappingsAreGrounded
<1>8. SpansAreOwned' /\ HandlesAreUnique'
    BY <1>1 DEF VmmInv, SpansAreOwned, HandlesAreUnique
<1>. QED  BY <1>3, <1>5, <1>7, <1>8 DEF VmmInv

LEMMA FreeKeeps ==
    ASSUME VmmInv, NEW o \in Owners, NEW lo, NEW n, FreeReserved(o, lo, n)
    PROVE  VmmInv'
<1>1. PICK r \in reservations :
          /\ r.owner = o /\ r.lo = lo /\ r.n = n
          /\ dres' = dres \ {[context |-> o.context, lo |-> r.outer, n |-> r.outerN]}
          /\ reservations' = reservations \ {r}
    <2>1. \E r \in Reservation(o, lo, n) :
             /\ r.lo = lo /\ r.n = n
             /\ dres' = dres \ {[context |-> o.context, lo |-> r.outer, n |-> r.outerN]}
             /\ reservations' = reservations \ {r}
        BY DEF FreeReserved
    <2>2. \A r \in Reservation(o, lo, n) : r \in reservations /\ r.owner = o
        BY DEF Reservation
    <2>. QED  BY <2>1, <2>2
<1>2. UNCHANGED <<physical, mappings, dphys, dmap>>
    BY DEF FreeReserved
<1>3. \A m \in mappings : m.owner.context = o.context => ~Overlaps(r.lo, r.n, m.lo, m.n)
    BY <1>1 DEF FreeReserved, MayFree
<1>4. \A x \in reservations : x # r /\ x.owner.context = o.context => x.outer # r.outer
    BY <1>1 DEF VmmInv, VmmTypeOK, ReservationRecords, ReservationsAreApart, Overlaps
<1>5. dres' = {[context |-> x.owner.context, lo |-> x.outer, n |-> x.outerN] : x \in reservations'}
    <2>1. dres = {[context |-> x.owner.context, lo |-> x.outer, n |-> x.outerN] : x \in reservations}
        BY DEF VmmInv, MappingsAreGrounded, TablesMatchDriver
    <2>2. \A x \in reservations :
             [context |-> x.owner.context, lo |-> x.outer, n |-> x.outerN]
                 = [context |-> o.context, lo |-> r.outer, n |-> r.outerN]
             => x = r
        BY <1>4
    <2>. QED  BY <1>1, <2>1, <2>2
<1>6. TablesMatchDriver'
    BY <1>2, <1>5 DEF VmmInv, MappingsAreGrounded, TablesMatchDriver
<1>7. \A m \in mappings : \A x \in reservations :
         x.owner = m.owner /\ Contains(x.lo, x.n, m.lo, m.n) => x # r
    BY <1>1, <1>3 DEF VmmInv, VmmTypeOK, ReservationRecords, MappingRecords, Contains, Overlaps
<1>8. MappingsAreGrounded'
    BY <1>1, <1>2, <1>6, <1>7 DEF VmmInv, MappingsAreGrounded
<1>9. \A m \in mappings : m.span # NoSpan =>
         \A x \in reservations :
            x.owner = m.owner /\ Contains(x.lo, x.n, m.span[1], m.span[2]) => x # r
    <2>. SUFFICES ASSUME NEW m \in mappings, m.span # NoSpan, NEW x \in reservations,
                         x.owner = m.owner, Contains(x.lo, x.n, m.span[1], m.span[2])
                  PROVE  x # r
        OBVIOUS
    <2>1. Contains(m.span[1], m.span[2], m.lo, m.n)
        BY DEF VmmInv, SpansAreOwned
    <2>2. Contains(x.lo, x.n, m.lo, m.n)
        BY <2>1 DEF VmmInv, VmmTypeOK, ReservationRecords, MappingRecords, Contains
    <2>. QED  BY <2>2, <1>7
<1>10. SpansAreOwned'
    BY <1>1, <1>2, <1>9 DEF VmmInv, SpansAreOwned
<1>11. VmmTypeOK' /\ ReservationsAreApart' /\ HandlesAreUnique'
    BY <1>1, <1>2 DEF VmmInv, VmmTypeOK, ReservationsAreApart, HandlesAreUnique
<1>. QED  BY <1>8, <1>10, <1>11 DEF VmmInv

LEMMA CreateKeeps ==
    ASSUME VmmInv, Handles \subseteq Nat, NEW o \in Owners, NEW h, NEW n \in Nat, Create(o, h, n)
    PROVE  VmmInv'
<1>. DEFINE p == [owner |-> o, handle |-> h, n |-> n]
<1>1. /\ physical' = physical \cup {p}
      /\ dphys' = dphys \cup {[context |-> o.context, handle |-> h, n |-> n]}
      /\ UNCHANGED <<reservations, mappings, dres, dmap>>
      /\ h \in FreeHandles(o.context)
    BY DEF Create
<1>2. h \in Nat /\ \A d \in dphys : d.context = o.context => d.handle # h
    BY <1>1 DEF FreeHandles
<1>3. \A x \in physical : x.owner.context = o.context => x.handle # h
    <2>1. \A x \in physical :
             [context |-> x.owner.context, handle |-> x.handle, n |-> x.n] \in dphys
        BY DEF VmmInv, MappingsAreGrounded, TablesMatchDriver
    <2>. QED  BY <1>2, <2>1
<1>4. HandlesAreUnique'
    BY <1>1, <1>3 DEF VmmInv, HandlesAreUnique
<1>5. VmmTypeOK'
    BY <1>1, <1>2 DEF VmmInv, VmmTypeOK, PhysicalRecords
<1>6. TablesMatchDriver'
    <2>. DEFINE Held(x) == [context |-> x.owner.context, handle |-> x.handle, n |-> x.n]
    <2>1. TablesMatchDriver
        BY DEF VmmInv, MappingsAreGrounded
    <2>2. dphys = {Held(x) : x \in physical}
        BY <2>1 DEF TablesMatchDriver
    <2>3. dphys' = dphys \cup {Held(p)}
        BY <1>1
    <2>4. dphys' = {Held(x) : x \in physical'}
        <3>. HIDE DEF Held, p
        <3>. QED  BY <1>1, <2>2, <2>3
    <2>. QED  BY <1>1, <2>1, <2>4 DEF TablesMatchDriver
<1>7. MappingsAreGrounded'
    BY <1>1, <1>6 DEF VmmInv, MappingsAreGrounded
<1>8. SpansAreOwned' /\ ReservationsAreApart'
    BY <1>1 DEF VmmInv, SpansAreOwned, ReservationsAreApart
<1>. QED  BY <1>4, <1>5, <1>7, <1>8 DEF VmmInv

LEMMA DestroyPhysicalKeeps ==
    ASSUME VmmInv, NEW o \in Owners, NEW h, DestroyPhysical(o, h)
    PROVE  VmmInv'
<1>1. PICK p \in physical :
          /\ p.handle = h /\ p.owner = o
          /\ dphys' = dphys \ {[context |-> o.context, handle |-> h, n |-> p.n]}
          /\ physical' = physical \ {p}
    BY DEF DestroyPhysical
<1>2. UNCHANGED <<reservations, mappings, dres, dmap>>
    BY DEF DestroyPhysical
<1>3. \A m \in mappings : ~(m.owner.context = o.context /\ m.handle = h)
    BY DEF DestroyPhysical, MayDestroy
<1>4. dphys' = {[context |-> x.owner.context, handle |-> x.handle, n |-> x.n] : x \in physical'}
    <2>1. dphys = {[context |-> x.owner.context, handle |-> x.handle, n |-> x.n] : x \in physical}
        BY DEF VmmInv, MappingsAreGrounded, TablesMatchDriver
    <2>2. \A x \in physical :
             [context |-> x.owner.context, handle |-> x.handle, n |-> x.n]
                 = [context |-> o.context, handle |-> h, n |-> p.n]
             => x = p
        BY <1>1 DEF VmmInv, HandlesAreUnique
    <2>. QED  BY <1>1, <2>1, <2>2
<1>5. TablesMatchDriver'
    BY <1>2, <1>4 DEF VmmInv, MappingsAreGrounded, TablesMatchDriver
<1>6. \A m \in mappings : \A x \in physical : x.owner = m.owner /\ x.handle = m.handle => x # p
    BY <1>1, <1>3
<1>7. MappingsAreGrounded'
    BY <1>1, <1>2, <1>5, <1>6 DEF VmmInv, MappingsAreGrounded
<1>8. VmmTypeOK' /\ HandlesAreUnique' /\ SpansAreOwned' /\ ReservationsAreApart'
    BY <1>1, <1>2 DEF VmmInv, VmmTypeOK, HandlesAreUnique, SpansAreOwned, ReservationsAreApart
<1>. QED  BY <1>7, <1>8 DEF VmmInv

LEMMA MapKeeps ==
    ASSUME VmmInv, NEW o \in Owners, NEW lo \in Nat, NEW n \in Nat \ {0}, NEW h, NEW off \in Nat,
           Map(o, lo, n, h, off)
    PROVE  VmmInv'
<1>. DEFINE m == [owner |-> o, lo |-> lo, n |-> n, handle |-> h, off |-> off, span |-> NoSpan]
<1>1. /\ mappings' = mappings \cup {m}
      /\ dmap' = dmap \cup {DriverMapping(m)}
      /\ UNCHANGED <<reservations, physical, dres, dphys>>
      /\ MayMap(o, lo, n, h, off)
    BY DEF Map, DriverMapping
<1>2. PICK r \in reservations : r.owner = o /\ Contains(r.lo, r.n, lo, n)
    BY <1>1 DEF MayMap, Reservation
<1>3. PICK p \in physical : p.owner = o /\ p.handle = h /\ off + n <= p.n
    BY <1>1 DEF MayMap
<1>4. \A k \in mappings : k.owner.context = o.context =>
         /\ ~Overlaps(lo, n, k.lo, k.n) /\ ~Overlaps(k.lo, k.n, lo, n)
         /\ k.span # NoSpan => ~Overlaps(k.span[1], k.span[2], lo, n)
    BY <1>1 DEF MayMap, Overlaps
<1>5. m \in MappingRecords
    BY <1>3 DEF MappingRecords, NoSpan, VmmInv, VmmTypeOK, PhysicalRecords
<1>6. VmmTypeOK'
    BY <1>1, <1>5 DEF VmmInv, VmmTypeOK
<1>7. SpansAreOwned'
    <2>. SUFFICES ASSUME NEW x \in mappings', x.span # NoSpan
                  PROVE  /\ \E s \in reservations' :
                               s.owner = x.owner /\ Contains(s.lo, s.n, x.span[1], x.span[2])
                         /\ Contains(x.span[1], x.span[2], x.lo, x.n)
                         /\ \A k \in mappings' :
                               /\ k.owner.context = x.owner.context
                               /\ Overlaps(x.span[1], x.span[2], k.lo, k.n)
                               => k.span = x.span /\ k.owner = x.owner
        BY DEF SpansAreOwned
    <2>1. x \in mappings
        BY <1>1
    <2>2. x.owner.context = o.context => ~Overlaps(x.span[1], x.span[2], m.lo, m.n)
        BY <1>4, <2>1
    <2>. QED  BY <1>1, <2>1, <2>2 DEF VmmInv, SpansAreOwned
<1>8. TablesMatchDriver'
    <2>1. TablesMatchDriver
        BY DEF VmmInv, MappingsAreGrounded
    <2>2. dmap' = {DriverMapping(x) : x \in mappings'}
        <3>1. dmap = {DriverMapping(x) : x \in mappings}
            BY <2>1 DEF TablesMatchDriver
        <3>. HIDE DEF m
        <3>. QED  BY <1>1, <3>1
    <2>. QED  BY <1>1, <2>1, <2>2 DEF TablesMatchDriver
<1>9. \A x \in mappings' :
         /\ \E s \in reservations' : s.owner = x.owner /\ Contains(s.lo, s.n, x.lo, x.n)
         /\ \E q \in physical' : q.owner = x.owner /\ q.handle = x.handle /\ x.off + x.n <= q.n
    BY <1>1, <1>2, <1>3 DEF VmmInv, MappingsAreGrounded
<1>10. \A x, y \in mappings' :
          x # y /\ x.owner.context = y.owner.context => ~Overlaps(x.lo, x.n, y.lo, y.n)
    BY <1>1, <1>4 DEF VmmInv, MappingsAreGrounded
<1>11. ReservationsAreApart' /\ HandlesAreUnique'
    BY <1>1 DEF VmmInv, ReservationsAreApart, HandlesAreUnique
<1>. QED  BY <1>6, <1>7, <1>8, <1>9, <1>10, <1>11 DEF VmmInv, MappingsAreGrounded

LEMMA UnmapKeeps ==
    ASSUME VmmInv, NEW o \in Owners, NEW lo \in Nat, NEW n \in Nat \ {0}, NEW kept,
           Unmap(o, lo, n, kept)
    PROVE  VmmInv'
<1>. DEFINE D == Doomed(o, lo, n)
            Respanned(m) == [m EXCEPT !.span = <<lo, n>>]
<1>1. /\ mappings' = (mappings \ D) \cup {Respanned(m) : m \in kept}
      /\ dmap' = dmap \ {DriverMapping(m) : m \in D \ kept}
      /\ UNCHANGED <<reservations, physical, dres, dphys>>
      /\ MayUnmap(o, lo, n) /\ kept \subseteq D /\ D \subseteq mappings
    BY DEF Unmap, Doomed
<1>2. PICK r \in reservations : r.owner = o /\ Contains(r.lo, r.n, lo, n)
    BY <1>1 DEF MayUnmap, Reservation
<1>3. \A m \in mappings : m.owner.context = o.context /\ Overlaps(lo, n, m.lo, m.n) =>
         m.owner = o /\ Contains(lo, n, m.lo, m.n) /\ m.span \in {NoSpan, <<lo, n>>} /\ m \in D
    BY <1>1 DEF MayUnmap, Doomed
<1>4. \A m \in D : m \in mappings /\ m.owner = o /\ Contains(lo, n, m.lo, m.n)
    BY DEF Doomed
<1>5. \A m \in mappings : /\ Respanned(m) \in MappingRecords
                          /\ Respanned(m).owner = m.owner /\ Respanned(m).lo = m.lo /\ Respanned(m).n = m.n
                          /\ Respanned(m).handle = m.handle /\ Respanned(m).off = m.off
                          /\ Respanned(m).span = <<lo, n>>
                          /\ DriverMapping(Respanned(m)) = DriverMapping(m)
    BY DEF VmmInv, VmmTypeOK, MappingRecords, DriverMapping
<1>. HIDE DEF D, Respanned
<1>6. VmmTypeOK'
    BY <1>1, <1>5 DEF VmmInv, VmmTypeOK
<1>7. \A x \in mappings' : \E m \in mappings :
         /\ m.owner = x.owner /\ m.lo = x.lo /\ m.n = x.n /\ m.handle = x.handle /\ m.off = x.off
         /\ \/ m = x /\ m \notin D
            \/ m \in kept /\ x = Respanned(m)
    BY <1>1, <1>5
<1>8. \A x \in mappings' :
         /\ \E s \in reservations' : s.owner = x.owner /\ Contains(s.lo, s.n, x.lo, x.n)
         /\ \E q \in physical' : q.owner = x.owner /\ q.handle = x.handle /\ x.off + x.n <= q.n
    BY <1>1, <1>7 DEF VmmInv, MappingsAreGrounded
<1>9. \A x, y \in mappings' :
         x # y /\ x.owner.context = y.owner.context => ~Overlaps(x.lo, x.n, y.lo, y.n)
    <2>. SUFFICES ASSUME NEW x \in mappings', NEW y \in mappings', x # y,
                         x.owner.context = y.owner.context
                  PROVE  ~Overlaps(x.lo, x.n, y.lo, y.n)
        OBVIOUS
    <2>1. PICK m \in mappings :
              /\ m.owner = x.owner /\ m.lo = x.lo /\ m.n = x.n
              /\ \/ m = x /\ m \notin D
                 \/ m \in kept /\ x = Respanned(m)
        BY <1>7
    <2>2. PICK k \in mappings :
              /\ k.owner = y.owner /\ k.lo = y.lo /\ k.n = y.n
              /\ \/ k = y /\ k \notin D
                 \/ k \in kept /\ y = Respanned(k)
        BY <1>7
    <2>3. m # k
        BY <1>1, <2>1, <2>2
    <2>. QED  BY <2>1, <2>2, <2>3 DEF VmmInv, MappingsAreGrounded
<1>10. TablesMatchDriver'
    <2>1. TablesMatchDriver
        BY DEF VmmInv, MappingsAreGrounded
    <2>2. dmap = {DriverMapping(m) : m \in mappings}
        BY <2>1 DEF TablesMatchDriver
    <2>3. \A m, k \in mappings : DriverMapping(m) = DriverMapping(k) => m = k
        BY DEF VmmInv, VmmTypeOK, MappingRecords, MappingsAreGrounded, DriverMapping, Overlaps
    <2>4. dmap' = {DriverMapping(x) : x \in mappings'}
        <3>1. ASSUME NEW d \in dmap' PROVE \E x \in mappings' : d = DriverMapping(x)
            <4>1. PICK m \in mappings : d = DriverMapping(m) /\ (m \in D => m \in kept)
                BY <1>1, <2>2, <3>1
            <4>. QED  BY <1>1, <1>5, <4>1
        <3>2. ASSUME NEW x \in mappings' PROVE DriverMapping(x) \in dmap'
            <4>1. PICK m \in mappings : /\ m \in D => m \in kept
                                        /\ DriverMapping(x) = DriverMapping(m)
                BY <1>1, <1>5, <3>2
            <4>. QED  BY <1>1, <2>2, <2>3, <4>1
        <3>. QED  BY <3>1, <3>2
    <2>. QED  BY <1>1, <2>1, <2>4 DEF TablesMatchDriver
<1>11. SpansAreOwned'
    <2>. SUFFICES ASSUME NEW x \in mappings', x.span # NoSpan
                  PROVE  /\ \E s \in reservations' :
                               s.owner = x.owner /\ Contains(s.lo, s.n, x.span[1], x.span[2])
                         /\ Contains(x.span[1], x.span[2], x.lo, x.n)
                         /\ \A k \in mappings' :
                               /\ k.owner.context = x.owner.context
                               /\ Overlaps(x.span[1], x.span[2], k.lo, k.n)
                               => k.span = x.span /\ k.owner = x.owner
        BY DEF SpansAreOwned
    <2>1. CASE x.span = <<lo, n>> /\ x.owner = o /\ Contains(lo, n, x.lo, x.n)
        <3>1. ASSUME NEW k \in mappings', k.owner.context = o.context, Overlaps(lo, n, k.lo, k.n)
              PROVE  k.span = <<lo, n>> /\ k.owner = o
            <4>1. PICK j \in mappings :
                      /\ j.owner = k.owner /\ j.lo = k.lo /\ j.n = k.n
                      /\ \/ j = k /\ j \notin D
                         \/ j \in kept /\ k = Respanned(j)
                BY <1>7
            <4>2. j \in D /\ j.owner = o
                BY <1>3, <3>1, <4>1
            <4>. QED  BY <1>5, <4>1, <4>2
        <3>. QED  BY <1>1, <1>2, <2>1, <3>1
    <2>2. CASE x \in mappings /\ x \notin D
        <3>1. /\ \E s \in reservations :
                    s.owner = x.owner /\ Contains(s.lo, s.n, x.span[1], x.span[2])
              /\ Contains(x.span[1], x.span[2], x.lo, x.n)
              /\ \A k \in mappings :
                    /\ k.owner.context = x.owner.context
                    /\ Overlaps(x.span[1], x.span[2], k.lo, k.n)
                    => k.span = x.span /\ k.owner = x.owner
            BY <2>2 DEF VmmInv, SpansAreOwned
        <3>2. ASSUME NEW k \in mappings', k.owner.context = x.owner.context,
                     Overlaps(x.span[1], x.span[2], k.lo, k.n)
              PROVE  k.span = x.span /\ k.owner = x.owner
            <4>1. PICK j \in mappings :
                      /\ j.owner = k.owner /\ j.lo = k.lo /\ j.n = k.n
                      /\ \/ j = k /\ j \notin D
                         \/ j \in kept /\ k = Respanned(j)
                BY <1>7
            <4>2. j.span = x.span /\ j.owner = x.owner
                BY <3>1, <3>2, <4>1
            <4>3. j \notin D
                <5>. SUFFICES ASSUME j \in D PROVE FALSE
                    OBVIOUS
                <5>1. j.owner = o /\ Contains(lo, n, j.lo, j.n)
                    BY <1>4
                <5>2. Overlaps(lo, n, j.lo, j.n)
                    BY <5>1 DEF Contains, Overlaps, VmmInv, VmmTypeOK, MappingRecords
                <5>3. x.span = <<lo, n>> /\ x.owner = o
                    BY <1>3, <4>2, <5>1, <5>2
                <5>. QED  BY <2>2, <3>1, <5>3 DEF D, Doomed
            <4>. QED  BY <1>1, <4>1, <4>2, <4>3
        <3>. QED  BY <1>1, <3>1, <3>2
    <2>3. CASE \E m \in kept : x = Respanned(m)
        BY <1>1, <1>4, <1>5, <2>1, <2>3
    <2>. QED  BY <1>1, <2>2, <2>3
<1>12. ReservationsAreApart' /\ HandlesAreUnique'
    BY <1>1 DEF VmmInv, ReservationsAreApart, HandlesAreUnique
<1>. QED  BY <1>6, <1>8, <1>9, <1>10, <1>11, <1>12 DEF VmmInv, MappingsAreGrounded

-----------------------------------------------------------------------------
(* The buffer and the other owners.                                         *)

Growing == {"create", "map", "access", "undo map", "undo create"}

BufferOK(b) ==
    /\ b = [lo |-> b.lo, max |-> b.max, allocated |-> b.allocated, handles |-> b.handles]
    /\ b.lo \in Nat /\ b.max \in Nat /\ b.allocated \in Nat
GrowCallOK(c) ==
    /\ c = [goal |-> c.goal, retried |-> c.retried, h |-> c.h, pos |-> c.pos, i |-> c.i]
    /\ c.goal \in Nat /\ c.pos \in Nat /\ c.i \in Nat

\* A growing buffer has less than it grows to, so its chunk is not empty.
VramInv ==
    /\ rival \in Owners
    /\ BufferOK(vbuf) /\ GrowCallOK(vcall)
    /\ vpc \in {"none", "idle", "unmapping", "releasing"} \cup Growing
    /\ vpc \in Growing => vbuf.allocated < vcall.goal

LEMMA BufferRecords ==
    ASSUME NEW lo \in Nat, NEW max \in Nat, NEW allocated \in Nat, NEW handles
    PROVE  BufferOK([lo |-> lo, max |-> max, allocated |-> allocated, handles |-> handles])
BY DEF BufferOK

LEMMA CallRecords ==
    ASSUME NEW goal \in Nat, NEW retried, NEW h, NEW pos \in Nat, NEW i \in Nat
    PROVE  GrowCallOK([goal |-> goal, retried |-> retried, h |-> h, pos |-> pos, i |-> i])
BY DEF GrowCallOK

LEMMA ChunksAreNotEmpty ==
    ASSUME VramInv
    PROVE  /\ vpc \in Growing => Chunk \in Nat \ {0} /\ ChunkAt \in Nat
           /\ MoreChunks => NextChunk \in Nat \ {0} /\ vbuf.lo + vcall.pos \in Nat
<1>1. /\ vbuf.lo \in Nat /\ vbuf.max \in Nat /\ vbuf.allocated \in Nat
      /\ vcall.goal \in Nat /\ vcall.pos \in Nat /\ ChunkPages \in Nat \ {0}
      /\ vpc \in Growing => vbuf.allocated < vcall.goal
    BY VramAssumption DEF VramInv, BufferOK, GrowCallOK
<1>2. \A m, n \in Nat : m < n => Smaller(n - m, ChunkPages) \in Nat \ {0}
    BY <1>1 DEF Smaller
<1>3. vpc \in Growing => Chunk \in Nat \ {0}
    BY <1>1, <1>2 DEF Chunk
<1>4. ChunkAt \in Nat /\ vbuf.lo + vcall.pos \in Nat
    BY <1>1 DEF ChunkAt
<1>5. MoreChunks => NextChunk \in Nat \ {0}
    BY <1>1, <1>2 DEF MoreChunks, NextChunk
<1>. QED  BY <1>3, <1>4, <1>5

\* The buffer's own state follows it through every step.
LEMMA VramKeeps == VramInv /\ [VramNext]_vramVars => VramInv'
<1>. SUFFICES ASSUME VramInv, [VramNext]_vramVars PROVE VramInv'
    OBVIOUS
<1>. USE VramAssumption, VmmAssumption
<1>a. /\ vbuf = [lo |-> vbuf.lo, max |-> vbuf.max, allocated |-> vbuf.allocated,
                 handles |-> vbuf.handles]
      /\ vbuf.lo \in Nat /\ vbuf.max \in Nat /\ vbuf.allocated \in Nat
      /\ vcall = [goal |-> vcall.goal, retried |-> vcall.retried, h |-> vcall.h,
                  pos |-> vcall.pos, i |-> vcall.i]
      /\ vcall.goal \in Nat /\ vcall.pos \in Nat /\ vcall.i \in Nat
    BY DEF VramInv, BufferOK, GrowCallOK
<1>b. BufferOK(NoBuffer) /\ GrowCallOK(NoVcall)
    BY BufferRecords, CallRecords DEF NoBuffer, NoVcall
<1>1. CASE UNCHANGED vramVars
    BY <1>1 DEF vramVars, bufferVars, VramInv, Growing
<1>2. ASSUME Client(rival) \/ ClientFails(rival), UNCHANGED rival
      PROVE  VramInv'
    BY <1>2 DEF Client, ClientFails, bufferVars, VramInv, Growing
<1>3. ASSUME UNCHANGED rival, NEW n \in BufferSizes, NEW outer \in 0..Space-1, VramCreate(n, outer)
      PROVE  VramInv'
    <2>1. vbuf' = [lo |-> outer, max |-> n, allocated |-> 0, handles |-> <<>>]
        BY <1>3 DEF VramCreate, NoBuffer
    <2>2. BufferOK(vbuf')
        <3>1. n \in Nat /\ outer \in Nat /\ 0 \in Nat
            OBVIOUS
        <3>. QED  BY <2>1, <3>1, BufferRecords
    <2>. QED  BY <1>3, <2>2 DEF VramCreate, VramInv, GoTo, Growing
<1>4. ASSUME UNCHANGED rival, NEW need \in 1..Space, Grow(need)
      PROVE  VramInv'
    <2>1. GrowTo(need) \in Nat /\ need <= GrowTo(need)
        <3>. DEFINE up == ((need + ChunkPages - 1) \div ChunkPages) * ChunkPages
        <3>1. up \in Nat /\ need <= up
            BY RoundingUp
        <3>. HIDE DEF up
        <3>2. GrowTo(need) = Smaller(up, vbuf.max)
            BY DEF GrowTo, up
        <3>. QED  BY <1>a, <1>4, <3>1, <3>2 DEF Smaller, Grow
    <2>2. vcall' = [goal |-> GrowTo(need), retried |-> FALSE, h |-> 0, pos |-> 0, i |-> 0]
        BY <1>4 DEF Grow, NoVcall
    <2>3. GrowCallOK(vcall')
        BY <2>1, <2>2, CallRecords
    <2>4. vbuf' = vbuf /\ vpc' = "create" /\ need > vbuf.allocated
        BY <1>4 DEF Grow, GoTo
    <2>5. vbuf'.allocated < vcall'.goal
        BY <1>a, <2>1, <2>2, <2>4
    <2>. QED  BY <1>4, <2>3, <2>4, <2>5 DEF VramInv, Growing
<1>5. ASSUME UNCHANGED rival, \/ \E h \in Handles : CreateChunk(h)
                              \/ CreateChunkFails \/ UndoCreate
      PROVE  VramInv'
    <2>1. vbuf' = vbuf /\ vbuf.allocated < vcall.goal
        BY <1>5 DEF CreateChunk, CreateChunkFails, UndoCreate, VramInv, Growing
    <2>2. \/ /\ vpc' \in Growing
             /\ \E b, h : vcall' = [vcall EXCEPT !.retried = b, !.h = h]
          \/ vpc' = "idle" /\ vcall' = NoVcall
          \/ vpc' \in Growing /\ \E h : vcall' = [vcall EXCEPT !.h = h]
        BY <1>5 DEF CreateChunk, CreateChunkFails, UndoCreate, StoogesFailed, GoTo, Growing
    <2>3. \/ /\ vpc' \in Growing
             /\ \E b, h : vcall' = [goal |-> vcall.goal, retried |-> b, h |-> h,
                                    pos |-> vcall.pos, i |-> vcall.i]
          \/ vpc' = "idle" /\ vcall' = NoVcall
        BY <1>a, <2>2
    <2>4. \/ vpc' \in Growing /\ GrowCallOK(vcall') /\ vcall'.goal = vcall.goal
          \/ vpc' = "idle" /\ GrowCallOK(vcall')
        BY <1>a, <1>b, <2>3, CallRecords
    <2>. QED  BY <1>5, <2>1, <2>4 DEF VramInv, Growing
<1>6. ASSUME UNCHANGED rival, MapChunk \/ AccessChunkFails \/ UndoMap
      PROVE  VramInv'
    BY <1>6 DEF MapChunk, AccessChunkFails, UndoMap, GoTo, VramInv, Growing
<1>7. ASSUME UNCHANGED rival, AccessChunk
      PROVE  VramInv'
    <2>1. Chunk \in Nat
        BY <1>7, ChunksAreNotEmpty DEF AccessChunk, Growing
    <2>2. vbuf' = [lo |-> vbuf.lo, max |-> vbuf.max, allocated |-> vbuf.allocated + Chunk,
                   handles |-> Append(vbuf.handles, vcall.h)]
        BY <1>7, <1>a DEF AccessChunk
    <2>3. BufferOK(vbuf') /\ vbuf'.allocated = vbuf.allocated + Chunk
        <3>1. vbuf.allocated + Chunk \in Nat
            BY <1>a, <2>1
        <3>. QED  BY <1>a, <2>2, <3>1, BufferRecords
    <2>4. \/ /\ vbuf.allocated + Chunk < vcall.goal /\ vpc' \in Growing
             /\ vcall' = [goal |-> vcall.goal, retried |-> FALSE, h |-> 0,
                          pos |-> vcall.pos, i |-> vcall.i]
          \/ vpc' = "idle" /\ vcall' = NoVcall
        BY <1>7, <1>a DEF AccessChunk, GoTo, Growing
    <2>5. \/ vpc' \in Growing /\ GrowCallOK(vcall') /\ vbuf'.allocated < vcall'.goal
          \/ vpc' = "idle" /\ GrowCallOK(vcall')
        BY <1>a, <1>b, <2>3, <2>4, CallRecords
    <2>. QED  BY <1>7, <2>3, <2>5 DEF VramInv, Growing
<1>8. ASSUME UNCHANGED rival, VramDestroy \/ EndUnmapping \/ ReleaseNext \/ EndDestroy
      PROVE  VramInv'
    <2>1. vpc' \in {"none", "unmapping", "releasing"} /\ (vbuf' = vbuf \/ vbuf' = NoBuffer)
        BY <1>8 DEF VramDestroy, EndUnmapping, ReleaseNext, EndDestroy, GoTo
    <2>2. \/ vcall' = NoVcall
          \/ vcall' = [NoVcall EXCEPT !.i = 1]
          \/ vcall' = [vcall EXCEPT !.i = 1]
          \/ vcall' = [vcall EXCEPT !.i = vcall.i + 1]
        BY <1>8 DEF VramDestroy, EndUnmapping, ReleaseNext, EndDestroy
    <2>3. \/ vcall' = NoVcall
          \/ vcall' = [goal |-> 0, retried |-> FALSE, h |-> 0, pos |-> 0, i |-> 1]
          \/ \E i \in Nat : vcall' = [goal |-> vcall.goal, retried |-> vcall.retried,
                                      h |-> vcall.h, pos |-> vcall.pos, i |-> i]
        BY <1>a, <2>2 DEF NoVcall
    <2>4. GrowCallOK(vcall') /\ BufferOK(vbuf')
        BY <1>a, <1>b, <2>1, <2>3, CallRecords DEF VramInv
    <2>. QED  BY <1>8, <2>1, <2>4 DEF VramInv, Growing
<1>9. ASSUME UNCHANGED rival, UnmapNext
      PROVE  VramInv'
    <2>1. vcall.pos + NextChunk \in Nat /\ vcall.i + 1 \in Nat
        BY <1>9, <1>a, ChunksAreNotEmpty DEF UnmapNext
    <2>2. vcall' = [goal |-> vcall.goal, retried |-> vcall.retried, h |-> vcall.h,
                    pos |-> vcall.pos + NextChunk, i |-> vcall.i + 1]
        BY <1>9, <1>a DEF UnmapNext
    <2>3. GrowCallOK(vcall')
        BY <1>a, <2>1, <2>2, CallRecords
    <2>. QED  BY <1>9, <2>3 DEF UnmapNext, VramInv, Growing
<1>. QED  BY <1>1, <1>2, <1>3, <1>4, <1>5, <1>6, <1>7, <1>8, <1>9 DEF VramNext, BufferStep

\* Every step is an operation of the manager, or leaves its tables alone.
LEMMA StepsKeep == VmmInv /\ VramInv /\ [VramNext]_vramVars => VmmInv'
<1>. SUFFICES ASSUME VmmInv, VramInv, [VramNext]_vramVars PROVE VmmInv'
    OBVIOUS
<1>. USE VramAssumption, VmmAssumption
<1>1. UNCHANGED vmmVars => VmmInv'
    BY VmmUnchanged
<1>2. CASE UNCHANGED vramVars
    BY <1>1, <1>2 DEF vramVars
<1>3. ASSUME NEW o \in Owners, Client(o)
      PROVE  VmmInv'
    <2>1. CASE \E n \in VmmSizes, a \in Alignments, outer \in 0..Space-1 : Reserve(o, n, a, outer)
        BY <2>1, ReserveKeeps
    <2>2. CASE \E h \in Handles, n \in VmmSizes : Create(o, h, n)
        BY <2>2, CreateKeeps
    <2>3. CASE \E h \in Handles : DestroyPhysical(o, h)
        BY <2>3, DestroyPhysicalKeeps
    <2>4. CASE \E lo \in 0..Space-1, n \in VmmSizes : FreeReserved(o, lo, n)
        BY <2>4, FreeKeeps
    <2>5. CASE \E lo \in 0..Space-1, n \in VmmSizes : Unmap(o, lo, n, {})
        BY <2>5, UnmapKeeps
    <2>6. CASE \E lo \in 0..Space-1, n \in VmmSizes :
                  \E p \in physical : \E off \in 0..p.n-1 : Map(o, lo, n, p.handle, off)
        BY <2>6, MapKeeps
    <2>. QED  BY <1>3, <2>1, <2>2, <2>3, <2>4, <2>5, <2>6 DEF Client
<1>4. ASSUME NEW o \in Owners, ClientFails(o)
      PROVE  VmmInv'
    BY <1>4, UnmapKeeps DEF ClientFails
<1>5. ASSUME NEW n \in BufferSizes, NEW outer \in 0..Space-1, VramCreate(n, outer)
      PROVE  VmmInv'
    <2>1. Reserve(BufOwner, n, 1, outer)
        BY <1>5 DEF VramCreate
    <2>2. n \in Nat \ {0} /\ 1 \in Nat \ {0} /\ outer \in Nat /\ BufOwner \in Owners /\ Space \in Nat
        OBVIOUS
    <2>. QED  BY <2>1, <2>2, ReserveKeeps
<1>6. ASSUME NEW h \in Handles, CreateChunk(h)
      PROVE  VmmInv'
    BY <1>6, CreateKeeps, ChunksAreNotEmpty DEF CreateChunk, Growing
<1>7. CASE MapChunk
    BY <1>1, <1>7, MapKeeps, ChunksAreNotEmpty DEF MapChunk, Growing, Refused
<1>8. ASSUME NEW lo \in Nat, NEW n \in Nat \ {0}, UnmapRange(lo, n)
      PROVE  VmmInv'
    BY <1>1, <1>8, UnmapKeeps DEF UnmapRange
<1>9. ASSUME NEW h, ReleaseHandle(h)
      PROVE  VmmInv'
    BY <1>1, <1>9, DestroyPhysicalKeeps DEF ReleaseHandle, Refused
<1>10. CASE UndoMap
    BY <1>8, <1>10, ChunksAreNotEmpty DEF UndoMap, Growing
<1>11. CASE UnmapNext
    BY <1>8, <1>11, ChunksAreNotEmpty DEF UnmapNext
<1>12. CASE UndoCreate \/ ReleaseNext
    BY <1>9, <1>12 DEF UndoCreate, ReleaseNext
<1>13. CASE EndDestroy
    BY <1>1, <1>13, FreeKeeps DEF EndDestroy, Refused
<1>14. CASE \/ \E need \in 1..Space : Grow(need)
            \/ CreateChunkFails \/ AccessChunk \/ AccessChunkFails \/ VramDestroy \/ EndUnmapping
    BY <1>1, <1>14 DEF Grow, CreateChunkFails, AccessChunk, AccessChunkFails, Refused,
                       VramDestroy, EndUnmapping
<1>. QED
    BY <1>2, <1>3, <1>4, <1>5, <1>6, <1>7, <1>10, <1>11, <1>12, <1>13, <1>14
       DEF VramNext, BufferStep, VramInv

THEOREM TablesAreSound == VramSpec => [](VmmInv /\ VramInv)
<1>1. VramInit => VmmInv /\ VramInv
    BY VmmStarts, VramAssumption DEF VramInit, VramInv, BufferOK, GrowCallOK, NoBuffer, NoVcall, Growing
<1>2. VmmInv /\ VramInv /\ [VramNext]_vramVars => (VmmInv /\ VramInv)'
    BY StepsKeep, VramKeeps
<1>. QED  BY <1>1, <1>2, PTL DEF VramSpec

\* Whatever fails and whatever other owners ask for, the manager knows what
\* the driver holds and nothing mapped loses its reservation or its memory
\* (vmm-manager.h: free, map, unmap, destroy).
THEOREM MappingsGrounded == VramSpec => []MappingsAreGrounded
<1>1. VmmInv => MappingsAreGrounded
    BY DEF VmmInv
<1>. QED  BY <1>1, TablesAreSound, PTL

\* An unmap that stopped half way is accepted when it is repeated, and its
\* range is left to it (vmm-manager.h: unmap, and the span map looks at).
THEOREM CleanupsRepeatable == VramSpec => []CleanupsCanBeRepeated
<1>. QED  BY Repeatable, TablesAreSound, PTL

-----------------------------------------------------------------------------
(* The buffer.                                                              *)

\* The chunks of a buffer: whole, except that the last may end at max_size.
Chunked(b) ==
    /\ b.handles \in Seq(Nat)
    /\ b.allocated <= b.max
    /\ b.allocated <= Len(b.handles) * ChunkPages
    /\ Len(b.handles) > 0 => (Len(b.handles) - 1) * ChunkPages < b.allocated
    /\ b.allocated < b.max => b.allocated = Len(b.handles) * ChunkPages

\* Memory of the buffer mapped at a position, and not being cleaned up.
Backed(pos, n, h) == \E m \in mappings : m.span = NoSpan /\ Backs(m, pos, n, h)
ChunkBacked(i) ==
    LET pos == (i - 1) * ChunkPages IN
    Backed(pos, Smaller(vbuf.allocated - pos, ChunkPages), vbuf.handles[i])

GoalOK ==
    /\ vcall.goal <= vbuf.max
    /\ vcall.goal = vbuf.max \/ \E k \in Nat : vcall.goal = k * ChunkPages

BufInv ==
    /\ rival # BufOwner
    /\ vusage = vbuf.allocated
    /\ vpc = "none" => vusage = 0
    /\ vcall.h \in Nat
    /\ Chunked(vbuf)
    /\ vpc \in Growing => GoalOK
    /\ vpc \in {"idle"} \cup Growing => \A i \in 1 .. Len(vbuf.handles) : ChunkBacked(i)
    /\ vpc = "access" => Backed(vbuf.allocated, Chunk, vcall.h)
    /\ vpc = "unmapping" =>
          /\ vcall.i > 0
          /\ vcall.i <= Len(vbuf.handles) => vcall.pos = (vcall.i - 1) * ChunkPages
          /\ \A i \in 1 .. Len(vbuf.handles) : i >= vcall.i => ChunkBacked(i)

-----------------------------------------------------------------------------
(* Multiples of the chunk size.                                             *)

LEMMA Multiples ==
    ASSUME NEW c \in Nat \ {0}, NEW i \in Int, NEW j \in Int
    PROVE  /\ i < j => i * c + c <= j * c
           /\ i <= j => i * c <= j * c
           /\ i * c < j * c => i < j
           /\ i * c \in Int /\ (i + 1) * c = i * c + c
<1>1. i * c \in Int /\ j * c \in Int /\ (j - i - 1) * c \in Int /\ (i + 1) * c = i * c + c
    OBVIOUS
<1>2. ASSUME i < j PROVE i * c + c <= j * c
    <2>1. (j - i - 1) * c >= 0
        BY <1>2
    <2>2. (j - i - 1) * c = j * c - i * c - c
        OBVIOUS
    <2>. QED  BY <1>1, <2>1, <2>2
<1>3. ASSUME i <= j PROVE i * c <= j * c
    <2>1. CASE i = j
        BY <2>1, <1>1
    <2>2. CASE i < j
        BY <2>2, <1>1, <1>2
    <2>. QED  BY <1>3, <2>1, <2>2
<1>4. ASSUME i * c < j * c PROVE i < j
    <2>1. CASE j <= i
        <3>1. (i - j) * c >= 0
            BY <2>1
        <3>2. (i - j) * c = i * c - j * c
            OBVIOUS
        <3>. QED  BY <1>1, <1>4, <3>1, <3>2
    <2>. QED  BY <2>1
<1>. QED  BY <1>1, <1>2, <1>3, <1>4

LEMMA Quotients ==
    ASSUME NEW c \in Nat \ {0}, NEW k \in Nat, NEW n \in Nat, k * c <= n
    PROVE  k <= n \div c
<1>. DEFINE q == n \div c
<1>1. q \in Nat /\ n < q * c + c
    OBVIOUS
<1>. HIDE DEF q
<1>2. k * c < (q + 1) * c
    BY <1>1, Multiples
<1>3. k < q + 1
    BY <1>1, <1>2, Multiples
<1>. QED  BY <1>1, <1>3 DEF q

-----------------------------------------------------------------------------
(* What a step does to the mappings of the buffer.                          *)

MineKept == \A m \in mappings : m.owner = BufOwner => m \in mappings'

\* Other owners cannot remove or mark a mapping of the buffer.
LEMMA OthersKeepMine ==
    ASSUME NEW o, o # BufOwner, Client(o) \/ ClientFails(o)
    PROVE  MineKept
<1>1. ASSUME NEW lo, NEW n, NEW kept, Unmap(o, lo, n, kept)
      PROVE  MineKept
    BY <1>1 DEF Unmap, Doomed, MineKept
<1>2. ASSUME NEW lo, NEW n, NEW h, NEW off, Map(o, lo, n, h, off)
      PROVE  MineKept
    BY <1>2 DEF Map, MineKept
<1>3. UNCHANGED mappings => MineKept
    BY DEF MineKept
<1>. QED
    BY <1>1, <1>2, <1>3 DEF Client, ClientFails, Reserve, Create, DestroyPhysical, FreeReserved

\* An unmap of the buffer leaves alone what is not within its range.
LEMMA UnmapsSpareOthers ==
    ASSUME NEW lo, NEW n, UnmapRange(lo, n)
    PROVE  \A m \in mappings : ~Contains(lo, n, m.lo, m.n) => m \in mappings'
BY DEF UnmapRange, Unmap, Doomed, vmmVars, vmmTables

\* What was backed stays so if the mappings of the buffer are kept.
LEMMA StaysBacked ==
    ASSUME MineKept, vbuf'.lo = vbuf.lo, NEW pos, NEW n, NEW h, Backed(pos, n, h)
    PROVE  Backed(pos, n, h)'
BY DEF MineKept, Backed, Backs

LEMMA ChunksStayBacked ==
    ASSUME MineKept, UNCHANGED vbuf, NEW i, ChunkBacked(i)
    PROVE  ChunkBacked(i)'
<1>. DEFINE pos == (i - 1) * ChunkPages
            n   == Smaller(vbuf.allocated - pos, ChunkPages)
            h   == vbuf.handles[i]
<1>1. Backed(pos, n, h)
    BY DEF ChunkBacked
<1>2. PICK m \in mappings : m.span = NoSpan /\ Backs(m, pos, n, h)
    BY <1>1 DEF Backed
<1>3. m \in mappings' /\ Backs(m, pos, n, h)'
    BY <1>2 DEF MineKept, Backs, Smaller
<1>. QED  BY <1>2, <1>3 DEF ChunkBacked, Backed

\* A growing buffer is full to the end of its last chunk, and the next chunk
\* is whole or ends at max_size.
LEMMA NextChunkFits ==
    ASSUME VramInv, BufInv, vpc \in Growing
    PROVE  /\ vbuf.allocated = Len(vbuf.handles) * ChunkPages
           /\ Chunk \in Nat \ {0} /\ Chunk <= ChunkPages
           /\ vbuf.allocated + Chunk <= vbuf.max
           /\ Chunk = ChunkPages \/ vbuf.allocated + Chunk = vbuf.max
<1>. DEFINE N == Len(vbuf.handles)
<1>. USE VramAssumption
<1>1. /\ vbuf.allocated \in Nat /\ vbuf.max \in Nat /\ vcall.goal \in Nat
      /\ vbuf.allocated < vcall.goal /\ N \in Nat /\ GoalOK
    BY DEF VramInv, BufferOK, GrowCallOK, BufInv, Chunked
<1>2. vbuf.allocated = N * ChunkPages
    BY <1>1 DEF BufInv, Chunked, GoalOK
<1>3. Chunk \in Nat \ {0} /\ Chunk <= ChunkPages /\ vbuf.allocated + Chunk <= vcall.goal
    BY <1>1 DEF Chunk, Smaller
<1>4. ASSUME Chunk # ChunkPages PROVE vbuf.allocated + Chunk = vbuf.max
    <2>1. Chunk = vcall.goal - vbuf.allocated /\ vcall.goal < vbuf.allocated + ChunkPages
        BY <1>1, <1>4 DEF Chunk, Smaller
    <2>2. ASSUME NEW k \in Nat, vcall.goal = k * ChunkPages PROVE FALSE
        <3>1. N < k
            BY <1>1, <1>2, <2>2, Multiples
        <3>2. N * ChunkPages + ChunkPages <= k * ChunkPages
            BY <1>1, <3>1, Multiples
        <3>. QED  BY <1>2, <2>1, <2>2, <3>2
    <2>3. vcall.goal = vbuf.max
        BY <1>1, <2>2 DEF GoalOK
    <2>. QED  BY <1>1, <2>1, <2>3
<1>5. vcall.goal <= vbuf.max
    BY <1>1 DEF GoalOK
<1>. QED  BY <1>1, <1>2, <1>3, <1>4, <1>5

-----------------------------------------------------------------------------
(* Every step keeps BufInv.                                                 *)

\* Steps of the buffer that neither give it a chunk nor take one away.
QuietStep ==
    /\ MineKept /\ UNCHANGED <<vbuf, vusage, rival>>
    /\ vcall'.h \in Nat
    /\ \/ /\ vpc \in Growing /\ vpc' \in Growing \ {"access"} /\ vcall'.goal = vcall.goal
       \/ vpc' \in {"idle"} /\ vpc \in {"idle"} \cup Growing
       \/ vpc' \in {"releasing"}

LEMMA QuietKeeps == VramInv /\ BufInv /\ QuietStep => BufInv'
<1>. SUFFICES ASSUME VramInv, BufInv, QuietStep PROVE BufInv'
    OBVIOUS
<1>1. /\ MineKept /\ UNCHANGED <<vbuf, vusage, rival>> /\ vcall'.h \in Nat
      /\ vpc' # "access" /\ vpc' # "unmapping" /\ vpc' # "none"
    BY DEF QuietStep, Growing
<1>2. (vpc \in Growing => GoalOK) => (vpc' \in Growing => GoalOK')
    BY <1>1 DEF QuietStep, GoalOK, Growing
<1>3. vpc' \in {"idle"} \cup Growing => \A i \in 1 .. Len(vbuf.handles) : ChunkBacked(i)'
    BY <1>1, ChunksStayBacked DEF BufInv, QuietStep, Growing
<1>4. Chunked(vbuf')
    BY <1>1 DEF BufInv
<1>. QED  BY <1>1, <1>2, <1>3, <1>4 DEF BufInv

\* The mapping of a chunk.
LEMMA MapChunkKeeps ==
    ASSUME VramInv, BufInv, MapChunk, UNCHANGED rival
    PROVE  BufInv'
<1>1. CASE Map(BufOwner, ChunkAt, Chunk, vcall.h, 0) /\ GoTo("access")
    <2>1. MineKept /\ UNCHANGED <<vbuf, vusage, vcall, rival>> /\ vpc' = "access" /\ vpc = "map"
        BY <1>1 DEF MapChunk, Map, MineKept, GoTo
    <2>2. Backed(vbuf.allocated, Chunk, vcall.h)'
        <3>1. \E m \in mappings' :
                 /\ m.owner = BufOwner /\ m.lo = vbuf.lo + vbuf.allocated /\ m.n = Chunk
                 /\ m.handle = vcall.h /\ m.off = 0 /\ m.span = NoSpan
            <4>. DEFINE m == [owner |-> BufOwner, lo |-> ChunkAt, n |-> Chunk,
                              handle |-> vcall.h, off |-> 0, span |-> NoSpan]
            <4>1. m \in mappings'
                BY <1>1 DEF Map
            <4>2. /\ m.owner = BufOwner /\ m.lo = vbuf.lo + vbuf.allocated /\ m.n = Chunk
                  /\ m.handle = vcall.h /\ m.off = 0 /\ m.span = NoSpan
                BY DEF ChunkAt
            <4>. HIDE DEF m
            <4>. QED  BY <4>1, <4>2
        <3>2. Chunk' = Chunk
            BY <2>1 DEF Chunk, Smaller
        <3>. QED  BY <2>1, <3>1, <3>2 DEF Backed, Backs
    <2>3. \A i \in 1 .. Len(vbuf.handles) : ChunkBacked(i)'
        BY <2>1, ChunksStayBacked DEF BufInv, Growing
    <2>4. GoalOK'
        BY <2>1 DEF BufInv, Growing, GoalOK
    <2>. QED  BY <2>1, <2>2, <2>3, <2>4 DEF BufInv, Growing
<1>2. CASE UNCHANGED vmmVars /\ GoTo("undo create")
    <2>1. QuietStep
        BY <1>2 DEF MapChunk, QuietStep, MineKept, vmmVars, vmmTables, GoTo, Growing, BufInv
    <2>. QED  BY <2>1, QuietKeeps
<1>. QED  BY <1>1, <1>2 DEF MapChunk, Refused

\* The buffer gets the chunk that is mapped.
LEMMA AccessChunkKeeps ==
    ASSUME VramInv, BufInv, AccessChunk, UNCHANGED rival
    PROVE  BufInv'
<1>. DEFINE N == Len(vbuf.handles)
            C == ChunkPages
<1>. USE VramAssumption
<1>1. /\ vpc = "access" /\ UNCHANGED <<mappings, rival>>
      /\ vusage' = vusage + Chunk
      /\ vbuf' = [lo |-> vbuf.lo, max |-> vbuf.max, allocated |-> vbuf.allocated + Chunk,
                  handles |-> Append(vbuf.handles, vcall.h)]
    BY DEF AccessChunk, VramInv, BufferOK, vmmVars, vmmTables
<1>2. /\ vbuf.allocated = N * C /\ Chunk \in Nat \ {0} /\ Chunk <= C
      /\ vbuf.allocated + Chunk <= vbuf.max
      /\ Chunk = C \/ vbuf.allocated + Chunk = vbuf.max
    BY <1>1, NextChunkFits DEF Growing
<1>3. vbuf.handles \in Seq(Nat) /\ N \in Nat /\ vcall.h \in Nat /\ vbuf.max \in Nat /\ vusage = vbuf.allocated
    BY DEF BufInv, Chunked, VramInv, BufferOK
<1>4. /\ Append(vbuf.handles, vcall.h) \in Seq(Nat) /\ Len(Append(vbuf.handles, vcall.h)) = N + 1
      /\ \A i \in 1 .. N : Append(vbuf.handles, vcall.h)[i] = vbuf.handles[i]
      /\ Append(vbuf.handles, vcall.h)[N + 1] = vcall.h
    BY <1>3
<1>. DEFINE hs == Append(vbuf.handles, vcall.h)
<1>5. (N + 1) * C = N * C + C /\ N * C \in Nat
    BY <1>3, Multiples
<1>. HIDE DEF hs
<1>6. /\ vbuf'.lo = vbuf.lo /\ vbuf'.max = vbuf.max /\ vbuf'.allocated = N * C + Chunk
      /\ vbuf'.handles = hs /\ Len(vbuf'.handles) = N + 1 /\ vbuf'.handles \in Seq(Nat)
    BY <1>1, <1>2, <1>4 DEF hs
<1>7. Chunked(vbuf')
    <2>1. N * C + Chunk <= vbuf.max /\ N * C + Chunk <= N * C + C /\ N * C < N * C + Chunk
        BY <1>2, <1>3, <1>5
    <2>2. N * C + Chunk < vbuf.max => N * C + Chunk = N * C + C
        BY <1>2, <1>3, <1>5
    <2>3. (N + 1) - 1 = N
        BY <1>3
    <2>4. Len(vbuf'.handles) * C = N * C + C /\ (Len(vbuf'.handles) - 1) * C = N * C
        BY <1>5, <1>6, <2>3
    <2>. QED  BY <1>6, <2>1, <2>2, <2>4 DEF Chunked
<1>8. ASSUME NEW i \in 1 .. N + 1 PROVE ChunkBacked(i)'
    <2>1. CASE i = N + 1
        <3>1. Backed(N * C, Chunk, vcall.h)
            BY <1>1, <1>2 DEF BufInv
        <3>2. PICK m \in mappings : m.span = NoSpan /\ Backs(m, N * C, Chunk, vcall.h)
            BY <3>1 DEF Backed
        <3>3. (i - 1) * C = N * C /\ Smaller(vbuf'.allocated - N * C, C) = Chunk
            <4>1. i - 1 = N
                BY <1>3, <2>1
            <4>2. vbuf'.allocated - N * C = Chunk
                BY <1>2, <1>5, <1>6
            <4>. QED  BY <1>2, <4>1, <4>2 DEF Smaller
        <3>4. vbuf'.handles[i] = vcall.h
            BY <1>4, <1>6, <2>1 DEF hs
        <3>. QED  BY <1>1, <1>6, <3>2, <3>3, <3>4 DEF ChunkBacked, Backed, Backs, Smaller
    <2>2. CASE i \in 1 .. N
        <3>1. ChunkBacked(i)
            BY <1>1, <2>2 DEF BufInv, Growing
        <3>. DEFINE pos == (i - 1) * C
        <3>2. pos \in Int /\ pos + C <= N * C
            <4>1. PICK k \in Int : k = i - 1 /\ k < N
                BY <1>3, <2>2
            <4>2. N \in Int /\ C \in Nat \ {0}
                BY <1>3
            <4>3. k * C \in Int /\ k * C + C <= N * C
                BY ONLY <4>1, <4>2, Multiples
            <4>. QED  BY <4>1, <4>3
        <3>. HIDE DEF pos
        <3>3. Smaller(vbuf.allocated - pos, C) = C /\ Smaller(vbuf'.allocated - pos, C) = C
            BY <1>2, <1>5, <1>6, <3>2 DEF Smaller
        <3>4. vbuf'.handles[i] = vbuf.handles[i]
            BY <1>4, <1>6, <2>2 DEF hs
        <3>5. PICK m \in mappings : m.span = NoSpan /\ Backs(m, pos, C, vbuf.handles[i])
            BY <3>1, <3>3 DEF ChunkBacked, Backed, pos
        <3>6. Backs(m, pos, C, vbuf.handles[i])'
            BY <1>6, <3>4, <3>5 DEF Backs
        <3>. QED  BY <1>1, <3>3, <3>4, <3>5, <3>6 DEF ChunkBacked, Backed, pos
    <2>. QED  BY <1>3, <2>1, <2>2
<1>9. /\ vpc' \in {"idle"} \cup (Growing \ {"access"})
      /\ vpc' \in Growing => vcall'.goal = vcall.goal
      /\ vcall'.h \in Nat
    <2>1. \/ vpc' = "create" /\ vcall' = [vcall EXCEPT !.retried = FALSE, !.h = 0]
          \/ vpc' = "idle" /\ vcall' = NoVcall
        BY DEF AccessChunk, GoTo
    <2>2. vcall = [goal |-> vcall.goal, retried |-> vcall.retried, h |-> vcall.h,
                   pos |-> vcall.pos, i |-> vcall.i]
        BY DEF VramInv, GrowCallOK
    <2>3. \/ /\ vpc' = "create"
             /\ vcall' = [goal |-> vcall.goal, retried |-> FALSE, h |-> 0,
                          pos |-> vcall.pos, i |-> vcall.i]
          \/ vpc' = "idle" /\ vcall' = NoVcall
        BY <2>1, <2>2
    <2>4. CASE vpc' = "create" /\ vcall'.goal = vcall.goal /\ vcall'.h = 0
        BY <2>4 DEF Growing
    <2>5. CASE vpc' = "idle" /\ vcall'.h = 0
        BY <2>5 DEF Growing
    <2>. QED  BY <2>3, <2>4, <2>5 DEF NoVcall
<1>10. vpc' \in Growing => GoalOK'
    BY <1>1, <1>6, <1>9 DEF BufInv, GoalOK, Growing
<1>11. vusage' = vbuf'.allocated
    BY <1>1, <1>2, <1>3, <1>6
<1>. QED  BY <1>1, <1>6, <1>7, <1>8, <1>9, <1>10, <1>11 DEF BufInv, Growing

\* A destroyed buffer is unmapped chunk by chunk.
LEMMA UnmapNextKeeps ==
    ASSUME VmmInv, VramInv, BufInv, UnmapNext, UNCHANGED rival
    PROVE  BufInv'
<1>. DEFINE N == Len(vbuf.handles)
            C == ChunkPages
<1>. USE VramAssumption
<1>1. /\ vpc = "unmapping" /\ MoreChunks /\ vpc' = vpc
      /\ UnmapRange(vbuf.lo + vcall.pos, NextChunk) /\ UNCHANGED <<vbuf, vusage, rival>>
      /\ vcall' = [goal |-> vcall.goal, retried |-> vcall.retried, h |-> vcall.h,
                   pos |-> vcall.pos + NextChunk, i |-> vcall.i + 1]
    BY DEF UnmapNext, VramInv, GrowCallOK
<1>2. /\ N \in Nat /\ vcall.i \in Nat /\ vcall.i > 0 /\ vcall.i <= N
      /\ vcall.pos = (vcall.i - 1) * C
      /\ vbuf.lo \in Nat /\ vbuf.allocated \in Nat
      /\ NextChunk \in Nat \ {0} /\ NextChunk <= C
    <2>1. vcall.i \in Nat /\ vbuf.lo \in Nat /\ vbuf.allocated \in Nat /\ vcall.pos \in Nat
        BY DEF VramInv, BufferOK, GrowCallOK
    <2>2. NextChunk \in Nat \ {0} /\ NextChunk <= C
        BY <1>1, <2>1 DEF MoreChunks, NextChunk, Smaller
    <2>. QED  BY <1>1, <2>1, <2>2 DEF BufInv, Chunked, MoreChunks
<1>3. PICK k \in Nat : k = vcall.i - 1 /\ k < N
    BY <1>2
<1>4. vcall.pos = k * C /\ k * C \in Int
    BY <1>2, <1>3, Multiples
<1>5. vcall.i < N => vcall.pos + NextChunk = vcall.i * C
    <2>. SUFFICES ASSUME vcall.i < N PROVE vcall.pos + NextChunk = vcall.i * C
        OBVIOUS
    <2>1. (k + 1) * C = k * C + C
        BY <1>3, Multiples
    <2>2. vcall.i * C <= (N - 1) * C /\ (N - 1) * C < vbuf.allocated /\ (N - 1) * C \in Int
        <3>1. vcall.i <= N - 1 /\ N - 1 \in Int
            BY <1>2
        <3>2. (N - 1) * C < vbuf.allocated
            BY <1>2 DEF BufInv, Chunked
        <3>3. vcall.i \in Int /\ C \in Nat \ {0}
            BY <1>2
        <3>. QED  BY ONLY <3>1, <3>2, <3>3, Multiples
    <2>3. vcall.i = k + 1
        BY <1>2, <1>3
    <2>4. vcall.i * C = k * C + C
        BY <2>1, <2>3
    <2>5. k * C + C < vbuf.allocated
        BY <1>2, <1>4, <2>2, <2>4
    <2>. QED  BY <1>2, <1>4, <2>4, <2>5 DEF NextChunk, Smaller
<1>6. ASSUME NEW j \in 1 .. N, j >= vcall.i + 1
      PROVE  ChunkBacked(j)'
    <2>. DEFINE pos == (j - 1) * C
                n   == Smaller(vbuf.allocated - pos, C)
    <2>1. ChunkBacked(j)
        BY <1>1, <1>2, <1>6 DEF BufInv
    <2>2. PICK m \in mappings : m.span = NoSpan /\ Backs(m, pos, n, vbuf.handles[j])
        BY <2>1 DEF ChunkBacked, Backed
    <2>3. pos \in Int /\ vcall.pos + C <= pos
        <3>1. PICK q \in Int : q = j - 1 /\ k < q
            BY <1>2, <1>3, <1>6
        <3>2. k \in Int /\ C \in Nat \ {0}
            OBVIOUS
        <3>3. q * C \in Int /\ k * C + C <= q * C
            BY ONLY <3>1, <3>2, Multiples
        <3>. QED  BY <1>4, <3>1, <3>3
    <2>4. m.lo = vbuf.lo + pos /\ m.lo \in Nat /\ m.n \in Nat \ {0}
        <3>1. m.lo = vbuf.lo + pos
            BY <2>2 DEF Backs
        <3>. QED  BY <3>1 DEF VmmInv, VmmTypeOK, MappingRecords
    <2>. HIDE DEF pos
    <2>5. ~Contains(vbuf.lo + vcall.pos, NextChunk, m.lo, m.n)
        <3>1. vcall.pos \in Int
            BY <1>4
        <3>2. ASSUME NEW p \in Int, vcall.pos = p PROVE ~Contains(vbuf.lo + p, NextChunk, m.lo, m.n)
            <4>1. p + C <= pos
                BY <2>3, <3>2
            <4>2. /\ pos \in Int /\ vbuf.lo \in Nat /\ C \in Nat
                  /\ NextChunk \in Nat /\ NextChunk <= C
                BY <1>2, <2>3
            <4>. QED  BY ONLY <2>4, <3>2, <4>1, <4>2 DEF Contains
        <3>. QED  BY <3>1, <3>2
    <2>6. m \in mappings'
        BY <1>1, <2>5, UnmapsSpareOthers
    <2>7. Backs(m, pos, n, vbuf.handles[j])'
        BY <1>1, <2>2 DEF Backs, Smaller
    <2>. QED  BY <1>1, <2>2, <2>6, <2>7 DEF ChunkBacked, Backed, pos
<1>7. /\ vcall'.i = vcall.i + 1 /\ vcall'.pos = vcall.pos + NextChunk /\ vcall'.h \in Nat
      /\ vcall'.i > 0
    BY <1>1, <1>2 DEF BufInv
<1>8. vcall'.i <= N => vcall'.pos = (vcall'.i - 1) * C
    <2>1. vcall'.i - 1 = vcall.i
        BY <1>2, <1>7
    <2>. QED  BY <1>2, <1>5, <1>7, <2>1
<1>9. \A j \in 1 .. N : j >= vcall'.i => ChunkBacked(j)'
    BY <1>6, <1>7
<1>10. vpc' # "access" /\ vpc' \notin {"idle"} \cup Growing /\ Chunked(vbuf') /\ vusage' = vbuf'.allocated
       /\ rival' # BufOwner
    BY <1>1 DEF Growing, BufInv
<1>. QED  BY <1>1, <1>7, <1>8, <1>9, <1>10 DEF BufInv

LEMMA UndoMapKeeps ==
    ASSUME VmmInv, VramInv, BufInv, UndoMap, UNCHANGED rival
    PROVE  BufInv'
<1>. DEFINE N == Len(vbuf.handles)
            C == ChunkPages
<1>. USE VramAssumption
<1>1. /\ vpc = "undo map" /\ vpc' = "undo create" /\ UNCHANGED <<vbuf, vusage, vcall, rival>>
      /\ UnmapRange(ChunkAt, Chunk)
    BY DEF UndoMap, GoTo
<1>2. /\ vbuf.allocated = N * C /\ N \in Nat /\ vbuf.lo \in Nat /\ N * C \in Int /\ Chunk \in Nat
    <2>1. vpc \in Growing
        BY <1>1 DEF Growing
    <2>2. N \in Nat /\ vbuf.lo \in Nat
        BY DEF BufInv, Chunked, VramInv, BufferOK
    <2>3. N * C \in Int
        BY <2>2, Multiples
    <2>. QED  BY <2>1, <2>2, <2>3, NextChunkFits
<1>3. ASSUME NEW j \in 1 .. N
      PROVE  ChunkBacked(j)'
    <2>. DEFINE pos == (j - 1) * C
                n   == Smaller(vbuf.allocated - pos, C)
    <2>1. ChunkBacked(j)
        BY <1>1 DEF BufInv, Growing
    <2>2. PICK m \in mappings : m.span = NoSpan /\ Backs(m, pos, n, vbuf.handles[j])
        BY <2>1 DEF ChunkBacked, Backed
    <2>3. pos \in Int /\ pos + C <= N * C
        <3>1. PICK q \in Int : q = j - 1 /\ q < N
            BY <1>2
        <3>2. q * C \in Int /\ q * C + C <= N * C
            BY <1>2, <3>1, Multiples
        <3>. QED  BY <3>1, <3>2
    <2>4. m.lo = vbuf.lo + pos /\ m.lo \in Nat /\ m.n \in Nat \ {0}
        <3>1. m.lo = vbuf.lo + pos
            BY <2>2 DEF Backs
        <3>. QED  BY <3>1 DEF VmmInv, VmmTypeOK, MappingRecords
    <2>. HIDE DEF pos
    <2>5. ~Contains(ChunkAt, Chunk, m.lo, m.n)
        BY <1>2, <2>3, <2>4 DEF Contains, ChunkAt
    <2>6. m \in mappings'
        BY <1>1, <2>5, UnmapsSpareOthers
    <2>7. Backs(m, pos, n, vbuf.handles[j])'
        BY <1>1, <2>2 DEF Backs, Smaller
    <2>. QED  BY <1>1, <2>2, <2>6, <2>7 DEF ChunkBacked, Backed, pos
<1>4. Chunked(vbuf') /\ GoalOK' /\ vcall'.h \in Nat /\ vusage' = vbuf'.allocated /\ rival' # BufOwner
    BY <1>1 DEF BufInv, GoalOK, Growing
<1>. QED  BY <1>1, <1>3, <1>4 DEF BufInv

LEMMA BufKeeps == VmmInv /\ VramInv /\ BufInv /\ [VramNext]_vramVars => BufInv'
<1>. SUFFICES ASSUME VmmInv, VramInv, BufInv, [VramNext]_vramVars PROVE BufInv'
    OBVIOUS
<1>. USE VramAssumption, VmmAssumption
<1>1. ASSUME MineKept, UNCHANGED <<bufferVars, rival>>
      PROVE  BufInv'
    <2>1. UNCHANGED <<vbuf, vusage, vpc, vcall, rival>>
        BY <1>1 DEF bufferVars
    <2>2. \A i \in 1 .. Len(vbuf.handles) : ChunkBacked(i) => ChunkBacked(i)'
        BY <1>1, <2>1, ChunksStayBacked
    <2>3. vpc = "access" => Backed(vbuf.allocated, Chunk, vcall.h)'
        <3>1. ASSUME NEW n, n = Chunk, vpc = "access"
              PROVE  Backed(vbuf.allocated, n, vcall.h)' /\ Chunk' = n
            <4>1. Chunk' = Chunk
                BY <2>1 DEF Chunk, Smaller
            <4>2. PICK m \in mappings : m.span = NoSpan /\ Backs(m, vbuf.allocated, n, vcall.h)
                BY <3>1 DEF BufInv, Backed
            <4>. QED  BY <1>1, <2>1, <3>1, <4>1, <4>2 DEF MineKept, Backed, Backs
        <3>. QED  BY <3>1 DEF Backed, Backs
    <2>4. GoalOK => GoalOK'
        BY <2>1 DEF GoalOK
    <2>. QED  BY <2>1, <2>2, <2>3, <2>4 DEF BufInv, Growing
<1>2. CASE UNCHANGED vramVars
    <2>1. MineKept /\ UNCHANGED <<bufferVars, rival>>
        BY <1>2 DEF vramVars, vmmVars, vmmTables, MineKept
    <2>. QED  BY <1>1, <2>1
<1>3. ASSUME Client(rival) \/ ClientFails(rival), UNCHANGED rival
      PROVE  BufInv'
    <2>1. MineKept
        BY <1>3, OthersKeepMine DEF BufInv
    <2>. QED  BY <1>1, <1>3, <2>1 DEF Client, ClientFails
<1>4. ASSUME UNCHANGED rival, NEW n \in BufferSizes, NEW outer \in 0..Space-1, VramCreate(n, outer)
      PROVE  BufInv'
    <2>1. /\ vbuf' = [lo |-> outer, max |-> n, allocated |-> 0, handles |-> <<>>]
          /\ vusage' = vusage /\ vcall' = vcall /\ vpc = "none" /\ vpc' = "idle"
        BY <1>4 DEF VramCreate, NoBuffer, GoTo
    <2>2. vusage = 0 /\ n \in Nat
        BY <2>1 DEF BufInv
    <2>3. /\ vbuf'.handles = <<>> /\ vbuf'.allocated = 0 /\ vbuf'.max = n /\ Len(vbuf'.handles) = 0
          /\ vbuf'.handles \in Seq(Nat)
        BY <2>1
    <2>4. Chunked(vbuf')
        BY <2>2, <2>3 DEF Chunked
    <2>. QED  BY <1>4, <2>1, <2>2, <2>3, <2>4 DEF BufInv, Growing
<1>5. ASSUME UNCHANGED rival, NEW need \in 1..Space, Grow(need)
      PROVE  BufInv'
    <2>1. /\ vpc = "idle" /\ vpc' = "create" /\ UNCHANGED <<vbuf, vusage>> /\ UNCHANGED mappings
          /\ vcall' = [goal |-> GrowTo(need), retried |-> FALSE, h |-> 0, pos |-> 0, i |-> 0]
        BY <1>5 DEF Grow, GoTo, NoVcall, vmmVars, vmmTables
    <2>2. GoalOK'
        <3>. DEFINE k == (need + ChunkPages - 1) \div ChunkPages
        <3>1. k \in Nat /\ k * ChunkPages \in Int
            BY Multiples
        <3>. HIDE DEF k
        <3>2. GrowTo(need) = Smaller(k * ChunkPages, vbuf.max)
            BY DEF GrowTo, k
        <3>3. vbuf.max \in Nat
            BY DEF VramInv, BufferOK
        <3>4. /\ GrowTo(need) <= vbuf.max
              /\ GrowTo(need) = vbuf.max \/ GrowTo(need) = k * ChunkPages
            BY <3>1, <3>2, <3>3 DEF Smaller
        <3>. QED  BY <2>1, <3>1, <3>4 DEF GoalOK
    <2>3. \A i \in 1 .. Len(vbuf.handles) : ChunkBacked(i)'
        BY <2>1, ChunksStayBacked DEF BufInv, MineKept
    <2>4. vcall'.h \in Nat /\ Chunked(vbuf')
        BY <2>1 DEF BufInv
    <2>. QED  BY <1>5, <2>1, <2>2, <2>3, <2>4 DEF BufInv, Growing
<1>6. ASSUME UNCHANGED rival,
             (\E h \in Handles : CreateChunk(h)) \/ CreateChunkFails \/ UndoCreate \/ AccessChunkFails
      PROVE  BufInv'
    <2>1. /\ UNCHANGED <<mappings, vbuf, vusage>> /\ vpc \in Growing
          /\ vpc' \in {"create", "map", "undo map", "idle"}
          /\ \/ vcall' = vcall
             \/ \E h \in Nat : vcall' = [vcall EXCEPT !.h = h]
             \/ vcall' = [vcall EXCEPT !.retried = TRUE, !.h = 0]
             \/ vpc' = "idle" /\ vcall' = NoVcall
        BY <1>6 DEF CreateChunk, CreateChunkFails, UndoCreate, AccessChunkFails, StoogesFailed,
                    Refused, ReleaseHandle, Create, DestroyPhysical, vmmVars, vmmTables, GoTo, Growing
    <2>2. vcall = [goal |-> vcall.goal, retried |-> vcall.retried, h |-> vcall.h,
                   pos |-> vcall.pos, i |-> vcall.i] /\ vcall.h \in Nat
        BY DEF VramInv, GrowCallOK, BufInv
    <2>3. vcall'.h \in Nat /\ (vpc' # "idle" => vcall'.goal = vcall.goal)
        <3>1. CASE vcall' = vcall
            BY <2>2, <3>1
        <3>2. CASE \E h \in Nat : vcall' = [vcall EXCEPT !.h = h]
            BY <2>2, <3>2
        <3>3. CASE vcall' = [vcall EXCEPT !.retried = TRUE, !.h = 0]
            <4>1. vcall' = [goal |-> vcall.goal, retried |-> TRUE, h |-> 0,
                            pos |-> vcall.pos, i |-> vcall.i]
                BY <2>2, <3>3
            <4>. QED  BY <4>1
        <3>4. CASE vpc' = "idle" /\ vcall' = NoVcall
            BY <3>4 DEF NoVcall
        <3>. QED  BY <2>1, <3>1, <3>2, <3>3, <3>4
    <2>4. QuietStep
        BY <1>6, <2>1, <2>3 DEF QuietStep, MineKept, Growing
    <2>. QED  BY <2>4, QuietKeeps
<1>7. ASSUME UNCHANGED rival, VramDestroy
      PROVE  BufInv'
    <2>1. /\ vpc = "idle" /\ vpc' = "unmapping" /\ UNCHANGED <<mappings, vbuf, vusage>>
          /\ vcall' = [goal |-> 0, retried |-> FALSE, h |-> 0, pos |-> 0, i |-> 1]
        BY <1>7 DEF VramDestroy, GoTo, NoVcall, vmmVars, vmmTables
    <2>2. \A i \in 1 .. Len(vbuf.handles) : ChunkBacked(i)'
        BY <2>1, ChunksStayBacked DEF BufInv, MineKept
    <2>3. (1 - 1) * ChunkPages = 0
        OBVIOUS
    <2>4. /\ vcall'.i = 1 /\ vcall'.pos = 0 /\ vcall'.h = 0
          /\ vcall'.pos = (vcall'.i - 1) * ChunkPages
        BY <2>1, <2>3
    <2>. QED  BY <1>7, <2>1, <2>2, <2>4 DEF BufInv, Growing
<1>8. ASSUME UNCHANGED rival, EndUnmapping \/ ReleaseNext
      PROVE  BufInv'
    <2>1. /\ UNCHANGED <<mappings, vbuf, vusage>> /\ vpc' = "releasing"
          /\ \E i : vcall' = [vcall EXCEPT !.i = i]
        BY <1>8 DEF EndUnmapping, ReleaseNext, ReleaseHandle, DestroyPhysical, Refused, GoTo, vmmVars, vmmTables
    <2>2. vcall'.h = vcall.h
        BY <2>1 DEF VramInv, GrowCallOK
    <2>3. QuietStep
        BY <1>8, <2>1, <2>2 DEF QuietStep, MineKept, BufInv
    <2>. QED  BY <2>3, QuietKeeps
<1>9. ASSUME UNCHANGED rival, EndDestroy
      PROVE  BufInv'
    <2>1. /\ vpc' = "none" /\ vusage' = vusage - vbuf.allocated
          /\ vbuf' = [lo |-> 0, max |-> 0, allocated |-> 0, handles |-> <<>>]
          /\ vcall'.h = 0
        BY <1>9 DEF EndDestroy, GoTo, NoBuffer, NoVcall
    <2>2. vusage' = 0
        BY <2>1 DEF BufInv, VramInv, BufferOK
    <2>3. /\ vbuf'.handles = <<>> /\ vbuf'.allocated = 0 /\ vbuf'.max = 0 /\ Len(vbuf'.handles) = 0
          /\ vbuf'.handles \in Seq(Nat)
        BY <2>1
    <2>4. Chunked(vbuf')
        BY <2>3 DEF Chunked
    <2>5. /\ vusage' = vbuf'.allocated /\ vcall'.h \in Nat /\ rival' # BufOwner
          /\ vpc' # "access" /\ vpc' # "unmapping" /\ vpc' \notin {"idle"} \cup Growing
        <3>1. vusage' = vbuf'.allocated /\ vcall'.h \in Nat
            BY <2>1, <2>2, <2>3
        <3>2. rival' # BufOwner
            BY <1>9 DEF BufInv
        <3>3. vpc' # "access" /\ vpc' # "unmapping" /\ vpc' \notin {"idle"} \cup Growing
            BY <2>1 DEF Growing
        <3>. QED  BY <3>1, <3>2, <3>3
    <2>. QED  BY <2>2, <2>4, <2>5 DEF BufInv
<1>. QED
    BY <1>2, <1>3, <1>4, <1>5, <1>6, <1>7, <1>8, <1>9,
       MapChunkKeeps, AccessChunkKeeps, UndoMapKeeps, UnmapNextKeeps DEF VramNext, BufferStep

LEMMA BufStarts == VramInit => BufInv
<1>. SUFFICES ASSUME VramInit PROVE BufInv
    OBVIOUS
<1>1. /\ vusage = 0 /\ vpc = "none" /\ rival # BufOwner
      /\ vbuf.handles = <<>> /\ vbuf.allocated = 0 /\ vbuf.max = 0 /\ vcall.h = 0
    BY DEF VramInit, NoBuffer, NoVcall
<1>2. Chunked(vbuf)
    <2>1. vbuf.handles \in Seq(Nat) /\ Len(vbuf.handles) = 0
        BY <1>1
    <2>. QED  BY <1>1, <2>1, VramAssumption DEF Chunked
<1>. QED  BY <1>1, <1>2 DEF BufInv, Growing

\* The invariant is the property.
LEMMA BackedBuffersAreMapped == VramInv /\ BufInv => BufferIsMapped
<1>. SUFFICES ASSUME VramInv, BufInv PROVE BufferIsMapped
    OBVIOUS
<1>. DEFINE N == Len(vbuf.handles)
            C == ChunkPages
<1>. USE VramAssumption
<1>1. N \in Nat /\ DOMAIN vbuf.handles = 1 .. N /\ vbuf.max \in Nat /\ vbuf.allocated \in Nat
    BY DEF BufInv, Chunked, VramInv, BufferOK
<1>2. VramTypeOK
    <2>1. vbuf.allocated \in 0..vbuf.max /\ vusage = vbuf.allocated
        BY <1>1 DEF BufInv, Chunked
    <2>2. N <= vbuf.max \div C + 1
        <3>1. CASE N = 0
            BY <1>1, <3>1
        <3>2. CASE N > 0
            <4>1. PICK k \in Nat : k = N - 1
                <5>1. N - 1 \in Nat
                    BY <1>1, <3>2
                <5>. QED  BY <5>1
            <4>2. k * C <= vbuf.max
                <5>1. k * C < vbuf.allocated /\ k * C \in Int
                    BY <3>2, <4>1, Multiples DEF BufInv, Chunked
                <5>. QED  BY <1>1, <2>1, <5>1
            <4>3. k <= vbuf.max \div C
                BY <1>1, <4>2, Quotients
            <4>. QED  BY <1>1, <4>1, <4>3
        <3>. QED  BY <1>1, <3>1, <3>2
    <2>. QED  BY <2>1, <2>2 DEF VramTypeOK, VramInv, Growing
<1>3. ASSUME vpc \notin {"none", "unmapping", "releasing"}, NEW i \in DOMAIN vbuf.handles
      PROVE  LET pos == (i - 1) * ChunkPages IN
             \E m \in mappings :
                /\ m.span = NoSpan
                /\ Backs(m, pos, Smaller(vbuf.allocated - pos, ChunkPages), vbuf.handles[i])
    <2>1. ChunkBacked(i)
        BY <1>1, <1>3 DEF BufInv, VramInv
    <2>. QED  BY <2>1 DEF ChunkBacked, Backed
<1>4. ASSUME vpc = "unmapping", MoreChunks
      PROVE  \E m \in mappings : Backs(m, vcall.pos, NextChunk, vbuf.handles[vcall.i])
    <2>1. vcall.i \in 1 .. N /\ vcall.pos = (vcall.i - 1) * C
        BY <1>1, <1>4 DEF BufInv, MoreChunks, VramInv, GrowCallOK
    <2>2. ChunkBacked(vcall.i)
        BY <1>4, <2>1 DEF BufInv
    <2>. QED  BY <2>1, <2>2 DEF ChunkBacked, Backed, NextChunk
<1>. QED  BY <1>2, <1>3, <1>4 DEF BufferIsMapped

\* The buffer's invariant holds in every state.
THEOREM ChunksStand == VramSpec => []BufInv
<1>1. BufInv /\ (VmmInv /\ VramInv) /\ [VramNext]_vramVars => BufInv'
    BY BufKeeps
<1>. QED  BY <1>1, BufStarts, TablesAreSound, PTL DEF VramSpec

\* What vrambuf_grow gave stays mapped to the buffer's own memory until it is
\* destroyed, and vrambuf_destroy unmaps exactly what was mapped, chunk by
\* chunk, whatever driver calls fail and whatever other owners do.
THEOREM BufferMapped == VramSpec => []BufferIsMapped
BY TablesAreSound, ChunksStand, BackedBuffersAreMapped, PTL

-----------------------------------------------------------------------------
(* What is left of a buffer.                                                *)

Mine(S) == {x \in S : x.owner = BufOwner}
HasMemory == {"map", "access", "undo map", "undo create"}

\* As long as no call of the driver has failed the buffer has nothing but its
\* reservation, the memory of the chunks that are not released yet and of the one
\* under way, and the mappings of those that are not unmapped yet.
MyReservation ==
    \A r \in Mine(reservations) : vpc # "none" /\ r.lo = vbuf.lo /\ r.n = vbuf.max
MyHandles ==
    \A p \in Mine(physical) :
       \/ vpc \in HasMemory /\ p.handle = vcall.h
       \/ \E i \in 1 .. Len(vbuf.handles) :
             p.handle = vbuf.handles[i] /\ (vpc = "releasing" => i >= vcall.i)
MyMappings ==
    \A m \in Mine(mappings) :
       /\ m.span = NoSpan
       /\ \/ vpc \in {"access", "undo map"} /\ m.lo = ChunkAt /\ m.n = Chunk
          \/ /\ vpc # "releasing"
             /\ \E i \in 1 .. Len(vbuf.handles) :
                   m.lo = vbuf.lo + (i - 1) * ChunkPages /\ (vpc = "unmapping" => i >= vcall.i)
NewHandle ==
    vpc \in HasMemory => \A i \in 1 .. Len(vbuf.handles) : vbuf.handles[i] # vcall.h

Clean == MyReservation /\ MyHandles /\ MyMappings /\ NewHandle
CleanInv ==
    /\ vfaults \in Nat
    /\ vpc = "none" => Len(vbuf.handles) = 0
    /\ vfaults = 0 => Clean

\* Failures are only added up.
LEMMA FaultsCount ==
    ASSUME vfaults \in Nat, [VramNext]_vramVars
    PROVE  vfaults' \in Nat /\ (vfaults' = 0 => vfaults = 0)
<1>1. vfaults' = vfaults \/ vfaults' = vfaults + 1
    BY DEF VramNext, BufferStep, VramCreate, Grow, CreateChunk, CreateChunkFails, Refused, MapChunk,
           AccessChunk, AccessChunkFails, UnmapRange, ReleaseHandle, UndoMap, UndoCreate, VramDestroy,
           UnmapNext, EndUnmapping, ReleaseNext, EndDestroy, Client, ClientFails, VramFault, vramVars
<1>. QED  BY <1>1

\* Two mappings of a context do not begin at the same place.
LEMMA SamePlace ==
    ASSUME VmmInv, NEW m \in mappings, NEW k \in mappings,
           m.owner.context = k.owner.context, m.lo = k.lo
    PROVE  m = k
<1>1. /\ m.lo \in Nat /\ m.n \in Nat \ {0} /\ k.lo \in Nat /\ k.n \in Nat \ {0}
    BY DEF VmmInv, VmmTypeOK, MappingRecords
<1>2. Overlaps(m.lo, m.n, k.lo, k.n)
    BY <1>1 DEF Overlaps
<1>. QED  BY <1>2 DEF VmmInv, MappingsAreGrounded

\* The manager accepts the unmap of exactly one mapping.
LEMMA ExactUnmaps ==
    ASSUME VmmInv, NEW m \in mappings, m.span = NoSpan
    PROVE  MayUnmap(m.owner, m.lo, m.n)
<1>1. m.lo \in Nat /\ m.n \in Nat \ {0}
    BY DEF VmmInv, VmmTypeOK, MappingRecords
<1>2. Reservation(m.owner, m.lo, m.n) # {}
    BY DEF VmmInv, MappingsAreGrounded, Reservation
<1>3. ASSUME NEW k \in mappings, k.owner.context = m.owner.context, Overlaps(m.lo, m.n, k.lo, k.n)
      PROVE  k = m
    BY <1>3 DEF VmmInv, MappingsAreGrounded
<1>4. Contains(m.lo, m.n, m.lo, m.n) /\ Overlaps(m.lo, m.n, m.lo, m.n)
    BY <1>1 DEF Contains, Overlaps
<1>5. Covered(m.owner, m.lo, m.n)
    <2>1. \A k \in mappings : k.owner = m.owner /\ Overlaps(m.lo, m.n, k.lo, k.n) => k = m
        BY <1>3
    <2>2. \A p \in m.lo .. m.lo + m.n - 1 : p \in m.lo .. m.lo + m.n - 1
        OBVIOUS
    <2>. QED  BY <1>4, <2>1, <2>2 DEF Covered
<1>. QED  BY <1>2, <1>3, <1>4, <1>5 DEF MayUnmap

\* So a range of a buffer that is exactly one mapping is not mapped afterwards.
LEMMA UnmapsExactly ==
    ASSUME VmmInv, vfaults \in Nat, vfaults' = 0, NEW lo, NEW n, UnmapRange(lo, n)
    PROVE  /\ UNCHANGED <<reservations, physical>> /\ mappings' \subseteq mappings
           /\ \A m \in Mine(mappings) :
                 m.span = NoSpan /\ m.lo = lo /\ m.n = n => m \notin mappings'
<1>1. ~VramFault
    BY DEF VramFault
<1>2. \/ MayUnmap(BufOwner, lo, n) /\ Unmap(BufOwner, lo, n, {})
      \/ ~MayUnmap(BufOwner, lo, n) /\ UNCHANGED vmmVars
    BY <1>1 DEF UnmapRange, Unmap
<1>3. CASE Unmap(BufOwner, lo, n, {})
    <2>1. mappings' = mappings \ Doomed(BufOwner, lo, n) /\ UNCHANGED <<reservations, physical>>
        BY <1>3 DEF Unmap
    <2>2. ASSUME NEW m \in Mine(mappings), m.lo = lo, m.n = n
          PROVE  m \in Doomed(BufOwner, lo, n)
        <3>1. m.lo \in Nat /\ m.n \in Nat
            BY DEF VmmInv, VmmTypeOK, MappingRecords, Mine
        <3>. QED  BY <2>2, <3>1 DEF Doomed, Contains, Mine
    <2>. QED  BY <2>1, <2>2
<1>4. CASE ~MayUnmap(BufOwner, lo, n) /\ UNCHANGED vmmVars
    BY <1>4, ExactUnmaps DEF vmmVars, vmmTables, Mine
<1>. QED  BY <1>2, <1>3, <1>4

\* A handle of a buffer that nothing of the buffer maps is released.
LEMMA ReleasesExactly ==
    ASSUME VmmInv, vfaults \in Nat, vfaults' = 0, NEW h, ReleaseHandle(h),
           \A m \in Mine(mappings) : m.handle # h
    PROVE  /\ UNCHANGED <<reservations, mappings>>
           /\ \A p \in Mine(physical') : p \in Mine(physical) /\ p.handle # h
<1>1. ~VramFault
    BY DEF VramFault
<1>2. DestroyPhysical(BufOwner, h) \/ (~MayDestroy(BufOwner, h) /\ UNCHANGED vmmVars)
    BY <1>1 DEF ReleaseHandle, Refused
<1>3. CASE DestroyPhysical(BufOwner, h)
    <2>1. PICK p \in physical : p.handle = h /\ p.owner = BufOwner /\ physical' = physical \ {p}
        BY <1>3 DEF DestroyPhysical
    <2>2. \A q \in Mine(physical) : q.handle = h => q = p
        BY <2>1 DEF VmmInv, HandlesAreUnique, Mine
    <2>. QED  BY <1>3, <2>1, <2>2 DEF DestroyPhysical, Mine
<1>4. CASE ~MayDestroy(BufOwner, h) /\ UNCHANGED vmmVars
    <2>1. ASSUME NEW p \in Mine(physical), p.handle = h PROVE FALSE
        <3>1. PICK m \in mappings : m.owner.context = BufOwner.context /\ m.handle = h
            BY <1>4, <2>1 DEF MayDestroy, Mine
        <3>2. PICK q \in physical : q.owner = m.owner /\ q.handle = m.handle
            BY DEF VmmInv, MappingsAreGrounded
        <3>3. q = p
            BY <2>1, <3>1, <3>2 DEF VmmInv, HandlesAreUnique, Mine
        <3>. QED  BY <3>1, <3>2, <3>3 DEF Mine
    <2>. QED  BY <1>4, <2>1 DEF vmmVars, vmmTables, Mine
<1>. QED  BY <1>2, <1>3, <1>4

\* A buffer without mappings gives its reservation back.
LEMMA FreesExactly ==
    ASSUME VmmInv, vfaults \in Nat, vfaults' = 0, Mine(mappings) = {},
           \A r \in Mine(reservations) : r.lo = vbuf.lo /\ r.n = vbuf.max, EndDestroy
    PROVE  UNCHANGED <<physical, mappings>> /\ Mine(reservations') = {}
<1>. DEFINE lo == vbuf.lo
            n  == vbuf.max
<1>1. ~VramFault
    BY DEF VramFault
<1>2. \/ FreeReserved(BufOwner, lo, n)
      \/ ~MayFree(BufOwner, lo, n) /\ UNCHANGED vmmVars
    BY <1>1 DEF EndDestroy, Refused
<1>3. ASSUME NEW r \in Mine(reservations)
      PROVE  /\ r \in ReservationRecords /\ r.lo = lo /\ r.n = n
             /\ r \in Reservation(BufOwner, lo, n)
    <2>1. r \in ReservationRecords /\ r.lo = lo /\ r.n = n
        BY DEF VmmInv, VmmTypeOK, Mine
    <2>2. Contains(r.lo, r.n, lo, n)
        BY <2>1 DEF Contains, ReservationRecords
    <2>. QED  BY <2>1, <2>2 DEF Reservation, Mine
<1>4. ASSUME NEW r \in reservations, NEW s \in reservations, r.owner.context = s.owner.context,
             NEW p \in Int, p \in r.lo .. r.lo + r.n - 1, p \in s.lo .. s.lo + s.n - 1
      PROVE  r = s
    <2>1. /\ r \in ReservationRecords /\ s \in ReservationRecords
          /\ Contains(r.outer, r.outerN, r.lo, r.n) /\ Contains(s.outer, s.outerN, s.lo, s.n)
        BY DEF VmmInv, VmmTypeOK, ReservationsAreApart
    <2>2. Overlaps(r.outer, r.outerN, s.outer, s.outerN)
        BY <1>4, <2>1 DEF Overlaps, Contains, ReservationRecords
    <2>. QED  BY <1>4, <2>2 DEF VmmInv, ReservationsAreApart
<1>5. CASE FreeReserved(BufOwner, lo, n)
    <2>1. PICK r \in Reservation(BufOwner, lo, n) :
             r.lo = lo /\ r.n = n /\ reservations' = reservations \ {r}
        BY <1>5 DEF FreeReserved
    <2>2. ASSUME NEW s \in Mine(reservations) PROVE s = r
        <3>1. /\ r \in reservations /\ s \in reservations /\ r.owner = s.owner
              /\ s.lo = lo /\ s.n = n /\ s \in ReservationRecords
            BY <1>3, <2>1 DEF Reservation, Mine
        <3>2. lo \in Int /\ lo \in s.lo .. s.lo + s.n - 1 /\ lo \in r.lo .. r.lo + r.n - 1
            BY <2>1, <3>1 DEF ReservationRecords
        <3>. QED  BY <1>4, <3>1, <3>2
    <2>. QED  BY <1>5, <2>1, <2>2 DEF FreeReserved, Mine
<1>6. CASE ~MayFree(BufOwner, lo, n) /\ UNCHANGED vmmVars
    <2>1. ASSUME NEW r \in Mine(reservations) PROVE FALSE
        <3>1. PICK m \in mappings :
                 m.owner.context = BufOwner.context /\ Overlaps(lo, n, m.lo, m.n)
            BY <1>3, <1>6 DEF MayFree
        <3>2. PICK s \in reservations : s.owner = m.owner /\ Contains(s.lo, s.n, m.lo, m.n)
            BY DEF VmmInv, MappingsAreGrounded
        <3>3. /\ r \in ReservationRecords /\ s \in ReservationRecords /\ m \in MappingRecords
              /\ r.lo = lo /\ r.n = n /\ r \in reservations /\ r.owner = BufOwner
            BY <1>3 DEF VmmInv, VmmTypeOK, Mine
        <3>4. PICK p \in Int : p \in r.lo .. r.lo + r.n - 1 /\ p \in m.lo .. m.lo + m.n - 1
            <4>1. CASE lo <= m.lo
                BY <3>1, <3>3, <4>1 DEF Overlaps, ReservationRecords, MappingRecords
            <4>2. CASE m.lo < lo
                BY <3>1, <3>3, <4>2 DEF Overlaps, ReservationRecords, MappingRecords
            <4>. QED  BY <3>3, <4>1, <4>2 DEF ReservationRecords, MappingRecords
        <3>5. p \in s.lo .. s.lo + s.n - 1
            BY <3>2, <3>3, <3>4 DEF Contains, ReservationRecords, MappingRecords
        <3>6. r = s
            BY <1>4, <3>1, <3>2, <3>3, <3>4, <3>5
        <3>. QED  BY <3>2, <3>3, <3>6 DEF Mine
    <2>. QED  BY <1>6, <2>1 DEF vmmVars, vmmTables, Mine
<1>. QED  BY <1>2, <1>5, <1>6

\* What other owners do adds nothing to the buffer.
LEMMA OthersAddNothing ==
    ASSUME NEW o, o # BufOwner, Client(o) \/ ClientFails(o)
    PROVE  /\ Mine(reservations') \subseteq Mine(reservations)
           /\ Mine(physical') \subseteq Mine(physical)
           /\ Mine(mappings') \subseteq Mine(mappings)
<1>1. ASSUME NEW lo, NEW n, NEW kept, Unmap(o, lo, n, kept)
      PROVE  /\ UNCHANGED <<reservations, physical>>
             /\ Mine(mappings') \subseteq Mine(mappings)
    <2>1. \A m \in kept : [m EXCEPT !.span = <<lo, n>>].owner = m.owner
        BY <1>1 DEF Unmap, Doomed
    <2>. QED  BY <1>1, <2>1 DEF Unmap, Doomed, Mine
<1>2. ASSUME NEW lo, NEW n, NEW h, NEW off, Map(o, lo, n, h, off)
      PROVE  /\ UNCHANGED <<reservations, physical>>
             /\ Mine(mappings') \subseteq Mine(mappings)
    BY <1>2 DEF Map, Mine
<1>3. ASSUME NEW n, NEW a, NEW outer, Reserve(o, n, a, outer)
      PROVE  /\ UNCHANGED <<physical, mappings>>
             /\ Mine(reservations') \subseteq Mine(reservations)
    BY <1>3 DEF Reserve, Mine
<1>4. ASSUME NEW h, NEW n, Create(o, h, n)
      PROVE  /\ UNCHANGED <<reservations, mappings>>
             /\ Mine(physical') \subseteq Mine(physical)
    BY <1>4 DEF Create, Mine
<1>5. ASSUME NEW h, DestroyPhysical(o, h)
      PROVE  /\ UNCHANGED <<reservations, mappings>>
             /\ Mine(physical') \subseteq Mine(physical)
    BY <1>5 DEF DestroyPhysical, Mine
<1>6. ASSUME NEW lo, NEW n, FreeReserved(o, lo, n)
      PROVE  /\ UNCHANGED <<physical, mappings>>
             /\ Mine(reservations') \subseteq Mine(reservations)
    BY <1>6 DEF FreeReserved, Mine
<1>. QED  BY <1>1, <1>2, <1>3, <1>4, <1>5, <1>6 DEF Client, ClientFails

-----------------------------------------------------------------------------
(* Every step keeps it so.                                                  *)

\* A step that gives the buffer nothing, in the same place of the call.
LEMMA CleanStays ==
    ASSUME Clean, UNCHANGED <<vbuf, vpc, vcall>>,
           Mine(reservations') \subseteq Mine(reservations),
           Mine(physical') \subseteq Mine(physical), Mine(mappings') \subseteq Mine(mappings)
    PROVE  Clean'
<1>1. ChunkAt' = ChunkAt /\ Chunk' = Chunk
    BY DEF ChunkAt, Chunk, Smaller
<1>2. /\ Mine(reservations)' = Mine(reservations') /\ Mine(physical)' = Mine(physical')
      /\ Mine(mappings)' = Mine(mappings')
    BY DEF Mine
<1>3. MyReservation'
    BY <1>2 DEF Clean, MyReservation
<1>4. MyHandles'
    BY <1>2 DEF Clean, MyHandles
<1>5. MyMappings'
    BY <1>1, <1>2 DEF Clean, MyMappings
<1>6. NewHandle'
    BY DEF Clean, NewHandle
<1>. QED  BY <1>3, <1>4, <1>5, <1>6 DEF Clean

\* A step of a growth that changes no table and forgets nothing.
LEMMA CleanMoves ==
    ASSUME Clean, UNCHANGED <<vmmTables, vbuf>>, vpc' \notin {"none", "unmapping", "releasing"},
           vpc \notin {"none", "unmapping", "releasing"},
           \/ /\ vpc \in HasMemory /\ vpc' \in HasMemory /\ vcall' = vcall
              /\ vpc \in {"access", "undo map"} => vpc' \in {"access", "undo map"}
           \/ vpc \notin HasMemory /\ vpc' \notin HasMemory
    PROVE  Clean'
<1>1. /\ Mine(reservations)' = Mine(reservations) /\ Mine(physical)' = Mine(physical)
      /\ Mine(mappings)' = Mine(mappings)
    BY DEF Mine, vmmTables
<1>2. vcall' = vcall => ChunkAt' = ChunkAt /\ Chunk' = Chunk
    BY DEF ChunkAt, Chunk, Smaller
<1>3. MyReservation'
    BY <1>1 DEF Clean, MyReservation
<1>4. MyHandles'
    BY <1>1 DEF Clean, MyHandles, HasMemory
<1>5. MyMappings'
    BY <1>1, <1>2 DEF Clean, MyMappings, HasMemory
<1>6. NewHandle'
    BY DEF Clean, NewHandle, HasMemory
<1>. QED  BY <1>3, <1>4, <1>5, <1>6 DEF Clean

\* A buffer is made.
LEMMA VramCreateClean ==
    ASSUME Clean, vpc = "none" => Len(vbuf.handles) = 0,
           NEW n \in BufferSizes, NEW outer \in Nat, VramCreate(n, outer)
    PROVE  Clean'
<1>. DEFINE r == [owner |-> BufOwner, lo |-> AlignUp(outer, 1), n |-> n,
                  outer |-> outer, outerN |-> n + 1 - 1]
<1>1. /\ vpc = "none" /\ vpc' = "idle" /\ vbuf'.lo = outer /\ vbuf'.max = n
      /\ UNCHANGED <<physical, mappings>> /\ reservations' = reservations \cup {r}
    BY DEF VramCreate, Reserve, GoTo, NoBuffer
<1>2. AlignUp(outer, 1) = outer
    BY DEF AlignUp
<1>3. r.lo = outer /\ r.n = n
    BY <1>2
<1>4. 1 .. Len(vbuf.handles) = {}
    BY <1>1
<1>5. Mine(reservations) = {} /\ Mine(physical) = {} /\ Mine(mappings) = {}
    <2>1. Mine(reservations) = {}
        BY <1>1 DEF Clean, MyReservation
    <2>2. Mine(physical) = {}
        BY <1>1, <1>4 DEF Clean, MyHandles, HasMemory
    <2>3. Mine(mappings) = {}
        BY <1>1, <1>4 DEF Clean, MyMappings
    <2>. QED  BY <2>1, <2>2, <2>3
<1>6. /\ Mine(physical)' = {} /\ Mine(mappings)' = {}
      /\ \A s \in Mine(reservations)' : s = r
    <2>1. Mine(physical)' = Mine(physical) /\ Mine(mappings)' = Mine(mappings)
        BY <1>1 DEF Mine
    <2>2. \A s \in reservations' : s.owner = BufOwner => s \in Mine(reservations) \/ s = r
        BY <1>1 DEF Mine
    <2>. QED  BY <1>5, <2>1, <2>2 DEF Mine
<1>. HIDE DEF r
<1>7. MyReservation'
    BY <1>1, <1>3, <1>6 DEF MyReservation
<1>. QED  BY <1>1, <1>6, <1>7 DEF Clean, MyHandles, MyMappings, NewHandle, HasMemory

\* The driver gives memory that the buffer does not have yet.
LEMMA CreateChunkClean ==
    ASSUME Clean, VmmInv, VramInv, BufInv, NEW h, CreateChunk(h)
    PROVE  Clean'
<1>. DEFINE p == [owner |-> BufOwner, handle |-> h, n |-> Chunk]
<1>1. /\ vpc = "create" /\ vpc' = "map" /\ UNCHANGED <<reservations, mappings, vbuf>>
      /\ h \in FreeHandles(BufOwner.context) /\ physical' = physical \cup {p}
      /\ vcall'.h = h
    BY DEF CreateChunk, Create, GoTo, VramInv, GrowCallOK
<1>2. p.handle = h
    OBVIOUS
<1>3. \A q \in physical : q.owner = BufOwner => q.handle # h
    <2>. SUFFICES ASSUME NEW q \in physical, q.owner = BufOwner, q.handle = h PROVE FALSE
        OBVIOUS
    <2>1. dphys = {[context |-> k.owner.context, handle |-> k.handle, n |-> k.n] : k \in physical}
        BY DEF VmmInv, MappingsAreGrounded, TablesMatchDriver
    <2>2. PICK d \in dphys : d.context = BufOwner.context /\ d.handle = h
        <3>. DEFINE d == [context |-> q.owner.context, handle |-> q.handle, n |-> q.n]
        <3>1. d \in dphys /\ d.context = BufOwner.context /\ d.handle = h
            BY <2>1
        <3>. QED  BY <3>1
    <2>. QED  BY <1>1, <2>2 DEF FreeHandles
<1>4. NewHandle'
    <2>1. ASSUME NEW i \in 1 .. Len(vbuf.handles) PROVE vbuf.handles[i] # h
        <3>1. PICK m \in mappings : m.owner = BufOwner /\ m.handle = vbuf.handles[i]
            BY <1>1 DEF BufInv, Growing, ChunkBacked, Backed, Backs
        <3>2. PICK q \in physical : q.owner = m.owner /\ q.handle = m.handle
            BY DEF VmmInv, MappingsAreGrounded
        <3>. QED  BY <1>3, <3>1, <3>2
    <2>. QED  BY <1>1, <2>1 DEF NewHandle
<1>. HIDE DEF p
<1>5. MyHandles'
    <2>1. \A q \in Mine(physical)' : q \in Mine(physical) \/ q = p
        BY <1>1 DEF Mine
    <2>2. \A q \in Mine(physical) : \E i \in 1 .. Len(vbuf.handles) : q.handle = vbuf.handles[i]
        BY <1>1 DEF Clean, MyHandles, HasMemory
    <2>. QED  BY <1>1, <1>2, <2>1, <2>2 DEF MyHandles, HasMemory
<1>6. Mine(reservations)' = Mine(reservations) /\ Mine(mappings)' = Mine(mappings)
    BY <1>1 DEF Mine
<1>7. MyReservation'
    BY <1>1, <1>6 DEF Clean, MyReservation
<1>8. MyMappings'
    BY <1>1, <1>6 DEF Clean, MyMappings
<1>. QED  BY <1>4, <1>5, <1>7, <1>8 DEF Clean

\* The chunk is mapped, or not.
LEMMA MapChunkClean ==
    ASSUME Clean, MapChunk
    PROVE  Clean'
<1>1. vpc = "map" /\ UNCHANGED <<vbuf, vcall>>
    BY DEF MapChunk
<1>2. CASE Map(BufOwner, ChunkAt, Chunk, vcall.h, 0) /\ GoTo("access")
    <2>. DEFINE m == [owner |-> BufOwner, lo |-> ChunkAt, n |-> Chunk,
                      handle |-> vcall.h, off |-> 0, span |-> NoSpan]
    <2>1. /\ UNCHANGED <<reservations, physical>> /\ mappings' = mappings \cup {m}
          /\ vpc' = "access"
        BY <1>2 DEF Map, GoTo
    <2>2. m.lo = ChunkAt /\ m.n = Chunk /\ m.span = NoSpan
        OBVIOUS
    <2>. HIDE DEF m
    <2>3. /\ Mine(reservations)' = Mine(reservations) /\ Mine(physical)' = Mine(physical)
          /\ \A k \in Mine(mappings)' : k \in Mine(mappings) \/ k = m
        BY <2>1 DEF Mine
    <2>4. ChunkAt' = ChunkAt /\ Chunk' = Chunk
        BY <1>1 DEF ChunkAt, Chunk, Smaller
    <2>5. MyMappings'
        BY <1>1, <2>1, <2>2, <2>3, <2>4 DEF Clean, MyMappings
    <2>6. MyReservation' /\ MyHandles' /\ NewHandle'
        BY <1>1, <2>1, <2>3 DEF Clean, MyReservation, MyHandles, NewHandle, HasMemory
    <2>. QED  BY <2>5, <2>6 DEF Clean
<1>3. CASE UNCHANGED vmmVars /\ GoTo("undo create")
    BY <1>1, <1>3, CleanMoves DEF GoTo, vmmVars, HasMemory
<1>. QED  BY <1>2, <1>3 DEF MapChunk, Refused

\* The chunk becomes one of the buffer's.
LEMMA AccessChunkClean ==
    ASSUME Clean, VramInv, BufInv, AccessChunk
    PROVE  Clean'
<1>. DEFINE N  == Len(vbuf.handles)
            hs == Append(vbuf.handles, vcall.h)
<1>1. /\ vpc = "access" /\ vpc' \in {"create", "idle"} /\ UNCHANGED <<reservations, physical, mappings>>
      /\ vbuf'.lo = vbuf.lo /\ vbuf'.max = vbuf.max /\ vbuf'.handles = hs
    BY DEF AccessChunk, VramInv, BufferOK, vmmVars, vmmTables, GoTo
<1>2. vbuf.handles \in Seq(Nat) /\ N \in Nat
    BY DEF BufInv, Chunked
<1>3. Len(hs) = N + 1 /\ hs[N + 1] = vcall.h /\ \A i \in 1 .. N : hs[i] = vbuf.handles[i]
    BY <1>2
<1>. HIDE DEF hs
<1>4. ASSUME NEW k \in 1 .. N + 1, k = N + 1 PROVE ChunkAt = vbuf.lo + (k - 1) * ChunkPages
    <2>1. vbuf.allocated = N * ChunkPages /\ k - 1 = N
        BY <1>1, <1>2, <1>4, NextChunkFits DEF Growing
    <2>. QED  BY <2>1 DEF ChunkAt
<1>5. /\ Mine(reservations)' = Mine(reservations) /\ Mine(physical)' = Mine(physical)
      /\ Mine(mappings)' = Mine(mappings)
    BY <1>1 DEF Mine
<1>6. MyReservation'
    BY <1>1, <1>5 DEF Clean, MyReservation
<1>7. MyHandles'
    <2>1. ASSUME NEW p \in Mine(physical) PROVE \E i \in 1 .. N + 1 : p.handle = hs[i]
        <3>1. CASE p.handle = vcall.h
            BY <1>2, <1>3, <3>1
        <3>2. CASE \E i \in 1 .. N : p.handle = vbuf.handles[i]
            BY <1>2, <1>3, <3>2
        <3>. QED  BY <3>1, <3>2 DEF Clean, MyHandles
    <2>. QED  BY <1>1, <1>3, <1>5, <2>1 DEF MyHandles
<1>8. MyMappings'
    <2>1. ASSUME NEW m \in Mine(mappings)
          PROVE  m.span = NoSpan /\ \E i \in 1 .. N + 1 : m.lo = vbuf.lo + (i - 1) * ChunkPages
        <3>1. CASE m.lo = ChunkAt
            <4>1. N + 1 \in 1 .. N + 1
                BY <1>2
            <4>2. PICK k \in 1 .. N + 1 : k = N + 1
                BY <4>1
            <4>3. m.lo = vbuf.lo + (k - 1) * ChunkPages
                BY <1>4, <3>1, <4>2
            <4>. QED  BY <4>3 DEF Clean, MyMappings
        <3>2. CASE \E i \in 1 .. N : m.lo = vbuf.lo + (i - 1) * ChunkPages
            <4>1. \A i \in 1 .. N : i \in 1 .. N + 1
                BY <1>2
            <4>. QED  BY <3>2, <4>1 DEF Clean, MyMappings
        <3>. QED  BY <3>1, <3>2 DEF Clean, MyMappings
    <2>. QED  BY <1>1, <1>3, <1>5, <2>1 DEF MyMappings
<1>9. NewHandle'
    BY <1>1 DEF NewHandle, HasMemory
<1>. QED  BY <1>6, <1>7, <1>8, <1>9 DEF Clean

\* The chunk under way is unmapped again.
LEMMA UndoMapClean ==
    ASSUME Clean, VmmInv, vfaults \in Nat, vfaults' = 0, UndoMap
    PROVE  Clean'
<1>1. /\ vpc = "undo map" /\ vpc' = "undo create" /\ UNCHANGED <<vbuf, vcall>>
      /\ UnmapRange(ChunkAt, Chunk)
    BY DEF UndoMap, GoTo
<1>2. /\ UNCHANGED <<reservations, physical>> /\ mappings' \subseteq mappings
      /\ \A m \in Mine(mappings) :
            m.span = NoSpan /\ m.lo = ChunkAt /\ m.n = Chunk => m \notin mappings'
    BY <1>1, UnmapsExactly
<1>3. /\ Mine(reservations)' = Mine(reservations) /\ Mine(physical)' = Mine(physical)
      /\ \A m \in Mine(mappings)' : m \in Mine(mappings) /\ m \in mappings'
    BY <1>2 DEF Mine
<1>4. MyMappings'
    BY <1>1, <1>2, <1>3 DEF Clean, MyMappings
<1>5. MyReservation' /\ MyHandles' /\ NewHandle'
    BY <1>1, <1>3 DEF Clean, MyReservation, MyHandles, NewHandle, HasMemory
<1>. QED  BY <1>4, <1>5 DEF Clean

\* A mapping of the buffer that begins where a chunk does is that chunk's.
LEMMA ChunksMapping ==
    ASSUME VmmInv, NEW i, ChunkBacked(i), NEW m \in Mine(mappings),
           m.lo = vbuf.lo + (i - 1) * ChunkPages
    PROVE  /\ m.handle = vbuf.handles[i]
           /\ m.n = Smaller(vbuf.allocated - (i - 1) * ChunkPages, ChunkPages)
<1>. DEFINE pos == (i - 1) * ChunkPages
            n   == Smaller(vbuf.allocated - pos, ChunkPages)
<1>1. PICK k \in mappings : Backs(k, pos, n, vbuf.handles[i])
    BY DEF ChunkBacked, Backed
<1>2. k.owner = m.owner /\ k.lo = m.lo /\ m \in mappings
    BY <1>1 DEF Backs, Mine
<1>3. k = m
    BY <1>2, SamePlace
<1>. QED  BY <1>1, <1>3 DEF Backs

\* The memory of the chunk under way is released again.
LEMMA UndoCreateClean ==
    ASSUME Clean, VmmInv, BufInv, vfaults \in Nat, vfaults' = 0, UndoCreate
    PROVE  Clean'
<1>1. /\ vpc = "undo create" /\ vpc' \in {"create", "idle"} /\ UNCHANGED vbuf
      /\ ReleaseHandle(vcall.h)
    BY DEF UndoCreate, StoogesFailed, GoTo
<1>2. ASSUME NEW m \in Mine(mappings) PROVE m.handle # vcall.h
    <2>1. PICK i \in 1 .. Len(vbuf.handles) : m.lo = vbuf.lo + (i - 1) * ChunkPages
        BY <1>1 DEF Clean, MyMappings
    <2>2. ChunkBacked(i)
        BY <1>1 DEF BufInv, Growing
    <2>3. m.handle = vbuf.handles[i]
        BY <2>1, <2>2, ChunksMapping
    <2>. QED  BY <1>1, <2>3 DEF Clean, NewHandle, HasMemory
<1>3. /\ UNCHANGED <<reservations, mappings>>
      /\ \A p \in Mine(physical') : p \in Mine(physical) /\ p.handle # vcall.h
    BY <1>1, <1>2, ReleasesExactly
<1>4. /\ Mine(reservations)' = Mine(reservations) /\ Mine(mappings)' = Mine(mappings)
      /\ Mine(physical)' = Mine(physical')
    BY <1>3 DEF Mine
<1>5. MyReservation'
    BY <1>1, <1>4 DEF Clean, MyReservation
<1>6. MyHandles'
    BY <1>1, <1>3, <1>4 DEF Clean, MyHandles
<1>7. MyMappings'
    BY <1>1, <1>4 DEF Clean, MyMappings
<1>8. NewHandle'
    BY <1>1 DEF NewHandle, HasMemory
<1>. QED  BY <1>5, <1>6, <1>7, <1>8 DEF Clean

\* One chunk of a destroyed buffer is unmapped.
LEMMA UnmapNextClean ==
    ASSUME Clean, VmmInv, VramInv, BufInv, vfaults \in Nat, vfaults' = 0, UnmapNext
    PROVE  Clean'
<1>1. /\ vpc = "unmapping" /\ vpc' = "unmapping" /\ UNCHANGED vbuf
      /\ vcall.i \in 1 .. Len(vbuf.handles) /\ vcall.i \in Nat /\ vcall.pos = (vcall.i - 1) * ChunkPages
      /\ UnmapRange(vbuf.lo + vcall.pos, NextChunk) /\ vcall'.i = vcall.i + 1
    BY DEF UnmapNext, MoreChunks, VramInv, GrowCallOK, BufInv, Chunked
<1>2. /\ UNCHANGED <<reservations, physical>> /\ mappings' \subseteq mappings
      /\ \A m \in Mine(mappings) :
            m.span = NoSpan /\ m.lo = vbuf.lo + vcall.pos /\ m.n = NextChunk => m \notin mappings'
    BY <1>1, UnmapsExactly
<1>3. /\ Mine(reservations)' = Mine(reservations) /\ Mine(physical)' = Mine(physical)
      /\ \A m \in Mine(mappings)' : m \in Mine(mappings) /\ m \in mappings'
    BY <1>2 DEF Mine
<1>4. MyMappings'
    <2>1. ASSUME NEW m \in Mine(mappings)'
          PROVE  /\ m.span = NoSpan
                 /\ \E i \in 1 .. Len(vbuf.handles) :
                       m.lo = vbuf.lo + (i - 1) * ChunkPages /\ i >= vcall.i + 1
        <3>1. m.span = NoSpan /\ m \in Mine(mappings)
            BY <1>3 DEF Clean, MyMappings
        <3>2. PICK i \in 1 .. Len(vbuf.handles) :
                 m.lo = vbuf.lo + (i - 1) * ChunkPages /\ i >= vcall.i
            BY <1>1, <1>3 DEF Clean, MyMappings
        <3>3. ASSUME i = vcall.i PROVE FALSE
            <4>1. ChunkBacked(i)
                BY <1>1, <3>2 DEF BufInv
            <4>2. m.n = Smaller(vbuf.allocated - (i - 1) * ChunkPages, ChunkPages)
                BY <3>1, <3>2, <4>1, ChunksMapping
            <4>3. m.n = NextChunk /\ m.lo = vbuf.lo + vcall.pos
                BY <1>1, <3>2, <3>3, <4>2 DEF NextChunk
            <4>. QED  BY <1>2, <1>3, <3>1, <4>3
        <3>4. i >= vcall.i + 1
            BY <1>1, <3>2, <3>3
        <3>. QED  BY <3>1, <3>2, <3>4
    <2>. QED  BY <1>1, <2>1 DEF MyMappings
<1>5. MyReservation' /\ MyHandles' /\ NewHandle'
    BY <1>1, <1>3 DEF Clean, MyReservation, MyHandles, NewHandle, HasMemory
<1>. QED  BY <1>4, <1>5 DEF Clean

\* When nothing is left to unmap, nothing is mapped.
LEMMA EndUnmappingClean ==
    ASSUME Clean, VramInv, BufInv, EndUnmapping
    PROVE  Clean'
<1>. DEFINE N == Len(vbuf.handles)
<1>1. /\ vpc = "unmapping" /\ vpc' = "releasing" /\ ~MoreChunks
      /\ UNCHANGED <<reservations, physical, mappings, vbuf>> /\ vcall'.i = 1
    BY DEF EndUnmapping, GoTo, VramInv, GrowCallOK, vmmVars, vmmTables
<1>2. /\ vcall.i \in Nat /\ vbuf.allocated \in Nat /\ N \in Nat /\ vcall.pos \in Nat
      /\ N > 0 => (N - 1) * ChunkPages < vbuf.allocated
      /\ vcall.i <= N => vcall.pos = (vcall.i - 1) * ChunkPages
    BY <1>1 DEF VramInv, GrowCallOK, BufferOK, BufInv, Chunked
<1>3. vcall.i > N
    <2>. SUFFICES ASSUME vcall.i <= N PROVE FALSE
        BY <1>2
    <2>1. vbuf.allocated <= vcall.pos
        BY <1>1, <1>2 DEF MoreChunks
    <2>2. vcall.i - 1 \in Int /\ N - 1 \in Int /\ vcall.i - 1 <= N - 1 /\ ChunkPages \in Nat \ {0}
        BY <1>2, VramAssumption
    <2>3. PICK a \in Int, b \in Int : a = vcall.i - 1 /\ b = N - 1
        BY <2>2
    <2>4. a * ChunkPages <= b * ChunkPages /\ a * ChunkPages \in Int /\ b * ChunkPages \in Int
        BY <2>2, <2>3, Multiples
    <2>5. N > 0
        BY <1>1, <1>2 DEF BufInv
    <2>6. b * ChunkPages < vbuf.allocated /\ vcall.pos = a * ChunkPages
        BY <1>2, <2>3, <2>5
    <2>. QED  BY <1>2, <2>1, <2>4, <2>6
<1>4. Mine(mappings) = {}
    BY <1>1, <1>2, <1>3 DEF Clean, MyMappings
<1>5. /\ Mine(reservations)' = Mine(reservations) /\ Mine(physical)' = Mine(physical)
      /\ Mine(mappings)' = {}
    BY <1>1, <1>4 DEF Mine
<1>6. MyHandles'
    <2>1. \A p \in Mine(physical) : \E i \in 1 .. N : p.handle = vbuf.handles[i]
        BY <1>1 DEF Clean, MyHandles, HasMemory
    <2>2. \A i \in 1 .. N : i >= 1
        BY <1>2
    <2>. QED  BY <1>1, <1>5, <2>1, <2>2 DEF MyHandles
<1>7. MyReservation'
    BY <1>1, <1>5 DEF Clean, MyReservation
<1>. QED  BY <1>1, <1>5, <1>6, <1>7 DEF Clean, MyMappings, NewHandle, HasMemory

\* The memory of one chunk is released.
LEMMA ReleaseNextClean ==
    ASSUME Clean, VmmInv, VramInv, vfaults \in Nat, vfaults' = 0, ReleaseNext
    PROVE  Clean'
<1>1. /\ vpc = "releasing" /\ vpc' = "releasing" /\ UNCHANGED vbuf
      /\ ReleaseHandle(vbuf.handles[vcall.i]) /\ vcall'.i = vcall.i + 1 /\ vcall.i \in Nat
    BY DEF ReleaseNext, VramInv, GrowCallOK
<1>2. Mine(mappings) = {}
    BY <1>1 DEF Clean, MyMappings
<1>3. /\ UNCHANGED <<reservations, mappings>>
      /\ \A p \in Mine(physical') : p \in Mine(physical) /\ p.handle # vbuf.handles[vcall.i]
    BY <1>1, <1>2, ReleasesExactly
<1>4. /\ Mine(reservations)' = Mine(reservations) /\ Mine(mappings)' = {}
      /\ Mine(physical)' = Mine(physical')
    BY <1>2, <1>3 DEF Mine
<1>5. MyHandles'
    <2>1. ASSUME NEW p \in Mine(physical')
          PROVE  \E i \in 1 .. Len(vbuf.handles) : p.handle = vbuf.handles[i] /\ i >= vcall.i + 1
        <3>1. PICK i \in 1 .. Len(vbuf.handles) : p.handle = vbuf.handles[i] /\ i >= vcall.i
            BY <1>1, <1>3, <2>1 DEF Clean, MyHandles, HasMemory
        <3>2. i # vcall.i
            BY <1>3, <2>1, <3>1
        <3>. QED  BY <1>1, <3>1, <3>2
    <2>. QED  BY <1>1, <1>4, <2>1 DEF MyHandles
<1>6. MyReservation'
    BY <1>1, <1>4 DEF Clean, MyReservation
<1>. QED  BY <1>1, <1>4, <1>5, <1>6 DEF Clean, MyMappings, NewHandle, HasMemory

\* The reservation is given back last.
LEMMA EndDestroyClean ==
    ASSUME Clean, VmmInv, VramInv, BufInv, vfaults \in Nat, vfaults' = 0, EndDestroy
    PROVE  Clean' /\ Len(vbuf'.handles) = 0
<1>1. /\ vpc = "releasing" /\ vpc' = "none" /\ vcall.i > Len(vbuf.handles)
      /\ vcall.i \in Nat /\ Len(vbuf.handles) \in Nat /\ vbuf'.handles = <<>>
    BY DEF EndDestroy, GoTo, VramInv, GrowCallOK, BufInv, Chunked, NoBuffer
<1>2. Mine(mappings) = {} /\ Mine(physical) = {}
    BY <1>1 DEF Clean, MyMappings, MyHandles, HasMemory
<1>3. UNCHANGED <<physical, mappings>> /\ Mine(reservations') = {}
    BY <1>2, FreesExactly DEF Clean, MyReservation
<1>4. Mine(mappings)' = {} /\ Mine(physical)' = {} /\ Mine(reservations)' = {}
    BY <1>2, <1>3 DEF Mine
<1>. QED  BY <1>1, <1>4 DEF Clean, MyReservation, MyHandles, MyMappings, NewHandle, HasMemory

\* Every step keeps the invariant.
LEMMA CleanKeeps == VmmInv /\ VramInv /\ BufInv /\ CleanInv /\ [VramNext]_vramVars => CleanInv'
<1>. SUFFICES ASSUME VmmInv, VramInv, BufInv, CleanInv, [VramNext]_vramVars PROVE CleanInv'
    OBVIOUS
<1>1. vfaults \in Nat /\ vfaults' \in Nat /\ (vfaults' = 0 => vfaults = 0 /\ Clean)
    BY FaultsCount DEF CleanInv
<1>2. CASE UNCHANGED vramVars
    <2>1. UNCHANGED <<vbuf, vpc, vcall, reservations, physical, mappings>>
        BY <1>2 DEF vramVars, vmmVars, vmmTables, bufferVars
    <2>2. Clean => Clean'
        BY <2>1, CleanStays DEF Mine
    <2>. QED  BY <1>1, <2>1, <2>2 DEF CleanInv
<1>3. CASE Client(rival) \/ ClientFails(rival)
    <2>1. rival # BufOwner /\ UNCHANGED <<vbuf, vpc, vcall>>
        BY <1>3 DEF BufInv, Client, ClientFails, bufferVars
    <2>2. Clean => Clean'
        BY <1>3, <2>1, OthersAddNothing, CleanStays
    <2>. QED  BY <1>1, <2>1, <2>2 DEF CleanInv
<1>4. ASSUME NEW n \in BufferSizes, NEW outer \in 0..Space-1, VramCreate(n, outer)
      PROVE  CleanInv'
    <2>1. vpc' = "idle" /\ outer \in Nat
        BY <1>4 DEF VramCreate, GoTo
    <2>2. Clean => Clean'
        BY <1>4, <2>1, VramCreateClean DEF CleanInv
    <2>. QED  BY <1>1, <2>1, <2>2 DEF CleanInv
<1>5. ASSUME (\E need \in 1..Space : Grow(need)) \/ CreateChunkFails \/ AccessChunkFails
      PROVE  CleanInv'
    <2>1. /\ UNCHANGED <<vmmTables, vbuf>>
          /\ vpc' \notin {"none", "unmapping", "releasing"} /\ vpc \notin {"none", "unmapping", "releasing"}
          /\ \/ vpc = "access" /\ vpc' = "undo map" /\ vcall' = vcall
             \/ vpc \notin HasMemory /\ vpc' \notin HasMemory
        BY <1>5 DEF Grow, CreateChunkFails, AccessChunkFails, StoogesFailed, Refused, GoTo, vmmVars, HasMemory
    <2>2. Clean => Clean'
        BY <2>1, CleanMoves DEF HasMemory
    <2>. QED  BY <1>1, <2>1, <2>2 DEF CleanInv
<1>6. ASSUME \/ \E h \in Handles : CreateChunk(h)
             \/ MapChunk \/ AccessChunk \/ UndoMap \/ UndoCreate
      PROVE  CleanInv'
    <2>1. vpc' # "none"
        BY <1>6 DEF CreateChunk, MapChunk, AccessChunk, UndoMap, UndoCreate, StoogesFailed, GoTo
    <2>2. vfaults' = 0 => Clean'
        BY <1>1, <1>6, CreateChunkClean, MapChunkClean, AccessChunkClean, UndoMapClean, UndoCreateClean
    <2>. QED  BY <1>1, <2>1, <2>2 DEF CleanInv
<1>7. ASSUME UnmapNext \/ EndUnmapping \/ ReleaseNext
      PROVE  CleanInv'
    <2>1. vpc' # "none"
        BY <1>7 DEF UnmapNext, EndUnmapping, ReleaseNext, GoTo
    <2>2. vfaults' = 0 => Clean'
        BY <1>1, <1>7, UnmapNextClean, EndUnmappingClean, ReleaseNextClean
    <2>. QED  BY <1>1, <2>1, <2>2 DEF CleanInv
<1>8. ASSUME VramDestroy
      PROVE  CleanInv'
    <2>1. /\ vpc = "idle" /\ vpc' = "unmapping" /\ vcall'.i = 1
          /\ UNCHANGED <<reservations, physical, mappings, vbuf>> /\ Len(vbuf.handles) \in Nat
        BY <1>8 DEF VramDestroy, GoTo, NoVcall, vmmVars, vmmTables, BufInv, Chunked
    <2>2. /\ Mine(reservations)' = Mine(reservations) /\ Mine(physical)' = Mine(physical)
          /\ Mine(mappings)' = Mine(mappings)
        BY <2>1 DEF Mine
    <2>3. \A i \in 1 .. Len(vbuf.handles) : i >= 1
        BY <2>1
    <2>4. Clean => MyMappings'
        BY <2>1, <2>2, <2>3 DEF Clean, MyMappings
    <2>5. Clean => MyReservation' /\ MyHandles' /\ NewHandle'
        BY <2>1, <2>2 DEF Clean, MyReservation, MyHandles, NewHandle, HasMemory
    <2>. QED  BY <1>1, <2>1, <2>4, <2>5 DEF CleanInv, Clean
<1>9. ASSUME EndDestroy
      PROVE  CleanInv'
    <2>1. Len(vbuf'.handles) = 0
        BY <1>9 DEF EndDestroy, NoBuffer
    <2>2. vfaults' = 0 => Clean'
        BY <1>1, <1>9, EndDestroyClean
    <2>. QED  BY <1>1, <2>1, <2>2 DEF CleanInv
<1>. QED
    BY <1>2, <1>3, <1>4, <1>5, <1>6, <1>7, <1>8, <1>9 DEF VramNext, BufferStep

\* Nobody has anything in the beginning.
LEMMA CleanStarts == VramInit => CleanInv
<1>. SUFFICES ASSUME VramInit PROVE CleanInv
    OBVIOUS
<1>1. /\ reservations = {} /\ physical = {} /\ mappings = {} /\ vfaults = 0 /\ vpc = "none"
      /\ vbuf.handles = <<>>
    BY DEF VramInit, VmmInit, NoBuffer
<1>. QED  BY <1>1 DEF CleanInv, Clean, MyReservation, MyHandles, MyMappings, NewHandle, Mine, HasMemory

\* vrambuf_destroy leaves nothing of the buffer behind, no reservation, no memory and
\* no mapping, if no call of the driver failed, whatever the manager refused on the
\* way (a growth that found no memory) and whatever other owners do.
THEOREM CleanlyGone == VramSpec => []CleanBuffersLeaveNothing
<1>1. VramSpec => []CleanInv
    <2>1. CleanInv /\ (VmmInv /\ VramInv) /\ BufInv /\ [VramNext]_vramVars => CleanInv'
        BY CleanKeeps
    <2>. QED  BY <2>1, CleanStarts, TablesAreSound, ChunksStand, PTL DEF VramSpec
<1>2. CleanInv => CleanBuffersLeaveNothing
    <2>. SUFFICES ASSUME CleanInv, vpc = "none", vfaults = 0
                  PROVE  Mine(reservations) = {} /\ Mine(physical) = {} /\ Mine(mappings) = {}
        BY DEF CleanBuffersLeaveNothing, Mine
    <2>1. 1 .. Len(vbuf.handles) = {}
        BY DEF CleanInv
    <2>. QED  BY <2>1 DEF CleanInv, Clean, MyReservation, MyHandles, MyMappings, HasMemory
<1>. QED  BY <1>1, <1>2, PTL

-----------------------------------------------------------------------------
(* The host buffer: what holds in every state.                               *)

\* The pages that threads of the pool are yet to touch.
Coming == {u \div PageUnits : u \in UNION {todo[i] : i \in busy}}

\* What is committed for good: while the tail is queued, only what is in front of it.
Live == IF pc = "decommit" THEN Up(hcall.size) ELSE committed_size

\* No call dropped memory, and none is about to give up all of it.
Sound == ~lost /\ hcall.name # "free"

\* The sizes and flags of the buffer.
SizesOK ==
    /\ committed_size \in 0..Reserved /\ committed_size % PageUnits = 0
    /\ size \in 0..committed_size /\ last_chunk_size \in 0..Reserved
    /\ fresh /\ ~(pc \in {"grow", "warm"} /\ hcall.realloc) => last_chunk_size <= size
    /\ {base, reserved, fresh, lost} \subseteq BOOLEAN

\* What each place of a call goes with.
HostCallOK ==
    \/ pc = "idle" /\ hcall = NoHostCall
    \/ /\ pc = "extend" /\ hcall \in [name : {"extend"}, size : Nat, realloc : BOOLEAN]
       /\ hcall.realloc => fresh
    \/ /\ pc \in {"grow", "warm"}
       /\ hcall \in [name : {"extend"}, size : Nat \ {0}, realloc : BOOLEAN]
       /\ base /\ jobs = <<>> /\ Target(End) <= Reserved
    \/ /\ pc = "truncate" /\ hcall \in [name : {"truncate", "free"}, size : 0 .. size - 1]
       /\ ~fresh /\ (hcall.name = "free" => hcall.size = 0)
    \/ /\ pc = "decommit" /\ busy = {}
       /\ hcall \in [name : {"truncate", "free"}, size : 0 .. size - 1, done : 0 .. committed_size]
       /\ ~fresh /\ (hcall.name = "free" => hcall.size = 0)
       /\ Up(hcall.size) <= hcall.done
    \/ /\ pc \in {"destroy", "gone"} /\ hcall.name = "free"
       /\ base => lost
       /\ pc = "gone" => jobs = <<>>

\* What a job counts for, and how the parts of a queue add up.
Weight(job) == IF job.release THEN 0 ELSE job.hi - job.lo
QueueCounted(js, q) ==
    \E acc \in [0 .. Len(js) -> 0 .. QueueLimit] :
       /\ acc[0] = 0 /\ acc[Len(js)] = q
       /\ \A i \in 1 .. Len(js) : acc[i] = acc[i - 1] + Weight(js[i])
       /\ \A i, j \in 0 .. Len(js) : i <= j => acc[i] <= acc[j]

\* The queue: its jobs are real, only the last of an empty buffer releases, and
\* while it has any the pool is at rest.
QueueOK ==
    /\ jobs \in Seq(Jobs) /\ pending = Len(jobs)
    /\ \A i \in 1 .. Len(jobs) : jobs[i].lo < jobs[i].hi
    /\ \A i \in 1 .. Len(jobs) :
          jobs[i].release => ~base /\ jobs[i].lo = 0 /\ jobs[i].hi = Reserved
    /\ QueueCounted(jobs, queued)
    /\ jobs # <<>> => busy = {}

\* What the system holds belongs to the buffer, or to a release that is queued.
SystemOK ==
    /\ backed \subseteq AllPages
    /\ base => reserved
    /\ ~base => /\ committed_size = 0
                /\ jobs = <<>> => ~reserved /\ backed = {}
                /\ jobs # <<>> => jobs[Len(jobs)].release

\* The threads of the pool touch what is committed, behind what is in use.
PoolOK ==
    /\ warm \in BOOLEAN /\ helpers \in 0 .. Helpers /\ busy \subseteq 1 .. Helpers
    /\ todo \in [1 .. Helpers -> SUBSET (0 .. Reserved - 1)]
    /\ \A i \in busy : \A u \in todo[i] : size <= u /\ u \div PageUnits \in backed

\* What the caller holds lies in what is in use, and in what a truncation keeps.
HeldOK ==
    /\ held \subseteq Nat \X Nat
    /\ \A r \in held : /\ r[2] <= size
                       /\ pc \in {"truncate", "decommit"} => r[2] <= hcall.size
    /\ hcall.name = "free" => held = {}

\* Between its two halves, a growth has committed its tail and touched what is needed.
GrowthOK ==
    pc = "warm" => /\ Pages(committed_size, Target(End)) \subseteq backed
                   /\ Pages(committed_size, End) \subseteq touched \cup Coming

\* What is committed for good is there and touched, or about to be, and what is
\* queued lies behind it.
WarmOK ==
    Sound => /\ Pages(0, Live) \subseteq backed
             /\ Pages(0, Live) \subseteq touched \cup Coming
             /\ \A r \in held : Pages(r[1], r[2]) \subseteq touched
             /\ \A i \in 1 .. Len(jobs) : Live <= jobs[i].lo

\* The inductive invariant of the host buffer.
HostInvariant ==
    /\ SizesOK /\ HostCallOK /\ QueueOK /\ SystemOK /\ PoolOK /\ HeldOK /\ GrowthOK /\ WarmOK

-----------------------------------------------------------------------------
(* Pages.                                                                    *)

\* The page a unit is in, and the number of pages up to one.
Floor(n) == n \div PageUnits
Ceil(n)  == (n + PageUnits - 1) \div PageUnits

\* A quotient is the number of whole multiples.
LEMMA QuotientIs ==
    ASSUME NEW c \in Nat \ {0}, NEW n \in Nat
    PROVE  /\ n \div c \in Nat /\ (n \div c) * c <= n /\ n < (n \div c) * c + c
           /\ \A k \in Int : k * c <= n /\ n < k * c + c => n \div c = k
<1>. DEFINE q == n \div c
<1>1. q \in Nat /\ q * c \in Int /\ q * c <= n /\ n < q * c + c
    OBVIOUS
<1>. HIDE DEF q
<1>2. ASSUME NEW k \in Int, k * c <= n, n < k * c + c PROVE q = k
    <2>1. k * c \in Int /\ (k + 1) * c = k * c + c /\ (q + 1) * c = q * c + c
        BY <1>1, Multiples
    <2>2. k * c < (q + 1) * c /\ q * c < (k + 1) * c
        BY <1>1, <1>2, <2>1
    <2>3. k < q + 1
        BY <1>1, <2>2, Multiples
    <2>4. q < k + 1
        BY <1>1, <2>2, Multiples
    <2>. QED  BY <1>1, <2>3, <2>4
<1>. QED  BY <1>1, <1>2 DEF q

\* Where a page starts and ends.
LEMMA Rounding ==
    ASSUME NEW n \in Nat
    PROVE  /\ Floor(n) \in Nat /\ Floor(n) * PageUnits <= n /\ n < Floor(n) * PageUnits + PageUnits
           /\ Ceil(n) \in Nat /\ n <= Ceil(n) * PageUnits /\ Ceil(n) * PageUnits < n + PageUnits
           /\ Up(n) = Ceil(n) * PageUnits /\ Up(n) \in Nat
           /\ n % PageUnits = 0 <=> n = Floor(n) * PageUnits
<1>1. PageUnits \in Nat \ {0}
    BY HostBufferAssumption
<1>2. n + PageUnits - 1 \in Nat
    BY <1>1
<1>3. /\ Ceil(n) \in Nat /\ Ceil(n) * PageUnits <= n + PageUnits - 1
      /\ n + PageUnits - 1 < Ceil(n) * PageUnits + PageUnits
    BY <1>1, <1>2, QuotientIs DEF Ceil
<1>4. Floor(n) \in Nat /\ Floor(n) * PageUnits <= n /\ n < Floor(n) * PageUnits + PageUnits
    BY <1>1, QuotientIs DEF Floor
<1>5. Ceil(n) * PageUnits \in Int /\ Floor(n) * PageUnits \in Int
    BY <1>1, <1>3, <1>4
<1>6. Up(n) = Ceil(n) * PageUnits
    BY DEF Up, Ceil
<1>7. n = PageUnits * Floor(n) + (n % PageUnits) /\ (n % PageUnits) \in Nat
    <2>1. n = PageUnits * (n \div PageUnits) + (n % PageUnits)
        BY <1>1
    <2>2. (n % PageUnits) \in Nat
        BY <1>1
    <2>. QED  BY <2>1, <2>2 DEF Floor
<1>8. n % PageUnits = 0 <=> n = Floor(n) * PageUnits
    <2>. DEFINE a == Floor(n) * PageUnits  r == n % PageUnits
    <2>1. PageUnits * Floor(n) = a
        BY <1>1, <1>4
    <2>2. n = a + r /\ r \in Nat /\ a \in Int
        BY <1>5, <1>7, <2>1
    <2>. HIDE DEF a, r
    <2>3. r = 0 <=> n = a
        BY <2>2
    <2>. QED  BY <2>3 DEF a, r
<1>9. n <= Ceil(n) * PageUnits /\ Ceil(n) * PageUnits < n + PageUnits
    BY <1>1, <1>3, <1>5
<1>. QED  BY <1>3, <1>4, <1>5, <1>6, <1>8, <1>9

\* Rounding keeps the order and does not touch the start of a page.
LEMMA RoundingKeeps ==
    ASSUME NEW m \in Nat, NEW n \in Nat
    PROVE  /\ m <= n => Floor(m) <= Floor(n) /\ Ceil(m) <= Ceil(n)
           /\ Floor(n) <= Ceil(n)
           /\ n % PageUnits = 0 => Floor(n) = Ceil(n) /\ Up(n) = n
           /\ m <= n /\ n % PageUnits = 0 => Up(m) <= n
           /\ Up(n) % PageUnits = 0 /\ n <= Up(n) /\ Floor(Up(n)) = Ceil(n)
<1>1. PageUnits \in Nat \ {0}
    BY HostBufferAssumption
<1>2. \A k \in Nat : \A l \in Nat : k * PageUnits < l * PageUnits + PageUnits => k <= l
    <2>1. SUFFICES ASSUME NEW k \in Nat, NEW l \in Nat, k * PageUnits < l * PageUnits + PageUnits
                   PROVE  k <= l
        OBVIOUS
    <2>2. (l + 1) * PageUnits = l * PageUnits + PageUnits
        BY <1>1, Multiples
    <2>3. k < l + 1
        BY <1>1, <2>1, <2>2, Multiples
    <2>. QED  BY <2>3
<1>3. /\ \A k \in Nat : k * PageUnits \in Nat
      /\ \A k \in Nat : \A l \in Nat : k <= l => k * PageUnits <= l * PageUnits
    BY <1>1, Multiples
<1>4. /\ Floor(m) \in Nat /\ Floor(m) * PageUnits <= m /\ m < Floor(m) * PageUnits + PageUnits
      /\ Ceil(m) \in Nat /\ m <= Ceil(m) * PageUnits /\ Ceil(m) * PageUnits < m + PageUnits
      /\ Up(m) = Ceil(m) * PageUnits
    BY Rounding
<1>5. /\ Floor(n) \in Nat /\ Floor(n) * PageUnits <= n /\ n < Floor(n) * PageUnits + PageUnits
      /\ Ceil(n) \in Nat /\ n <= Ceil(n) * PageUnits /\ Ceil(n) * PageUnits < n + PageUnits
      /\ Up(n) = Ceil(n) * PageUnits /\ Up(n) \in Nat
    BY Rounding
<1>6. ASSUME m <= n PROVE Floor(m) <= Floor(n) /\ Ceil(m) <= Ceil(n)
    <2>1. Floor(m) * PageUnits < Floor(n) * PageUnits + PageUnits
        BY <1>1, <1>3, <1>4, <1>5, <1>6
    <2>2. Ceil(m) * PageUnits < Ceil(n) * PageUnits + PageUnits
        BY <1>1, <1>3, <1>4, <1>5, <1>6
    <2>. QED  BY <1>2, <1>4, <1>5, <2>1, <2>2
<1>7. Floor(n) <= Ceil(n)
    <2>1. Floor(n) * PageUnits < Ceil(n) * PageUnits + PageUnits
        BY <1>1, <1>3, <1>5
    <2>. QED  BY <1>2, <1>5, <2>1
<1>8. ASSUME n % PageUnits = 0 PROVE Floor(n) = Ceil(n) /\ Up(n) = n
    <2>1. n = Floor(n) * PageUnits
        BY <1>8, Rounding
    <2>2. Ceil(n) * PageUnits < Floor(n) * PageUnits + PageUnits
        BY <1>5, <2>1
    <2>3. Ceil(n) <= Floor(n)
        BY <1>2, <1>5, <2>2
    <2>. QED  BY <1>5, <1>7, <2>1, <2>3
<1>9. ASSUME m <= n, n % PageUnits = 0 PROVE Up(m) <= n
    <2>1. Ceil(m) * PageUnits <= Ceil(n) * PageUnits
        BY <1>3, <1>4, <1>5, <1>6, <1>9
    <2>. QED  BY <1>4, <1>5, <1>8, <1>9, <2>1
<1>10. Floor(Up(n)) = Ceil(n)
    <2>1. /\ Ceil(n) * PageUnits \in Nat
          /\ Ceil(n) * PageUnits < Ceil(n) * PageUnits + PageUnits
        BY <1>1, <1>3, <1>5
    <2>2. Ceil(n) \in Int
        BY <1>5
    <2>. QED  BY <1>1, <1>5, <2>1, <2>2, QuotientIs DEF Floor
<1>11. Up(n) % PageUnits = 0
    <2>1. Up(n) = Floor(Up(n)) * PageUnits
        BY <1>5, <1>10
    <2>. QED  BY <1>5, <2>1, Rounding
<1>. QED  BY <1>5, <1>6, <1>7, <1>8, <1>9, <1>10, <1>11

\* The pages of a range, and of one unit.
LEMMA PagesAre ==
    /\ \A lo, hi : Pages(lo, hi) = Floor(lo) .. (Ceil(hi) - 1)
    /\ \A u \in Nat : Pages(u, u + 1) = {Floor(u)}
<1>1. \A lo, hi : Pages(lo, hi) = Floor(lo) .. (Ceil(hi) - 1)
    BY DEF Pages, Floor, Ceil
<1>2. ASSUME NEW u \in Nat PROVE Pages(u, u + 1) = {Floor(u)}
    <2>1. PageUnits \in Nat \ {0}
        BY HostBufferAssumption
    <2>2. /\ Floor(u) \in Nat /\ Floor(u) * PageUnits \in Int
          /\ Floor(u) * PageUnits <= u /\ u < Floor(u) * PageUnits + PageUnits
        <3>1. /\ Floor(u) \in Nat
              /\ Floor(u) * PageUnits <= u /\ u < Floor(u) * PageUnits + PageUnits
            BY Rounding
        <3>. QED  BY <2>1, <3>1
    <2>3. (Floor(u) + 1) * PageUnits = Floor(u) * PageUnits + PageUnits
        BY <2>1, <2>2, Multiples
    <2>. DEFINE a == Floor(u) * PageUnits  k == Floor(u) + 1  n == u + 1 + PageUnits - 1
                b == k * PageUnits
    <2>4. n \in Nat /\ k \in Int /\ b <= n /\ n < b + PageUnits
        <3>1. a \in Int /\ a <= u /\ u < a + PageUnits /\ b = a + PageUnits
            BY <2>2, <2>3
        <3>2. k \in Int
            BY <2>2
        <3>. HIDE DEF a, b, k
        <3>. QED  BY <2>1, <3>1, <3>2
    <2>. HIDE DEF k, n
    <2>5. n \div PageUnits = k
        BY <2>1, <2>4, QuotientIs
    <2>6. Ceil(u + 1) = Floor(u) + 1
        BY <2>5 DEF Ceil, k, n
    <2>. QED  BY <1>1, <2>2, <2>6
<1>. QED  BY <1>1, <1>2

\* A unit some pages behind another.
LEMMA UnitsApart ==
    ASSUME NEW lo \in Nat, NEW k \in Nat
    PROVE  /\ k * PageUnits \in Nat /\ lo + k * PageUnits \in Nat
           /\ Floor(lo + k * PageUnits) = Floor(lo) + k
<1>1. PageUnits \in Nat \ {0}
    BY HostBufferAssumption
<1>2. /\ Floor(lo) \in Nat /\ Floor(lo) * PageUnits <= lo
      /\ lo < Floor(lo) * PageUnits + PageUnits
    BY Rounding
<1>3. k * PageUnits \in Nat /\ Floor(lo) * PageUnits \in Nat
    BY <1>1, <1>2
<1>4. (Floor(lo) + k) * PageUnits = Floor(lo) * PageUnits + k * PageUnits
    BY <1>1, <1>2
<1>. DEFINE a == Floor(lo) * PageUnits  b == k * PageUnits  c == (Floor(lo) + k) * PageUnits
<1>5. /\ lo + b \in Nat /\ c <= lo + b /\ lo + b < c + PageUnits
    <2>1. a \in Nat /\ b \in Nat /\ c = a + b /\ a <= lo /\ lo < a + PageUnits
        BY <1>2, <1>3, <1>4
    <2>. HIDE DEF a, b, c
    <2>. QED  BY <1>1, <2>1
<1>6. Floor(lo) + k \in Int
    BY <1>2
<1>. QED  BY <1>1, <1>3, <1>5, <1>6, QuotientIs DEF Floor

\* The threads of the pool share the pages of a range, one unit of each, if the
\* range starts or ends where a page does.
LEMMA SharesCover ==
    ASSUME NEW lo \in Nat, NEW hi \in Nat, lo < hi
    PROVE  /\ \A i \in 1 .. Helpers : \A u \in Share(i, lo, hi) :
                 u \in Nat /\ lo <= u /\ u < hi /\ Floor(u) \in Pages(lo, hi)
           /\ lo % PageUnits = 0 \/ hi % PageUnits = 0 =>
                 \A p \in Pages(lo, hi) : \E i \in 1 .. Helpers : \E u \in Share(i, lo, hi) :
                    Floor(u) = p
<1>. DEFINE count == Ceil(hi - lo)  span == (count + Helpers - 1) \div Helpers
<1>1. PageUnits \in Nat \ {0} /\ Helpers \in Nat \ {0}
    BY HostBufferAssumption
<1>2. /\ count \in Nat \ {0} /\ hi - lo <= count * PageUnits
      /\ count * PageUnits < hi - lo + PageUnits
    <2>1. hi - lo \in Nat
        OBVIOUS
    <2>2. /\ count \in Nat /\ hi - lo <= count * PageUnits
          /\ count * PageUnits < hi - lo + PageUnits
        BY <2>1, Rounding
    <2>3. 0 * PageUnits = 0
        BY <1>1
    <2>. QED  BY <2>2, <2>3
<1>3. /\ \A i : Share(i, lo, hi) = {lo + k * PageUnits :
                                   k \in (i - 1) * span .. Lower(i * span, count) - 1}
    BY DEF Share, Ceil
<1>. HIDE DEF count
<1>4. span \in Nat \ {0} /\ count <= span * Helpers
    <2>1. count + Helpers - 1 \in Nat
        BY <1>1, <1>2
    <2>2. span \in Nat /\ count + Helpers - 1 < span * Helpers + Helpers
        BY <1>1, <2>1, QuotientIs
    <2>. HIDE DEF span
    <2>3. span * Helpers \in Int /\ 0 * Helpers = 0
        BY <1>1, <2>2
    <2>. QED  BY <1>1, <1>2, <2>2, <2>3
<1>. HIDE DEF span
<1>5. ASSUME NEW i \in 1 .. Helpers, NEW u \in Share(i, lo, hi)
      PROVE  u \in Nat /\ lo <= u /\ u < hi /\ Floor(u) \in Pages(lo, hi)
    <2>1. PICK k \in (i - 1) * span .. Lower(i * span, count) - 1 : u = lo + k * PageUnits
        BY <1>3
    <2>2. i * span \in Int /\ (i - 1) * span \in Nat
        BY <1>4
    <2>3. k \in Nat /\ k <= count - 1
        BY <1>2, <2>1, <2>2 DEF Lower
    <2>4. k * PageUnits + PageUnits <= count * PageUnits
        BY <1>1, <1>2, <2>3, Multiples
    <2>5. u \in Nat /\ k * PageUnits \in Nat /\ Floor(u) = Floor(lo) + k
        BY <2>1, <2>3, UnitsApart
    <2>6. count * PageUnits \in Int
        BY <1>1, <1>2
    <2>7. lo <= u /\ u < hi
        BY <1>1, <1>2, <2>1, <2>4, <2>5, <2>6
    <2>8. /\ Floor(u) * PageUnits <= u /\ Floor(u) \in Nat /\ Floor(lo) \in Nat
          /\ Ceil(hi) \in Nat /\ hi <= Ceil(hi) * PageUnits
        <3>1. Floor(u) * PageUnits <= u /\ Floor(u) \in Nat
            BY <2>5, Rounding
        <3>2. Floor(lo) \in Nat
            BY Rounding
        <3>3. Ceil(hi) \in Nat /\ hi <= Ceil(hi) * PageUnits
            BY Rounding
        <3>. QED  BY <3>1, <3>2, <3>3
    <2>9. Floor(u) < Ceil(hi)
        <3>1. Floor(u) * PageUnits \in Int /\ Ceil(hi) * PageUnits \in Int
            BY <1>1, <2>8
        <3>2. Floor(u) * PageUnits < Ceil(hi) * PageUnits
            BY <2>5, <2>7, <2>8, <3>1
        <3>. QED  BY <1>1, <2>8, <3>2, Multiples
    <2>10. Floor(lo) <= Floor(u)
        BY <2>3, <2>5, <2>8
    <2>11. Pages(lo, hi) = Floor(lo) .. (Ceil(hi) - 1)
        BY PagesAre
    <2>12. Floor(u) \in Floor(lo) .. (Ceil(hi) - 1)
        BY <2>8, <2>9, <2>10
    <2>. QED  BY <2>5, <2>7, <2>11, <2>12
<1>6. ASSUME lo % PageUnits = 0 \/ hi % PageUnits = 0, NEW p \in Pages(lo, hi)
      PROVE  \E i \in 1 .. Helpers : \E u \in Share(i, lo, hi) : Floor(u) = p
    <2>. DEFINE k == p - Floor(lo)
    <2>1. /\ Floor(lo) \in Nat /\ Floor(lo) * PageUnits <= lo
          /\ lo < Floor(lo) * PageUnits + PageUnits
          /\ lo % PageUnits = 0 => lo = Floor(lo) * PageUnits
          /\ Ceil(hi) \in Nat /\ Ceil(hi) * PageUnits < hi + PageUnits
          /\ hi % PageUnits = 0 => hi = Ceil(hi) * PageUnits
        <3>1. /\ Floor(lo) \in Nat /\ Floor(lo) * PageUnits <= lo
              /\ lo < Floor(lo) * PageUnits + PageUnits
              /\ lo % PageUnits = 0 => lo = Floor(lo) * PageUnits
            BY Rounding
        <3>2. /\ Ceil(hi) \in Nat /\ Ceil(hi) * PageUnits < hi + PageUnits
              /\ hi % PageUnits = 0 => hi = Floor(hi) * PageUnits
            BY Rounding
        <3>3. hi % PageUnits = 0 => Floor(hi) = Ceil(hi)
            BY RoundingKeeps
        <3>. QED  BY <3>1, <3>2, <3>3
    <2>2. p \in Nat /\ k \in Nat /\ p + 1 <= Ceil(hi) /\ p = Floor(lo) + k
        <3>1. Pages(lo, hi) = Floor(lo) .. (Ceil(hi) - 1)
            BY PagesAre
        <3>. QED  BY <1>6, <2>1, <3>1
    <2>. HIDE DEF k
    <2>3. /\ p * PageUnits = Floor(lo) * PageUnits + k * PageUnits
          /\ p * PageUnits + PageUnits <= Ceil(hi) * PageUnits
        <3>1. p * PageUnits = Floor(lo) * PageUnits + k * PageUnits
            BY <1>1, <2>1, <2>2
        <3>2. p < Ceil(hi) /\ p \in Int /\ Ceil(hi) \in Int
            BY <2>1, <2>2
        <3>. QED  BY <1>1, <3>1, <3>2, Multiples
    <2>. DEFINE a == Floor(lo) * PageUnits  b == k * PageUnits  c == Ceil(hi) * PageUnits
                d == count * PageUnits  e == p * PageUnits
    <2>4. b < d
        <3>1. a \in Int /\ b \in Int /\ c \in Int /\ d \in Int /\ e \in Int
            BY <1>1, <1>2, <2>1, <2>2
        <3>2. /\ e = a + b /\ e + PageUnits <= c /\ c < hi + PageUnits
              /\ a <= lo /\ lo < a + PageUnits /\ (lo = a \/ hi = c)
              /\ hi - lo <= d
            BY <1>2, <1>6, <2>1, <2>3
        <3>. HIDE DEF a, b, c, d, e
        <3>. QED  BY <1>1, <3>1, <3>2
    <2>5. k < count
        BY <1>1, <1>2, <2>2, <2>4, Multiples
    <2>. DEFINE j == k \div span
    <2>6. j \in Nat /\ j * span <= k /\ k < j * span + span
        BY <1>4, <2>2, QuotientIs
    <2>. HIDE DEF j
    <2>7. j < Helpers
        <3>1. span * Helpers = Helpers * span /\ j * span \in Int /\ Helpers * span \in Int
            BY <1>1, <1>4, <2>6
        <3>2. j * span < Helpers * span
            BY <1>2, <1>4, <2>2, <2>5, <2>6, <3>1
        <3>. QED  BY <1>1, <1>4, <2>6, <3>2, Multiples
    <2>8. j + 1 \in 1 .. Helpers /\ (j + 1) - 1 = j
        BY <1>1, <2>6, <2>7
    <2>9. (j + 1) * span = j * span + span /\ j * span \in Int
        BY <1>4, <2>6, Multiples
    <2>10. k \in ((j + 1) - 1) * span .. Lower((j + 1) * span, count) - 1
        BY <1>2, <1>4, <2>2, <2>5, <2>6, <2>8, <2>9 DEF Lower
    <2>11. lo + k * PageUnits \in Share(j + 1, lo, hi)
        BY <1>3, <2>10
    <2>12. Floor(lo + k * PageUnits) = p
        BY <2>2, UnitsApart
    <2>. QED  BY <2>8, <2>11, <2>12
<1>. QED  BY <1>5, <1>6

\* How ranges of numbers lie to each other.
LEMMA Ranges ==
    ASSUME NEW a \in Int, NEW b \in Int, NEW c \in Int, NEW d \in Int
    PROVE  /\ c <= a /\ b <= d => a .. (b - 1) \subseteq c .. (d - 1)
           /\ b <= c => (a .. (b - 1)) \cap (c .. (d - 1)) = {}
           /\ b <= a => a .. (b - 1) = {}
           /\ c <= b => a .. (d - 1) \subseteq (a .. (b - 1)) \cup (c .. (d - 1))
OBVIOUS

\* How ranges of pages lie to each other.
LEMMA PagesLie ==
    ASSUME NEW k \in Nat, NEW m \in Nat, NEW n \in Nat
    PROVE  /\ m <= n => Pages(k, m) \subseteq Pages(k, n)
           /\ k <= m => Pages(m, n) \subseteq Pages(k, n)
           /\ m % PageUnits = 0 => Pages(k, m) \cap Pages(m, n) = {}
           /\ Pages(k, n) \subseteq Pages(k, m) \cup Pages(m, n)
           /\ Pages(k, Up(n)) = Pages(k, n)
           /\ n <= m /\ m % PageUnits = 0 => Pages(m, n) = {}
           /\ n <= m /\ n % PageUnits = 0 => Pages(m, n) = {}
           /\ m % PageUnits = 0 /\ m <= n => Floor(n) \notin Pages(k, m)
           /\ n <= Reserved => Pages(k, n) \subseteq AllPages
<1>. DEFINE Whole(x) == x % PageUnits = 0
<1>1. /\ \A lo, hi : Pages(lo, hi) = Floor(lo) .. (Ceil(hi) - 1)
    BY PagesAre
<1>2. PageUnits \in Nat \ {0} /\ Reserved \in Nat
    BY HostBufferAssumption
<1>3. /\ Floor(k) \in Nat /\ Ceil(k) \in Nat /\ Floor(m) \in Nat /\ Ceil(m) \in Nat
      /\ Floor(n) \in Nat /\ Ceil(n) \in Nat /\ Up(n) \in Nat
      /\ Floor(Reserved) \in Nat /\ Ceil(Reserved) \in Nat
    BY <1>2, Rounding
<1>4. /\ Pages(k, m) = Floor(k) .. (Ceil(m) - 1) /\ Pages(k, n) = Floor(k) .. (Ceil(n) - 1)
      /\ Pages(m, n) = Floor(m) .. (Ceil(n) - 1)
      /\ Pages(k, Up(n)) = Floor(k) .. (Ceil(Up(n)) - 1)
      /\ AllPages = Floor(0) .. (Ceil(Reserved) - 1)
    BY <1>1 DEF AllPages
<1>5. /\ m <= n => Floor(m) <= Floor(n) /\ Ceil(m) <= Ceil(n)
      /\ k <= m => Floor(k) <= Floor(m)
      /\ Floor(m) <= Ceil(m)
      /\ Whole(m) => Floor(m) = Ceil(m)
    BY RoundingKeeps
<1>6. /\ n <= m => Ceil(n) <= Ceil(m) /\ Floor(n) <= Floor(m)
      /\ Whole(n) => Floor(n) = Ceil(n)
    BY RoundingKeeps
<1>7. n <= Reserved => Ceil(n) <= Ceil(Reserved)
    BY <1>2, RoundingKeeps
<1>8. Ceil(Up(n)) = Ceil(n)
    <2>1. Up(n) % PageUnits = 0 /\ Floor(Up(n)) = Ceil(n)
        BY RoundingKeeps
    <2>2. Floor(Up(n)) = Ceil(Up(n))
        BY <1>3, <2>1, RoundingKeeps
    <2>. QED  BY <2>1, <2>2
<1>9. Floor(0) = 0
    <2>1. 0 <= 0 /\ 0 * PageUnits = 0 /\ 0 \in Nat /\ 0 < 0 + PageUnits
        BY <1>2
    <2>2. \A j \in Int : j * PageUnits <= 0 /\ 0 < j * PageUnits + PageUnits => 0 \div PageUnits = j
        BY <1>2, QuotientIs
    <2>. QED  BY <2>1, <2>2 DEF Floor
<1>. HIDE DEF Whole
<1>10. ASSUME m <= n PROVE Pages(k, m) \subseteq Pages(k, n)
    <2>1. Ceil(m) <= Ceil(n)
        BY <1>5, <1>10
    <2>. QED  BY <1>3, <1>4, <2>1, Ranges
<1>11. ASSUME k <= m PROVE Pages(m, n) \subseteq Pages(k, n)
    <2>1. Floor(k) <= Floor(m)
        BY <1>5, <1>11
    <2>. QED  BY <1>3, <1>4, <2>1, Ranges
<1>12. ASSUME Whole(m) PROVE Pages(k, m) \cap Pages(m, n) = {}
    <2>1. Floor(m) = Ceil(m)
        BY <1>5, <1>12
    <2>. QED  BY <1>3, <1>4, <2>1, Ranges
<1>13. Pages(k, n) \subseteq Pages(k, m) \cup Pages(m, n)
    <2>1. Floor(m) <= Ceil(m)
        BY <1>5
    <2>. QED  BY <1>3, <1>4, <2>1, Ranges
<1>14. Pages(k, Up(n)) = Pages(k, n)
    BY <1>4, <1>8
<1>15. ASSUME n <= m, Whole(m) \/ Whole(n) PROVE Pages(m, n) = {}
    <2>1. Ceil(n) <= Floor(m)
        <3>1. CASE Whole(m)
            BY <1>3, <1>5, <1>6, <1>15, <3>1
        <3>2. CASE Whole(n)
            BY <1>3, <1>6, <1>15, <3>2
        <3>. QED  BY <1>15, <3>1, <3>2
    <2>. QED  BY <1>3, <1>4, <2>1, Ranges
<1>16. ASSUME Whole(m), m <= n PROVE Floor(n) \notin Pages(k, m)
    <2>1. Ceil(m) <= Floor(n)
        <3>1. Floor(m) <= Floor(n)
            BY <1>16, RoundingKeeps
        <3>2. Floor(m) = Ceil(m)
            BY <1>5, <1>16
        <3>. QED  BY <3>1, <3>2
    <2>. QED  BY <1>3, <1>4, <2>1
<1>17. ASSUME n <= Reserved PROVE Pages(k, n) \subseteq AllPages
    <2>1. Floor(0) <= Floor(k) /\ Ceil(n) <= Ceil(Reserved) /\ Floor(0) \in Int
        BY <1>3, <1>7, <1>9, <1>17
    <2>2. Floor(k) .. (Ceil(n) - 1) \subseteq Floor(0) .. (Ceil(Reserved) - 1)
        <3>1. Floor(k) \in Int /\ Ceil(n) \in Int /\ Ceil(Reserved) \in Int
            BY <1>3
        <3>. QED  BY <2>1, <3>1, Ranges
    <2>. QED  BY <1>4, <2>2
<1>. QED  BY <1>10, <1>11, <1>12, <1>13, <1>14, <1>15, <1>16, <1>17 DEF Whole

\* What is committed for a chunk ends at a page, and holds it.
LEMMA TargetIs ==
    ASSUME NEW end \in Nat,
           committed_size \in Nat, committed_size % PageUnits = 0
    PROVE  /\ Target(end) \in Nat /\ Target(end) % PageUnits = 0
           /\ committed_size <= Target(end) /\ end <= Target(end)
<1>. DEFINE t == Up(end + Prewarm)  q == Prewarm \div 4
<1>1. Prewarm \in Nat /\ end + Prewarm \in Nat
    BY HostBufferAssumption
<1>2. t \in Nat /\ t % PageUnits = 0 /\ end + Prewarm <= t
    BY <1>1, Rounding, RoundingKeeps
<1>3. q \in Nat /\ q <= Prewarm
    BY <1>1
<1>4. Target(end) = IF t < committed_size + q THEN committed_size ELSE t
    BY DEF Target
<1>. HIDE DEF t, q
<1>5. CASE t < committed_size + q
    BY <1>1, <1>2, <1>3, <1>4, <1>5
<1>6. CASE ~(t < committed_size + q)
    BY <1>1, <1>2, <1>3, <1>4, <1>6
<1>. QED  BY <1>5, <1>6

-----------------------------------------------------------------------------
(* The queue.                                                                *)

\* A job at the end of a queue adds what it counts for.
LEMMA QueueAppend ==
    ASSUME NEW js \in Seq(Jobs), NEW q, QueueCounted(js, q), NEW job \in Jobs,
           Weight(job) \in Nat, q + Weight(job) \in 0 .. QueueLimit
    PROVE  QueueCounted(Append(js, job), q + Weight(job))
<1>. DEFINE n == Len(js)  w == Weight(job)  ks == Append(js, job)
<1>1. n \in Nat /\ Len(ks) = n + 1 /\ ks[n + 1] = job /\ \A i \in 1 .. n : ks[i] = js[i]
    OBVIOUS
<1>2. PICK acc \in [0 .. n -> 0 .. QueueLimit] :
         /\ acc[0] = 0 /\ acc[n] = q
         /\ \A i \in 1 .. n : acc[i] = acc[i - 1] + Weight(js[i])
         /\ \A i, j \in 0 .. n : i <= j => acc[i] <= acc[j]
    BY DEF QueueCounted
<1>. DEFINE new == [i \in 0 .. n + 1 |-> IF i = n + 1 THEN q + w ELSE acc[i]]
<1>3. QueueLimit \in Nat
    BY HostBufferAssumption
<1>. HIDE DEF n, w, ks
<1>4. w \in Nat /\ q + w \in 0 .. QueueLimit
    BY DEF w
<1>5. \A i \in 0 .. n : acc[i] \in 0 .. QueueLimit
    BY <1>2
<1>6. new \in [0 .. n + 1 -> 0 .. QueueLimit]
    BY <1>1, <1>4, <1>5
<1>7. new[n + 1] = q + w /\ \A i \in 0 .. n : new[i] = acc[i]
    BY <1>1
<1>. HIDE DEF new
<1>8. q \in Int
    BY <1>1, <1>2, <1>5
<1>9. new[0] = 0 /\ new[n + 1] = q + w
    BY <1>1, <1>2, <1>7
<1>10. \A i \in 1 .. n + 1 : new[i] = new[i - 1] + Weight(ks[i])
    <2>1. ASSUME NEW i \in 1 .. n PROVE new[i] = new[i - 1] + Weight(ks[i])
        <3>1. i \in 0 .. n /\ i - 1 \in 0 .. n
            BY <1>1
        <3>. QED  BY <1>1, <1>2, <1>7, <3>1
    <2>2. new[n + 1] = new[(n + 1) - 1] + Weight(ks[n + 1])
        <3>1. (n + 1) - 1 = n /\ n \in 0 .. n
            BY <1>1
        <3>. QED  BY <1>1, <1>2, <1>7, <3>1 DEF w
    <2>3. ASSUME NEW i \in 1 .. n + 1 PROVE new[i] = new[i - 1] + Weight(ks[i])
        <3>1. i \in 1 .. n \/ i = n + 1
            BY <1>1
        <3>2. CASE i \in 1 .. n
            BY <2>1, <3>2
        <3>3. CASE i = n + 1
            BY <2>2, <3>3
        <3>. QED  BY <3>1, <3>2, <3>3
    <2>. QED  BY <2>3
<1>11. \A i, j \in 0 .. n + 1 : i <= j => new[i] <= new[j]
    <2>1. SUFFICES ASSUME NEW i \in 0 .. n + 1, NEW j \in 0 .. n + 1, i <= j
                   PROVE  new[i] <= new[j]
        OBVIOUS
    <2>2. CASE j \in 0 .. n
        <3>1. i \in 0 .. n
            BY <1>1, <2>1, <2>2
        <3>. QED  BY <1>2, <1>7, <2>1, <2>2, <3>1
    <2>3. CASE j = n + 1 /\ i \in 0 .. n
        <3>1. acc[i] <= acc[n] /\ acc[i] \in Int
            BY <1>1, <1>2, <1>5, <2>3
        <3>. QED  BY <1>2, <1>4, <1>7, <1>8, <2>3, <3>1
    <2>4. CASE j = n + 1 /\ i = n + 1
        BY <1>4, <1>7, <2>4
    <2>. QED  BY <1>1, <2>1, <2>2, <2>3, <2>4
<1>. QED
    <2>1. /\ new[0] = 0 /\ new[Len(ks)] = q + w
          /\ \A i \in 1 .. Len(ks) : new[i] = new[i - 1] + Weight(ks[i])
          /\ \A i, j \in 0 .. Len(ks) : i <= j => new[i] <= new[j]
          /\ new \in [0 .. Len(ks) -> 0 .. QueueLimit]
        BY <1>1, <1>6, <1>9, <1>10, <1>11
    <2>2. QueueCounted(ks, q + w)
        BY <2>1 DEF QueueCounted
    <2>. QED  BY <2>2 DEF ks, w

\* The first job of a queue takes off what it counts for.
LEMMA QueueTail ==
    ASSUME NEW js \in Seq(Jobs), js # <<>>, NEW q, QueueCounted(js, q)
    PROVE  QueueCounted(Tail(js), q - Weight(Head(js)))
<1>. DEFINE n == Len(js)  w == Weight(Head(js))  ks == Tail(js)
<1>1. n \in Nat \ {0} /\ Len(ks) = n - 1 /\ Head(js) = js[1] /\ \A i \in 1 .. n - 1 : ks[i] = js[i + 1]
    OBVIOUS
<1>2. PICK acc \in [0 .. n -> 0 .. QueueLimit] :
         /\ acc[0] = 0 /\ acc[n] = q
         /\ \A i \in 1 .. n : acc[i] = acc[i - 1] + Weight(js[i])
         /\ \A i, j \in 0 .. n : i <= j => acc[i] <= acc[j]
    BY DEF QueueCounted
<1>. DEFINE new == [i \in 0 .. n - 1 |-> acc[i + 1] - w]
<1>3. QueueLimit \in Nat
    BY HostBufferAssumption
<1>. HIDE DEF n, ks
<1>4. \A i \in 0 .. n : acc[i] \in 0 .. QueueLimit
    BY <1>2
<1>5. 1 \in 1 .. n /\ 1 - 1 = 0
    BY <1>1
<1>6. acc[1] = acc[0] + w
    BY <1>1, <1>2, <1>5
<1>. HIDE DEF w
<1>7. w = acc[1] /\ w \in 0 .. QueueLimit
    <2>1. Weight(js[1]) \in Int
        <3>1. js[1] \in Jobs
            BY <1>5 DEF n
        <3>. QED  BY <3>1, HostBufferAssumption DEF Weight, Jobs
    <2>2. w \in Int
        BY <1>1, <2>1 DEF w
    <2>. QED  BY <1>2, <1>4, <1>5, <1>6, <2>2
<1>8. \A i \in 0 .. n - 1 : i + 1 \in 0 .. n /\ new[i] = acc[i + 1] - w /\ new[i] \in 0 .. QueueLimit
    <2>1. SUFFICES ASSUME NEW i \in 0 .. n - 1
                   PROVE  /\ i + 1 \in 0 .. n /\ new[i] = acc[i + 1] - w
                          /\ new[i] \in 0 .. QueueLimit
        OBVIOUS
    <2>2. i + 1 \in 0 .. n /\ 1 \in 0 .. n /\ 1 <= i + 1
        BY <1>1
    <2>3. acc[1] <= acc[i + 1]
        BY <1>2, <2>2
    <2>4. acc[i + 1] - w \in 0 .. QueueLimit
        BY <1>3, <1>4, <1>7, <2>2, <2>3
    <2>. QED  BY <2>2, <2>4
<1>9. new \in [0 .. n - 1 -> 0 .. QueueLimit]
    <2>1. new = [i \in 0 .. n - 1 |-> new[i]]
        OBVIOUS
    <2>. HIDE DEF new
    <2>. QED  BY <1>8, <2>1
<1>. HIDE DEF new
<1>10. new[0] = 0 /\ new[n - 1] = q - w
    <2>1. 0 \in 0 .. n - 1 /\ n - 1 \in 0 .. n - 1 /\ 0 + 1 = 1 /\ (n - 1) + 1 = n
        BY <1>1
    <2>. QED  BY <1>2, <1>7, <1>8, <2>1
<1>11. \A i \in 1 .. n - 1 : new[i] = new[i - 1] + Weight(ks[i])
    <2>1. SUFFICES ASSUME NEW i \in 1 .. n - 1 PROVE new[i] = new[i - 1] + Weight(ks[i])
        OBVIOUS
    <2>2. /\ i \in 0 .. n - 1 /\ i - 1 \in 0 .. n - 1 /\ (i - 1) + 1 = i /\ i + 1 \in 1 .. n
          /\ (i + 1) - 1 = i /\ i \in 0 .. n
        BY <1>1
    <2>3. acc[i + 1] = acc[i] + Weight(ks[i])
        BY <1>1, <1>2, <2>2
    <2>4. new[i] = acc[i + 1] - w /\ new[i - 1] = acc[i] - w
        BY <1>8, <2>2
    <2>5. Weight(ks[i]) \in Int
        <3>1. ks[i] \in Jobs
            BY <1>1, <2>2 DEF n
        <3>. QED  BY <3>1, HostBufferAssumption DEF Weight, Jobs
    <2>6. acc[i] \in Int
        BY <1>4, <2>2
    <2>. QED  BY <1>7, <2>3, <2>4, <2>5, <2>6
<1>12. \A i, j \in 0 .. n - 1 : i <= j => new[i] <= new[j]
    <2>1. SUFFICES ASSUME NEW i \in 0 .. n - 1, NEW j \in 0 .. n - 1, i <= j
                   PROVE  new[i] <= new[j]
        OBVIOUS
    <2>2. i + 1 \in 0 .. n /\ j + 1 \in 0 .. n /\ i + 1 <= j + 1
        BY <1>1, <2>1
    <2>3. acc[i + 1] <= acc[j + 1] /\ acc[i + 1] \in Int /\ acc[j + 1] \in Int
        BY <1>2, <1>4, <2>2
    <2>. QED  BY <1>7, <1>8, <2>3
<1>. QED
    <2>1. /\ new[0] = 0 /\ new[Len(ks)] = q - w
          /\ \A i \in 1 .. Len(ks) : new[i] = new[i - 1] + Weight(ks[i])
          /\ \A i, j \in 0 .. Len(ks) : i <= j => new[i] <= new[j]
          /\ new \in [0 .. Len(ks) -> 0 .. QueueLimit]
        BY <1>1, <1>9, <1>10, <1>11, <1>12
    <2>2. QueueCounted(ks, q - w)
        BY <2>1 DEF QueueCounted
    <2>. QED  BY <2>2 DEF ks, w

-----------------------------------------------------------------------------
(* What a step leaves alone.                                                 *)

\* A step that leaves the queue alone.
LEMMA QueueStays ==
    ASSUME QueueOK, UNCHANGED queue, UNCHANGED base, busy' = busy \/ jobs = <<>> \/ busy' = {}
    PROVE  QueueOK'
<1>1. jobs' = jobs /\ queued' = queued /\ pending' = pending /\ base' = base
    BY DEF queue
<1>2. jobs' # <<>> => busy' = {}
    BY <1>1 DEF QueueOK
<1>3. QueueCounted(jobs, queued)' = QueueCounted(jobs, queued)
    BY <1>1 DEF QueueCounted
<1>. QED  BY <1>1, <1>2, <1>3 DEF QueueOK

\* A step that leaves alone what the system holds.
LEMMA SystemStays ==
    ASSUME SystemOK, UNCHANGED <<reserved, backed, base, committed_size, jobs>>
    PROVE  SystemOK'
BY DEF SystemOK

\* A step that leaves the pool alone.
LEMMA PoolStays ==
    ASSUME PoolOK, UNCHANGED prewarm, backed' = backed, size' = size \/ busy = {}
    PROVE  PoolOK'
BY DEF PoolOK, prewarm

\* What is coming depends on the pool alone.
LEMMA ComingStays ==
    ASSUME UNCHANGED prewarm
    PROVE  Coming' = Coming
BY DEF Coming, prewarm

\* A pool at rest touches nothing more.
LEMMA ComingNone ==
    ASSUME busy = {}
    PROVE  Coming = {}
BY DEF Coming

\* Dropping chunks, or what is committed for good, loses nothing.
LEMMA WarmStays ==
    ASSUME WarmOK, UNCHANGED <<backed, touched, jobs, prewarm>>, held' \subseteq held,
           Sound' => Sound, Sound' => Pages(0, Live)' \subseteq Pages(0, Live),
           Sound' => (\A i \in 1 .. Len(jobs) : Live <= jobs[i].lo => Live' <= jobs[i].lo)
    PROVE  WarmOK'
<1>1. SUFFICES ASSUME Sound' 
               PROVE  /\ Pages(0, Live)' \subseteq backed'
                      /\ Pages(0, Live)' \subseteq touched' \cup Coming'
                      /\ \A r \in held' : Pages(r[1], r[2]) \subseteq touched'
                      /\ \A i \in 1 .. Len(jobs') : Live' <= jobs'[i].lo
    BY DEF WarmOK
<1>2. /\ Pages(0, Live) \subseteq backed /\ Pages(0, Live) \subseteq touched \cup Coming
      /\ \A r \in held : Pages(r[1], r[2]) \subseteq touched
      /\ \A i \in 1 .. Len(jobs) : Live <= jobs[i].lo
    BY <1>1 DEF WarmOK
<1>3. Coming' = Coming
    BY ComingStays
<1>. QED  BY <1>1, <1>2, <1>3

-----------------------------------------------------------------------------
(* The first state, and the calls of the owner.                              *)

\* The invariant holds at first.
LEMMA HostStarts ==
    ASSUME HostInit
    PROVE  HostInvariant
<1>1. PageUnits \in Nat \ {0} /\ Helpers \in Nat \ {0} /\ QueueLimit \in Nat \ {0} /\ Reserved \in Nat
    BY HostBufferAssumption
<1>2. SizesOK
    <2>1. 0 % PageUnits = 0
        BY <1>1
    <2>2. /\ base = FALSE /\ reserved = FALSE /\ fresh = FALSE /\ lost = FALSE
          /\ size = 0 /\ committed_size = 0 /\ last_chunk_size = 0
        BY DEF HostInit
    <2>3. {base, reserved, fresh, lost} \subseteq BOOLEAN
        BY <2>2
    <2>4. size \in 0 .. committed_size /\ committed_size \in 0 .. Reserved /\ last_chunk_size \in 0 .. Reserved
        BY <1>1, <2>2
    <2>. QED  BY <2>1, <2>2, <2>3, <2>4 DEF SizesOK
<1>3. HostCallOK
    BY DEF HostInit, HostCallOK
<1>4. QueueOK
    <2>1. QueueCounted(<<>>, 0)
        <3>. DEFINE acc == [i \in 0 .. 0 |-> 0]
        <3>1. acc \in [0 .. 0 -> 0 .. QueueLimit] /\ acc[0] = 0 /\ Len(<<>>) = 0
            BY <1>1
        <3>2. \A i, j \in 0 .. 0 : i <= j => acc[i] <= acc[j]
            OBVIOUS
        <3>. HIDE DEF acc
        <3>. QED  BY <3>1, <3>2 DEF QueueCounted
    <2>. QED  BY <2>1 DEF HostInit, QueueOK
<1>5. SystemOK
    <2>1. base = FALSE /\ reserved = FALSE /\ backed = {} /\ jobs = <<>> /\ committed_size = 0
        BY DEF HostInit
    <2>. QED  BY <2>1, Zenon DEF SystemOK
<1>6. PoolOK
    <2>1. /\ warm = FALSE /\ helpers = 0 /\ busy = {}
          /\ todo = [i \in 1 .. Helpers |-> {}]
        BY DEF HostInit
    <2>2. todo \in [1 .. Helpers -> SUBSET (0 .. Reserved - 1)]
        BY <2>1
    <2>3. helpers \in 0 .. Helpers
        BY <1>1, <2>1
    <2>. QED  BY <2>1, <2>2, <2>3 DEF PoolOK
<1>7. HeldOK
    <2>1. held = {} /\ hcall = NoHostCall
        BY DEF HostInit
    <2>2. \A r \in held : r[2] <= size /\ (pc \in {"truncate", "decommit"} => r[2] <= hcall.size)
        BY <2>1
    <2>. QED  BY <2>1, <2>2 DEF HeldOK
<1>8. GrowthOK
    BY DEF HostInit, GrowthOK
<1>9. WarmOK
    <2>1. Pages(0, 0) = {}
        <3>1. 0 % PageUnits = 0
            BY <1>1
        <3>. QED  BY <3>1, PagesLie
    <2>2. Live = 0
        BY DEF HostInit, Live
    <2>. QED  BY <2>1, <2>2 DEF HostInit, WarmOK
<1>. QED  BY <1>2, <1>3, <1>4, <1>5, <1>6, <1>7, <1>8, <1>9 DEF HostInvariant

\* The caller asks for more.
LEMMA ExtendKeeps ==
    ASSUME HostInvariant, NEW n \in Sizes, NEW r \in BOOLEAN, Extend(n, r)
    PROVE  HostInvariant'
<1>1. SizesOK /\ HostCallOK /\ QueueOK /\ SystemOK /\ PoolOK /\ HeldOK /\ GrowthOK /\ WarmOK
    BY DEF HostInvariant
<1>2. /\ pc = "idle" /\ (r => fresh) /\ pc' = "extend"
      /\ hcall' = [name |-> "extend", size |-> n, realloc |-> r]
      /\ UNCHANGED <<fields, system, queue, prewarm, caller, faults>>
    BY DEF Extend
<1>3. /\ UNCHANGED <<base, size, committed_size, last_chunk_size, reserved, backed, touched>>
      /\ UNCHANGED <<jobs, queued, pending, warm, helpers, busy, todo, held, fresh, lost>>
    BY <1>2 DEF fields, system, queue, prewarm, caller
<1>4. hcall = NoHostCall
    BY <1>1, <1>2 DEF HostCallOK
<1>5. SizesOK'
    BY <1>1, <1>2, <1>3 DEF SizesOK
<1>6. HostCallOK'
    <2>1. n \in Nat
        BY HostBufferAssumption
    <2>. QED  BY <1>2, <1>3, <2>1 DEF HostCallOK
<1>7. QueueOK' /\ SystemOK' /\ PoolOK'
    BY <1>1, <1>2, <1>3, QueueStays, SystemStays, PoolStays DEF queue
<1>8. HeldOK' /\ GrowthOK'
    BY <1>1, <1>2, <1>3 DEF HeldOK, GrowthOK
<1>9. WarmOK'
    <2>1. Live' = Live
        BY <1>2, <1>3 DEF Live
    <2>2. Sound' => Sound
        BY <1>3, <1>4 DEF Sound, NoHostCall
    <2>. QED  BY <1>1, <1>2, <1>3, <2>1, <2>2, WarmStays
<1>. QED  BY <1>5, <1>6, <1>7, <1>8, <1>9 DEF HostInvariant

\* A buffer that gets shorter keeps the pool away from what is left.
LEMMA PoolShrinks ==
    ASSUME PoolOK, UNCHANGED <<busy, todo, backed>>, warm' \in BOOLEAN, helpers' \in 0 .. Helpers,
           size \in Nat, size' \in 0 .. size
    PROVE  PoolOK'
<1>1. SUFFICES ASSUME NEW i \in busy, NEW u \in todo[i] PROVE size' <= u /\ u \div PageUnits \in backed
    BY DEF PoolOK
<1>2. size <= u /\ u \div PageUnits \in backed /\ u \in 0 .. Reserved - 1 /\ Reserved \in Nat
    BY <1>1, HostBufferAssumption DEF PoolOK
<1>. QED  BY <1>2

\* A sequence without elements is empty.
LEMMA EmptyIs ==
    ASSUME NEW S, NEW s \in Seq(S), Len(s) = 0
    PROVE  s = <<>>
OBVIOUS

\* What an extension starts from.
LEMMA ExtendFacts ==
    ASSUME HostInvariant, pc = "extend"
    PROVE  /\ hcall.name = "extend" /\ hcall.size \in Nat /\ hcall.realloc \in BOOLEAN
           /\ hcall \in [name : {"extend"}, size : Nat, realloc : BOOLEAN]
           /\ size \in Nat /\ Offset \in 0 .. size /\ (~hcall.realloc => Offset = size)
           /\ (hcall.realloc => fresh) /\ (fresh => last_chunk_size <= size)
           /\ Kept \subseteq held /\ (\A r \in Kept : r[2] <= Offset)
           /\ Live = committed_size /\ (Sound <=> ~lost)
           /\ committed_size \in Nat /\ Reserved \in Nat
           /\ (Settled => jobs = <<>>)
<1>1. SizesOK /\ HostCallOK /\ QueueOK
    BY DEF HostInvariant
<1>2. /\ hcall \in [name : {"extend"}, size : Nat, realloc : BOOLEAN]
      /\ hcall.realloc => fresh
    BY <1>1 DEF HostCallOK
<1>3. Reserved \in Nat
    BY HostBufferAssumption
<1>4. /\ committed_size \in 0 .. Reserved /\ size \in 0 .. committed_size
      /\ last_chunk_size \in 0 .. Reserved
    BY <1>1 DEF SizesOK
<1>5. fresh => last_chunk_size <= size
    BY <1>1 DEF SizesOK
<1>6. Offset \in 0 .. size /\ (~hcall.realloc => Offset = size)
    BY <1>2, <1>3, <1>4, <1>5 DEF Offset
<1>7. Settled => jobs = <<>>
    <2>1. jobs \in Seq(Jobs) /\ pending = Len(jobs)
        BY <1>1 DEF QueueOK
    <2>. QED  BY <2>1, EmptyIs DEF Settled
<1>8. Kept \subseteq held /\ (\A r \in Kept : r[2] <= Offset)
    BY DEF Kept
<1>9. Live = committed_size
    BY DEF Live
<1>10. Sound <=> ~lost
    BY <1>2 DEF Sound
<1>. QED  BY <1>2, <1>3, <1>4, <1>5, <1>6, <1>7, <1>8, <1>9, <1>10

\* Nothing has to be committed.
LEMMA ExtendInPlaceKeeps ==
    ASSUME HostInvariant, ExtendInPlace
    PROVE  HostInvariant'
<1>1. SizesOK /\ HostCallOK /\ QueueOK /\ SystemOK /\ PoolOK /\ HeldOK /\ GrowthOK /\ WarmOK
    BY DEF HostInvariant
<1>2. /\ pc = "extend" /\ size' = Offset /\ last_chunk_size' = 0 /\ held' = Kept
      /\ fresh' = FALSE /\ pc' = "idle" /\ hcall' = NoHostCall
      /\ UNCHANGED <<base, committed_size, system, queue, prewarm, lost, faults>>
    BY DEF ExtendInPlace, Return
<1>3. UNCHANGED <<reserved, backed, touched, jobs, queued, pending, warm, helpers, busy, todo>>
    BY <1>2 DEF system, queue, prewarm
<1>4. /\ size \in Nat /\ Offset \in 0 .. size
      /\ Kept \subseteq held /\ (\A r \in Kept : r[2] <= Offset)
      /\ Live = committed_size /\ (Sound <=> ~lost)
      /\ committed_size \in Nat /\ Reserved \in Nat
    BY <1>2, ExtendFacts
<1>5. SizesOK'
    <2>1. /\ committed_size \in 0 .. Reserved /\ committed_size % PageUnits = 0
          /\ size \in 0 .. committed_size /\ {base, reserved, lost} \subseteq BOOLEAN
        BY <1>1 DEF SizesOK
    <2>2. size' \in 0 .. committed_size' /\ last_chunk_size' \in 0 .. Reserved
        BY <1>2, <1>4, <2>1
    <2>3. {base', reserved', fresh', lost'} \subseteq BOOLEAN
        BY <1>2, <1>3, <2>1
    <2>. QED  BY <1>2, <2>1, <2>2, <2>3 DEF SizesOK
<1>6. HostCallOK'
    BY <1>2 DEF HostCallOK
<1>7. QueueOK' /\ SystemOK'
    BY <1>1, <1>2, <1>3, QueueStays, SystemStays DEF queue
<1>8. PoolOK'
    <2>1. warm \in BOOLEAN /\ helpers \in 0 .. Helpers
        BY <1>1 DEF PoolOK
    <2>. QED  BY <1>1, <1>2, <1>3, <1>4, <2>1, PoolShrinks
<1>9. HeldOK' /\ GrowthOK'
    BY <1>1, <1>2, <1>4 DEF HeldOK, GrowthOK, NoHostCall
<1>10. WarmOK'
    <2>1. Live' = Live
        BY <1>2, <1>4 DEF Live
    <2>2. Sound' => Sound
        BY <1>2, <1>4 DEF Sound
    <2>. QED  BY <1>1, <1>2, <1>3, <1>4, <2>1, <2>2, WarmStays
<1>. QED  BY <1>5, <1>6, <1>7, <1>8, <1>9, <1>10 DEF HostInvariant

\* The reservation is there; the extension goes on or is refused.
LEMMA ExtendReserveKeeps ==
    ASSUME HostInvariant, ExtendReserve
    PROVE  HostInvariant'
<1>1. SizesOK /\ HostCallOK /\ QueueOK /\ SystemOK /\ PoolOK /\ HeldOK /\ GrowthOK /\ WarmOK
    BY DEF HostInvariant
<1>2. /\ pc = "extend" /\ Settled /\ hcall.size > 0
      /\ size' = Offset /\ held' = Kept /\ base' = TRUE /\ reserved' = TRUE
      /\ IF Target(Offset + hcall.size) > Reserved
         THEN ExtendFails
         ELSE pc' = "grow" /\ UNCHANGED <<hcall, queue, last_chunk_size, fresh, lost>>
      /\ UNCHANGED <<committed_size, backed, touched, prewarm, faults>>
    BY DEF ExtendReserve
<1>3. UNCHANGED <<queue, last_chunk_size, lost>> /\ (fresh' => fresh) /\ fresh' \in BOOLEAN
    <2>1. fresh \in BOOLEAN
        BY <1>1 DEF SizesOK
    <2>2. CASE ExtendFails
        BY <2>1, <2>2, Zenon DEF ExtendFails
    <2>3. CASE UNCHANGED <<hcall, queue, last_chunk_size, fresh, lost>>
        BY <2>1, <2>3
    <2>. QED  BY <1>2, <2>2, <2>3
<1>4. UNCHANGED <<jobs, queued, pending, warm, helpers, busy, todo>>
    BY <1>2, <1>3 DEF queue, prewarm
<1>5. /\ hcall.name = "extend" /\ hcall.size \in Nat /\ hcall.realloc \in BOOLEAN
      /\ hcall \in [name : {"extend"}, size : Nat, realloc : BOOLEAN]
      /\ size \in Nat /\ Offset \in 0 .. size /\ (~hcall.realloc => Offset = size)
      /\ (hcall.realloc => fresh) /\ (fresh => last_chunk_size <= size)
      /\ Kept \subseteq held /\ (\A r \in Kept : r[2] <= Offset)
      /\ Live = committed_size /\ (Sound <=> ~lost)
      /\ committed_size \in Nat /\ Reserved \in Nat
      /\ jobs = <<>>
    BY <1>2, ExtendFacts
<1>6. \/ /\ pc' = "idle" /\ hcall' = NoHostCall /\ (fresh' => ~hcall.realloc)
      \/ /\ pc' = "grow" /\ hcall' = hcall /\ Target(Offset + hcall.size) <= Reserved
    <2>1. CASE Target(Offset + hcall.size) > Reserved
        <3>1. pc' = "idle" /\ hcall' = NoHostCall /\ fresh' = (fresh /\ ~hcall.realloc)
            BY <1>2, <2>1 DEF ExtendFails, Return
        <3>. QED  BY <3>1
    <2>2. CASE ~(Target(Offset + hcall.size) > Reserved)
        <3>1. Target(Offset + hcall.size) \in Nat
            <4>1. Offset + hcall.size \in Nat
                BY <1>5
            <4>2. committed_size % PageUnits = 0
                BY <1>1 DEF SizesOK
            <4>. QED  BY <1>5, <4>1, <4>2, TargetIs
        <3>. QED  BY <1>2, <1>5, <2>2, <3>1
    <2>. QED  BY <2>1, <2>2
<1>7. SizesOK'
    <2>1. /\ committed_size \in 0 .. Reserved /\ committed_size % PageUnits = 0
          /\ size \in 0 .. committed_size /\ last_chunk_size \in 0 .. Reserved
          /\ lost \in BOOLEAN
        BY <1>1 DEF SizesOK
    <2>2. size' \in 0 .. committed_size'
        BY <1>2, <1>5, <2>1
    <2>3. {base', reserved', fresh', lost'} \subseteq BOOLEAN
        BY <1>2, <1>3, <2>1
    <2>4. fresh' /\ ~(pc' \in {"grow", "warm"} /\ hcall'.realloc) => last_chunk_size' <= size'
        BY <1>2, <1>3, <1>5, <1>6
    <2>. QED  BY <1>2, <1>3, <2>1, <2>2, <2>3, <2>4 DEF SizesOK
<1>8. HostCallOK'
    <2>1. CASE pc' = "idle" /\ hcall' = NoHostCall
        BY <2>1 DEF HostCallOK
    <2>2. CASE pc' = "grow" /\ hcall' = hcall /\ Target(Offset + hcall.size) <= Reserved
        <3>1. Target(End)' <= Reserved
            BY <1>2, <2>2 DEF Target, End
        <3>2. hcall' \in [name : {"extend"}, size : Nat \ {0}, realloc : BOOLEAN]
            BY <1>2, <1>5, <2>2
        <3>. QED  BY <1>2, <1>4, <1>5, <2>2, <3>1, <3>2 DEF HostCallOK
    <2>. QED  BY <1>6, <2>1, <2>2
<1>9. QueueOK'
    <2>1. QueueCounted(jobs, queued)' = QueueCounted(jobs, queued)
        BY <1>4 DEF QueueCounted
    <2>. QED  BY <1>1, <1>2, <1>4, <1>5, <2>1 DEF QueueOK
<1>10. SystemOK'
    BY <1>1, <1>2 DEF SystemOK
<1>11. PoolOK'
    <2>1. warm \in BOOLEAN /\ helpers \in 0 .. Helpers
        BY <1>1 DEF PoolOK
    <2>. QED  BY <1>1, <1>2, <1>4, <1>5, <2>1, PoolShrinks
<1>12. HeldOK' /\ GrowthOK'
    <2>1. hcall'.name # "free" /\ pc' \notin {"truncate", "decommit", "warm"}
        BY <1>5, <1>6 DEF NoHostCall
    <2>. QED  BY <1>1, <1>2, <1>5, <2>1 DEF HeldOK, GrowthOK
<1>13. WarmOK'
    <2>1. Live' = Live
        BY <1>2, <1>5, <1>6 DEF Live
    <2>2. Sound' => Sound
        BY <1>3, <1>5 DEF Sound
    <2>. QED  BY <1>1, <1>2, <1>4, <1>5, <2>1, <2>2, WarmStays
<1>. QED  BY <1>7, <1>8, <1>9, <1>10, <1>11, <1>12, <1>13 DEF HostInvariant

\* The reservation fails.
LEMMA ReserveFailsKeeps ==
    ASSUME HostInvariant, ReserveFails
    PROVE  HostInvariant'
<1>1. SizesOK /\ HostCallOK /\ QueueOK /\ SystemOK /\ PoolOK /\ HeldOK /\ GrowthOK /\ WarmOK
    BY DEF HostInvariant
<1>2. /\ pc = "extend" /\ size' = Offset /\ held' = Kept
      /\ pc' = "idle" /\ hcall' = NoHostCall /\ fresh' = (fresh /\ ~hcall.realloc)
      /\ UNCHANGED <<base, committed_size, system, prewarm, queue, last_chunk_size, lost>>
    BY DEF ReserveFails, ExtendFails, Return
<1>3. UNCHANGED <<reserved, backed, touched, jobs, queued, pending, warm, helpers, busy, todo>>
    BY <1>2 DEF system, queue, prewarm
<1>4. /\ hcall.realloc \in BOOLEAN
      /\ size \in Nat /\ Offset \in 0 .. size /\ (~hcall.realloc => Offset = size)
      /\ (fresh => last_chunk_size <= size)
      /\ Kept \subseteq held /\ (\A r \in Kept : r[2] <= Offset)
      /\ Live = committed_size /\ (Sound <=> ~lost)
      /\ committed_size \in Nat /\ Reserved \in Nat
    BY <1>2, ExtendFacts
<1>5. SizesOK'
    <2>1. /\ committed_size \in 0 .. Reserved /\ committed_size % PageUnits = 0
          /\ size \in 0 .. committed_size /\ last_chunk_size \in 0 .. Reserved
          /\ {base, reserved, fresh, lost} \subseteq BOOLEAN
        BY <1>1 DEF SizesOK
    <2>2. size' \in 0 .. committed_size'
        BY <1>2, <1>4, <2>1
    <2>3. {base', reserved', fresh', lost'} \subseteq BOOLEAN
        BY <1>2, <1>3, <2>1
    <2>4. fresh' => last_chunk_size' <= size'
        BY <1>2, <1>4
    <2>. QED  BY <1>2, <2>1, <2>2, <2>3, <2>4 DEF SizesOK
<1>6. HostCallOK'
    BY <1>2 DEF HostCallOK
<1>7. QueueOK' /\ SystemOK'
    BY <1>1, <1>2, <1>3, QueueStays, SystemStays DEF queue
<1>8. PoolOK'
    <2>1. warm \in BOOLEAN /\ helpers \in 0 .. Helpers
        BY <1>1 DEF PoolOK
    <2>. QED  BY <1>1, <1>2, <1>3, <1>4, <2>1, PoolShrinks
<1>9. HeldOK' /\ GrowthOK'
    BY <1>1, <1>2, <1>4 DEF HeldOK, GrowthOK, NoHostCall
<1>10. WarmOK'
    <2>1. Live' = Live
        BY <1>2, <1>4 DEF Live
    <2>2. Sound' => Sound
        BY <1>2, <1>4 DEF Sound
    <2>. QED  BY <1>1, <1>2, <1>3, <1>4, <2>1, <2>2, WarmStays
<1>. QED  BY <1>5, <1>6, <1>7, <1>8, <1>9, <1>10 DEF HostInvariant

\* Starting the threads of the pool hands them the pages of a range.
LEMMA PoolStarts ==
    ASSUME NEW lo \in Nat, NEW hi \in Nat, lo < hi, hi <= Reserved,
           helpers \in 0 .. Helpers, StartPrewarm(lo, hi)
    PROVE  /\ warm' \in BOOLEAN /\ helpers' \in 0 .. Helpers /\ busy' \subseteq 1 .. Helpers
           /\ todo' \in [1 .. Helpers -> SUBSET (0 .. Reserved - 1)]
           /\ \A i \in busy' : \A u \in todo'[i] : lo <= u /\ u \div PageUnits \in Pages(lo, hi)
           /\ lo % PageUnits = 0 \/ hi % PageUnits = 0 => Pages(lo, hi) \subseteq Coming'
<1>1. /\ warm' = TRUE /\ helpers' = (IF warm THEN helpers ELSE Helpers) /\ busy' = 1 .. Helpers
      /\ todo' = [i \in 1 .. Helpers |-> Share(i, lo, hi)]
    BY DEF StartPrewarm
<1>2. /\ \A i \in 1 .. Helpers : \A u \in Share(i, lo, hi) :
            u \in Nat /\ lo <= u /\ u < hi /\ Floor(u) \in Pages(lo, hi)
      /\ lo % PageUnits = 0 \/ hi % PageUnits = 0 =>
            \A p \in Pages(lo, hi) : \E i \in 1 .. Helpers : \E u \in Share(i, lo, hi) : Floor(u) = p
    BY SharesCover
<1>3. Helpers \in Nat \ {0} /\ Reserved \in Nat
    BY HostBufferAssumption
<1>4. warm' \in BOOLEAN /\ helpers' \in 0 .. Helpers /\ busy' \subseteq 1 .. Helpers
    BY <1>1, <1>3
<1>5. todo' \in [1 .. Helpers -> SUBSET (0 .. Reserved - 1)]
    <2>1. ASSUME NEW i \in 1 .. Helpers PROVE Share(i, lo, hi) \in SUBSET (0 .. Reserved - 1)
        <3>1. SUFFICES ASSUME NEW u \in Share(i, lo, hi) PROVE u \in 0 .. Reserved - 1
            OBVIOUS
        <3>2. u \in Nat /\ u < hi
            BY <1>2
        <3>. QED  BY <1>3, <3>2
    <2>. QED  BY <1>1, <2>1
<1>6. \A i \in 1 .. Helpers : todo'[i] = Share(i, lo, hi)
    BY <1>1
<1>7. \A i \in busy' : \A u \in todo'[i] : lo <= u /\ u \div PageUnits \in Pages(lo, hi)
    BY <1>1, <1>2, <1>6 DEF Floor
<1>8. ASSUME lo % PageUnits = 0 \/ hi % PageUnits = 0, NEW p \in Pages(lo, hi) PROVE p \in Coming'
    <2>1. PICK i \in 1 .. Helpers : \E u \in Share(i, lo, hi) : Floor(u) = p
        BY <1>2, <1>8
    <2>2. PICK u \in Share(i, lo, hi) : Floor(u) = p
        BY <2>1
    <2>3. i \in busy' /\ u \in todo'[i] /\ u \div PageUnits = p
        BY <1>1, <1>6, <2>2 DEF Floor
    <2>. QED  BY <2>3 DEF Coming
<1>. QED  BY <1>4, <1>5, <1>7, <1>8

\* What the tail of a buffer grows by.
LEMMA GrowFacts ==
    ASSUME HostInvariant, pc \in {"grow", "warm"}
    PROVE  /\ hcall \in [name : {"extend"}, size : Nat \ {0}, realloc : BOOLEAN]
           /\ base /\ jobs = <<>>
           /\ size \in Nat /\ End \in Nat /\ size < End /\ hcall.size <= End
           /\ committed_size \in Nat /\ committed_size % PageUnits = 0 /\ size <= committed_size
           /\ Target(End) \in Nat /\ Target(End) % PageUnits = 0
           /\ committed_size <= Target(End) /\ End <= Target(End) /\ Target(End) <= Reserved
           /\ Live = committed_size /\ (Sound <=> ~lost) /\ Reserved \in Nat
<1>1. SizesOK /\ HostCallOK
    BY DEF HostInvariant
<1>2. /\ hcall \in [name : {"extend"}, size : Nat \ {0}, realloc : BOOLEAN]
      /\ base /\ jobs = <<>> /\ Target(End) <= Reserved
    BY <1>1 DEF HostCallOK
<1>3. Reserved \in Nat
    BY HostBufferAssumption
<1>4. /\ committed_size \in 0 .. Reserved /\ committed_size % PageUnits = 0
      /\ size \in 0 .. committed_size
    BY <1>1 DEF SizesOK
<1>5. End \in Nat /\ size < End /\ hcall.size <= End /\ size \in Nat /\ committed_size \in Nat
    BY <1>2, <1>3, <1>4 DEF End
<1>6. /\ Target(End) \in Nat /\ Target(End) % PageUnits = 0
      /\ committed_size <= Target(End) /\ End <= Target(End)
    BY <1>4, <1>5, TargetIs
<1>7. Live = committed_size
    BY DEF Live
<1>8. Sound <=> ~lost
    BY <1>2 DEF Sound
<1>9. size <= committed_size
    BY <1>3, <1>4
<1>. QED  BY <1>2, <1>3, <1>4, <1>5, <1>6, <1>7, <1>8, <1>9

\* The tail is committed, and the pool touches what is needed.
LEMMA GrowCommitKeeps ==
    ASSUME HostInvariant, GrowCommit
    PROVE  HostInvariant'
<1>1. SizesOK /\ HostCallOK /\ QueueOK /\ SystemOK /\ PoolOK /\ HeldOK /\ GrowthOK /\ WarmOK
    BY DEF HostInvariant
<1>2. /\ pc = "grow" /\ busy = {} /\ pc' = "warm"
      /\ backed' = backed \cup Pages(committed_size, Target(End))
      /\ IF End > committed_size THEN StartPrewarm(committed_size, End)
                                 ELSE UNCHANGED <<prewarm, faults>>
      /\ UNCHANGED <<fields, reserved, touched, queue, caller, hcall>>
    BY DEF GrowCommit, Joined
<1>3. /\ UNCHANGED <<base, size, committed_size, last_chunk_size, reserved, touched>>
      /\ UNCHANGED <<jobs, queued, pending, held, fresh, lost, hcall>>
    BY <1>2 DEF fields, queue, caller
<1>4. /\ hcall \in [name : {"extend"}, size : Nat \ {0}, realloc : BOOLEAN]
      /\ base /\ jobs = <<>>
      /\ size \in Nat /\ End \in Nat /\ size < End /\ hcall.size <= End
      /\ committed_size \in Nat /\ committed_size % PageUnits = 0 /\ size <= committed_size
      /\ Target(End) \in Nat /\ Target(End) % PageUnits = 0
      /\ committed_size <= Target(End) /\ End <= Target(End) /\ Target(End) <= Reserved
      /\ Live = committed_size /\ (Sound <=> ~lost) /\ Reserved \in Nat
    BY <1>2, GrowFacts
<1>5. End' = End /\ Target(End)' = Target(End)
    BY <1>3 DEF End, Target
<1>6. Pages(committed_size, Target(End)) \subseteq AllPages
    BY <1>4, PagesLie
<1>7. Pages(committed_size, End) \subseteq Pages(committed_size, Target(End))
    BY <1>4, PagesLie
<1>8. helpers \in 0 .. Helpers /\ PoolOK
    BY <1>1 DEF PoolOK
<1>9. /\ PoolOK'
      /\ Pages(committed_size, End) \subseteq Coming'
    <2>1. CASE End > committed_size
        <3>1. committed_size < End /\ End <= Reserved
            BY <1>4, <2>1
        <3>2. StartPrewarm(committed_size, End)
            BY <1>2, <2>1
        <3>3. /\ warm' \in BOOLEAN /\ helpers' \in 0 .. Helpers /\ busy' \subseteq 1 .. Helpers
              /\ todo' \in [1 .. Helpers -> SUBSET (0 .. Reserved - 1)]
              /\ \A i \in busy' : \A u \in todo'[i] :
                    committed_size <= u /\ u \div PageUnits \in Pages(committed_size, End)
              /\ Pages(committed_size, End) \subseteq Coming'
            BY <1>4, <1>8, <3>1, <3>2, PoolStarts
        <3>4. ASSUME NEW i \in busy', NEW u \in todo'[i]
              PROVE  size' <= u /\ u \div PageUnits \in backed'
            <4>1. u \in 0 .. Reserved - 1
                BY <3>3
            <4>2. committed_size <= u /\ u \div PageUnits \in backed'
                BY <1>2, <1>7, <3>3
            <4>. QED  BY <1>3, <1>4, <4>1, <4>2
        <3>. QED  BY <3>3, <3>4 DEF PoolOK
    <2>2. CASE ~(End > committed_size)
        <3>1. UNCHANGED <<warm, helpers, busy, todo>>
            BY <1>2, <2>2 DEF prewarm
        <3>2. PoolOK'
            BY <1>2, <1>8, <3>1 DEF PoolOK
        <3>3. Pages(committed_size, End) = {}
            <4>1. End <= committed_size
                BY <1>4, <2>2
            <4>. QED  BY <1>4, <4>1, PagesLie
        <3>. QED  BY <3>2, <3>3
    <2>. QED  BY <2>1, <2>2
<1>10. SizesOK'
    <2>1. /\ committed_size \in 0 .. Reserved /\ committed_size % PageUnits = 0
          /\ size \in 0 .. committed_size /\ last_chunk_size \in 0 .. Reserved
          /\ (fresh /\ ~hcall.realloc => last_chunk_size <= size)
          /\ {base, reserved, fresh, lost} \subseteq BOOLEAN
        BY <1>1, <1>2 DEF SizesOK
    <2>2. {base', reserved', fresh', lost'} \subseteq BOOLEAN
        BY <1>3, <2>1
    <2>. QED  BY <1>2, <1>3, <2>1, <2>2 DEF SizesOK
<1>11. HostCallOK'
    BY <1>2, <1>3, <1>4, <1>5 DEF HostCallOK
<1>12. QueueOK'
    BY <1>1, <1>3, <1>4, QueueStays DEF queue
<1>13. SystemOK'
    <2>1. base' /\ reserved'
        BY <1>1, <1>3, <1>4 DEF SystemOK
    <2>2. backed' \subseteq AllPages
        BY <1>1, <1>2, <1>6 DEF SystemOK
    <2>. QED  BY <2>1, <2>2 DEF SystemOK
<1>14. HeldOK'
    BY <1>1, <1>2, <1>3, <1>4 DEF HeldOK
<1>15. GrowthOK'
    <2>1. Pages(committed_size', Target(End)') \subseteq backed'
        BY <1>2, <1>3, <1>5
    <2>2. Pages(committed_size', End') \subseteq touched' \cup Coming'
        BY <1>3, <1>5, <1>9
    <2>. QED  BY <2>1, <2>2 DEF GrowthOK
<1>16. WarmOK'
    <2>1. Live' = Live
        BY <1>2, <1>3, <1>4 DEF Live
    <2>2. Sound' = Sound
        BY <1>3 DEF Sound
    <2>3. Coming = {}
        BY <1>2, ComingNone
    <2>4. SUFFICES ASSUME Sound
                   PROVE  /\ Pages(0, Live) \subseteq backed'
                          /\ Pages(0, Live) \subseteq touched
                          /\ \A r \in held : Pages(r[1], r[2]) \subseteq touched
                          /\ \A i \in 1 .. Len(jobs) : Live <= jobs[i].lo
        BY <1>3, <2>1, <2>2 DEF WarmOK
    <2>. QED  BY <1>1, <1>2, <2>3, <2>4 DEF WarmOK
<1>. QED  BY <1>9, <1>10, <1>11, <1>12, <1>13, <1>14, <1>15, <1>16 DEF HostInvariant

\* The commit fails, or the pool cannot be made.
LEMMA GrowFailsKeeps ==
    ASSUME HostInvariant, GrowFails
    PROVE  HostInvariant'
<1>1. SizesOK /\ HostCallOK /\ QueueOK /\ SystemOK /\ PoolOK /\ HeldOK /\ GrowthOK /\ WarmOK
    BY DEF HostInvariant
<1>2. /\ pc = "grow" /\ (UNCHANGED prewarm \/ PrewarmFails)
      /\ pc' = "idle" /\ hcall' = NoHostCall /\ fresh' = (fresh /\ ~hcall.realloc)
      /\ UNCHANGED <<queue, last_chunk_size, lost>>
      /\ UNCHANGED <<base, size, committed_size, system, held>>
    BY DEF GrowFails, ExtendFails, Return
<1>3. /\ UNCHANGED <<busy, todo>> /\ warm' \in BOOLEAN /\ helpers' \in 0 .. Helpers
    <2>1. CASE UNCHANGED prewarm
        BY <1>1, <2>1 DEF prewarm, PoolOK
    <2>2. CASE PrewarmFails
        <3>1. warm' = TRUE /\ helpers' \in 0 .. Helpers - 1 /\ UNCHANGED <<busy, todo>>
            BY <2>2 DEF PrewarmFails
        <3>2. Helpers \in Nat \ {0}
            BY HostBufferAssumption
        <3>. QED  BY <3>1, <3>2
    <2>. QED  BY <1>2, <2>1, <2>2
<1>4. UNCHANGED <<reserved, backed, touched, jobs, queued, pending>>
    BY <1>2 DEF system, queue
<1>5. /\ hcall \in [name : {"extend"}, size : Nat \ {0}, realloc : BOOLEAN]
      /\ size \in Nat /\ Live = committed_size /\ (Sound <=> ~lost)
    BY <1>2, GrowFacts
<1>6. SizesOK'
    <2>1. /\ committed_size \in 0 .. Reserved /\ committed_size % PageUnits = 0
          /\ size \in 0 .. committed_size /\ last_chunk_size \in 0 .. Reserved
          /\ (fresh /\ ~hcall.realloc => last_chunk_size <= size)
          /\ {base, reserved, fresh, lost} \subseteq BOOLEAN
        BY <1>1, <1>2 DEF SizesOK
    <2>2. {base', reserved', fresh', lost'} \subseteq BOOLEAN
        BY <1>2, <1>4, <2>1
    <2>3. fresh' => last_chunk_size' <= size'
        BY <1>2, <2>1
    <2>. QED  BY <1>2, <2>1, <2>2, <2>3 DEF SizesOK
<1>7. HostCallOK'
    BY <1>2 DEF HostCallOK
<1>8. QueueOK' /\ SystemOK'
    BY <1>1, <1>2, <1>3, <1>4, QueueStays, SystemStays
<1>9. PoolOK'
    <2>1. size' \in 0 .. size
        BY <1>2, <1>5
    <2>. QED  BY <1>1, <1>3, <1>4, <1>5, <2>1, PoolShrinks
<1>10. HeldOK' /\ GrowthOK'
    BY <1>1, <1>2 DEF HeldOK, GrowthOK, NoHostCall
<1>11. WarmOK'
    <2>1. Live' = Live
        BY <1>2, <1>5 DEF Live
    <2>2. Sound' => Sound
        BY <1>2, <1>5 DEF Sound
    <2>3. Coming' = Coming
        BY <1>3 DEF Coming
    <2>. QED  BY <1>1, <1>2, <1>4, <2>1, <2>2, <2>3 DEF WarmOK
<1>. QED  BY <1>6, <1>7, <1>8, <1>9, <1>10, <1>11 DEF HostInvariant

\* The chunk is handed out, and the pool touches the rest.
LEMMA GrowEndKeeps ==
    ASSUME HostInvariant, GrowEnd
    PROVE  HostInvariant'
<1>1. SizesOK /\ HostCallOK /\ QueueOK /\ SystemOK /\ PoolOK /\ HeldOK /\ GrowthOK /\ WarmOK
    BY DEF HostInvariant
<1>. DEFINE t == Target(End)
<1>2. /\ pc = "warm" /\ busy = {}
      /\ IF t > Rest THEN StartPrewarm(Rest, t) ELSE UNCHANGED <<prewarm, faults>>
      /\ committed_size' = t /\ size' = End /\ last_chunk_size' = hcall.size
      /\ held' = held \cup {<<size, End>>} /\ fresh' = TRUE
      /\ pc' = "idle" /\ hcall' = NoHostCall
      /\ UNCHANGED <<base, system, queue, lost>>
    BY DEF GrowEnd, Joined, Return
<1>3. UNCHANGED <<reserved, backed, touched, jobs, queued, pending>>
    BY <1>2 DEF system, queue
<1>4. /\ hcall \in [name : {"extend"}, size : Nat \ {0}, realloc : BOOLEAN]
      /\ base /\ jobs = <<>>
      /\ size \in Nat /\ End \in Nat /\ size < End /\ hcall.size <= End
      /\ committed_size \in Nat /\ committed_size % PageUnits = 0 /\ size <= committed_size
      /\ t \in Nat /\ t % PageUnits = 0
      /\ committed_size <= t /\ End <= t /\ t <= Reserved
      /\ Live = committed_size /\ (Sound <=> ~lost) /\ Reserved \in Nat
    BY <1>2, GrowFacts
<1>. HIDE DEF t
<1>5. /\ Pages(committed_size, t) \subseteq backed
      /\ Pages(committed_size, End) \subseteq touched
    <2>1. Coming = {}
        BY <1>2, ComingNone
    <2>. QED  BY <1>1, <1>2, <2>1 DEF GrowthOK, t
<1>6. /\ Rest \in Nat /\ End <= Rest /\ committed_size <= Rest
      /\ (Rest = committed_size \/ Rest = End) /\ Rest <= t
    BY <1>4 DEF Rest, Upper
<1>7. Pages(Rest, t) \subseteq Pages(committed_size, t)
    BY <1>4, <1>6, PagesLie
<1>8. helpers \in 0 .. Helpers /\ PoolOK
    BY <1>1 DEF PoolOK
<1>9. PoolOK' /\ Pages(Rest, t) \subseteq Coming'
    <2>1. CASE t > Rest
        <3>1. Rest < t
            BY <1>4, <1>6, <2>1
        <3>2. StartPrewarm(Rest, t)
            BY <1>2, <2>1
        <3>3. /\ warm' \in BOOLEAN /\ helpers' \in 0 .. Helpers /\ busy' \subseteq 1 .. Helpers
              /\ todo' \in [1 .. Helpers -> SUBSET (0 .. Reserved - 1)]
              /\ \A i \in busy' : \A u \in todo'[i] : Rest <= u /\ u \div PageUnits \in Pages(Rest, t)
              /\ Pages(Rest, t) \subseteq Coming'
            BY <1>4, <1>6, <1>8, <3>1, <3>2, PoolStarts
        <3>4. ASSUME NEW i \in busy', NEW u \in todo'[i]
              PROVE  size' <= u /\ u \div PageUnits \in backed'
            <4>1. u \in 0 .. Reserved - 1
                BY <3>3
            <4>2. Rest <= u /\ u \div PageUnits \in backed'
                BY <1>3, <1>5, <1>7, <3>3
            <4>. QED  BY <1>2, <1>4, <1>6, <4>1, <4>2
        <3>. QED  BY <3>3, <3>4 DEF PoolOK
    <2>2. CASE ~(t > Rest)
        <3>1. UNCHANGED prewarm
            BY <1>2, <2>2
        <3>2. PoolOK'
            BY <1>2, <1>3, <1>8, <3>1, PoolStays
        <3>3. Pages(Rest, t) = {}
            <4>1. t <= Rest
                BY <1>4, <1>6, <2>2
            <4>. QED  BY <1>4, <1>6, <4>1, PagesLie
        <3>. QED  BY <3>2, <3>3
    <2>. QED  BY <2>1, <2>2
<1>10. SizesOK'
    <2>1. {base, reserved, lost} \subseteq BOOLEAN
        BY <1>1 DEF SizesOK
    <2>2. {base', reserved', fresh', lost'} \subseteq BOOLEAN
        BY <1>2, <1>3, <2>1
    <2>3. /\ committed_size' \in 0 .. Reserved /\ size' \in 0 .. committed_size'
          /\ last_chunk_size' \in 0 .. Reserved /\ last_chunk_size' <= size'
        BY <1>2, <1>4
    <2>4. committed_size' % PageUnits = 0
        BY <1>2, <1>4
    <2>. QED  BY <2>2, <2>3, <2>4 DEF SizesOK
<1>11. HostCallOK'
    BY <1>2 DEF HostCallOK
<1>12. QueueOK'
    BY <1>1, <1>2, <1>3, <1>4, QueueStays
<1>13. SystemOK'
    <2>1. base' /\ reserved'
        BY <1>1, <1>2, <1>3, <1>4 DEF SystemOK
    <2>2. backed' \subseteq AllPages
        BY <1>1, <1>3 DEF SystemOK
    <2>. QED  BY <2>1, <2>2 DEF SystemOK
<1>14. HeldOK'
    <2>1. held \subseteq Nat \X Nat /\ \A r \in held : r[2] <= size
        BY <1>1 DEF HeldOK
    <2>2. held' \subseteq Nat \X Nat
        BY <1>2, <1>4, <2>1
    <2>3. ASSUME NEW r \in held' PROVE r[2] <= size'
        <3>1. CASE r \in held
            <4>1. r[2] <= size /\ r[2] \in Nat
                BY <2>1, <3>1
            <4>. QED  BY <1>2, <1>4, <4>1
        <3>2. CASE r = <<size, End>>
            BY <1>2, <1>4, <3>2
        <3>. QED  BY <1>2, <3>1, <3>2
    <2>. QED  BY <1>2, <2>2, <2>3 DEF HeldOK, NoHostCall
<1>15. GrowthOK'
    BY <1>2 DEF GrowthOK
<1>16. WarmOK'
    <2>1. Live' = t
        BY <1>2 DEF Live
    <2>2. SUFFICES ASSUME Sound
                   PROVE  /\ Pages(0, t) \subseteq backed
                          /\ Pages(0, t) \subseteq touched \cup Coming'
                          /\ \A r \in held' : Pages(r[1], r[2]) \subseteq touched
        <3>1. Sound' => Sound
            BY <1>2, <1>4 DEF Sound
        <3>2. Len(jobs) = 0
            BY <1>4
        <3>. QED  BY <1>3, <2>1, <3>1, <3>2 DEF WarmOK
    <2>3. /\ Pages(0, committed_size) \subseteq backed
          /\ Pages(0, committed_size) \subseteq touched
          /\ \A r \in held : Pages(r[1], r[2]) \subseteq touched
        <3>1. Coming = {}
            BY <1>2, ComingNone
        <3>. QED  BY <1>1, <1>4, <2>2, <3>1 DEF WarmOK
    <2>4. /\ Pages(0, t) \subseteq Pages(0, committed_size) \cup Pages(committed_size, t)
          /\ Pages(0, End) \subseteq Pages(0, committed_size) \cup Pages(committed_size, End)
          /\ Pages(0, t) \subseteq Pages(0, Rest) \cup Pages(Rest, t)
          /\ Pages(size, End) \subseteq Pages(0, End)
        <3>1. Pages(0, t) \subseteq Pages(0, committed_size) \cup Pages(committed_size, t)
            BY <1>4, PagesLie
        <3>2. Pages(0, End) \subseteq Pages(0, committed_size) \cup Pages(committed_size, End)
            BY <1>4, PagesLie
        <3>3. Pages(0, t) \subseteq Pages(0, Rest) \cup Pages(Rest, t)
            BY <1>4, <1>6, PagesLie
        <3>4. Pages(size, End) \subseteq Pages(0, End)
            BY <1>4, PagesLie
        <3>. QED  BY <3>1, <3>2, <3>3, <3>4
    <2>5. Pages(0, End) \subseteq touched
        BY <1>5, <2>3, <2>4
    <2>6. Pages(0, Rest) \subseteq touched
        BY <1>6, <2>3, <2>5
    <2>7. Pages(0, t) \subseteq touched \cup Coming'
        BY <1>9, <2>4, <2>6
    <2>8. Pages(0, t) \subseteq backed
        BY <1>5, <2>3, <2>4
    <2>9. ASSUME NEW r \in held' PROVE Pages(r[1], r[2]) \subseteq touched
        <3>1. CASE r \in held
            BY <2>3, <3>1
        <3>2. CASE r = <<size, End>>
            BY <2>4, <2>5, <3>2
        <3>. QED  BY <1>2, <3>1, <3>2
    <2>. QED  BY <2>7, <2>8, <2>9
<1>. QED  BY <1>9, <1>10, <1>11, <1>12, <1>13, <1>14, <1>15, <1>16 DEF HostInvariant

\* The caller gives chunks up.
LEMMA TruncateKeeps ==
    ASSUME HostInvariant, NEW n \in Sizes, Truncate(n)
    PROVE  HostInvariant'
<1>1. SizesOK /\ HostCallOK /\ QueueOK /\ SystemOK /\ PoolOK /\ HeldOK /\ GrowthOK /\ WarmOK
    BY DEF HostInvariant
<1>2. /\ pc = "idle" /\ n < size /\ held' = {r \in held : r[2] <= n} /\ fresh' = FALSE
      /\ pc' = "truncate" /\ hcall' = [name |-> "truncate", size |-> n]
      /\ UNCHANGED <<fields, system, queue, prewarm, lost, faults>>
    BY DEF Truncate
<1>3. /\ UNCHANGED <<base, size, committed_size, last_chunk_size, reserved, backed, touched>>
      /\ UNCHANGED <<jobs, queued, pending, warm, helpers, busy, todo>>
    BY <1>2 DEF fields, system, queue, prewarm
<1>4. n \in Nat /\ Reserved \in Nat /\ hcall = NoHostCall
    BY <1>1, <1>2, HostBufferAssumption DEF HostCallOK
<1>5. /\ committed_size \in 0 .. Reserved /\ committed_size % PageUnits = 0
      /\ size \in 0 .. committed_size /\ last_chunk_size \in 0 .. Reserved
      /\ {base, reserved, lost} \subseteq BOOLEAN
    BY <1>1 DEF SizesOK
<1>6. SizesOK'
    <2>1. {base', reserved', fresh', lost'} \subseteq BOOLEAN
        BY <1>2, <1>3, <1>5
    <2>. QED  BY <1>2, <1>3, <1>5, <2>1 DEF SizesOK
<1>7. HostCallOK'
    <2>1. n \in 0 .. size - 1
        BY <1>2, <1>4, <1>5
    <2>2. hcall' \in [name : {"truncate", "free"}, size : 0 .. size - 1] /\ hcall'.name # "free"
        BY <1>2, <2>1
    <2>. QED  BY <1>2, <1>3, <2>2 DEF HostCallOK
<1>8. QueueOK' /\ SystemOK' /\ PoolOK'
    BY <1>1, <1>2, <1>3, QueueStays, SystemStays, PoolStays
<1>9. HeldOK' /\ GrowthOK'
    BY <1>1, <1>2, <1>3 DEF HeldOK, GrowthOK
<1>10. WarmOK'
    <2>1. Live' = Live
        BY <1>2, <1>3 DEF Live
    <2>2. Sound' => Sound
        BY <1>2, <1>4 DEF Sound, NoHostCall
    <2>. QED  BY <1>1, <1>2, <1>3, <2>1, <2>2, WarmStays
<1>. QED  BY <1>6, <1>7, <1>8, <1>9, <1>10 DEF HostInvariant

\* The caller gives the buffer up.
LEMMA FreeBufferKeeps ==
    ASSUME HostInvariant, Free
    PROVE  HostInvariant'
<1>1. SizesOK /\ HostCallOK /\ QueueOK /\ SystemOK /\ PoolOK /\ HeldOK /\ GrowthOK /\ WarmOK
    BY DEF HostInvariant
<1>2. /\ pc = "idle" /\ held' = {} /\ fresh' = FALSE
      /\ hcall' = [name |-> "free", size |-> 0]
      /\ pc' = (IF size > 0 THEN "truncate" ELSE "destroy")
      /\ lost' = (size = 0 /\ base)
      /\ UNCHANGED <<fields, system, queue, prewarm, faults>>
    BY DEF Free
<1>3. /\ UNCHANGED <<base, size, committed_size, last_chunk_size, reserved, backed, touched>>
      /\ UNCHANGED <<jobs, queued, pending, warm, helpers, busy, todo>>
    BY <1>2 DEF fields, system, queue, prewarm
<1>4. /\ committed_size \in 0 .. Reserved /\ committed_size % PageUnits = 0
      /\ size \in 0 .. committed_size /\ last_chunk_size \in 0 .. Reserved
      /\ {base, reserved} \subseteq BOOLEAN /\ Reserved \in Nat
    BY <1>1, HostBufferAssumption DEF SizesOK
<1>5. lost' \in BOOLEAN
    BY <1>2
<1>6. SizesOK'
    <2>1. {base', reserved', fresh', lost'} \subseteq BOOLEAN
        BY <1>2, <1>3, <1>4, <1>5
    <2>. QED  BY <1>2, <1>3, <1>4, <2>1 DEF SizesOK
<1>7. HostCallOK'
    <2>1. CASE size > 0
        <3>1. 0 \in 0 .. size - 1
            BY <1>4, <2>1
        <3>2. pc' = "truncate" /\ hcall' \in [name : {"truncate", "free"}, size : 0 .. size - 1]
            BY <1>2, <2>1, <3>1
        <3>. QED  BY <1>2, <1>3, <3>2 DEF HostCallOK
    <2>2. CASE ~(size > 0)
        <3>1. pc' = "destroy" /\ size = 0
            BY <1>2, <1>4, <2>2
        <3>2. base' => lost'
            BY <1>2, <1>3, <3>1
        <3>. QED  BY <1>2, <3>1, <3>2 DEF HostCallOK
    <2>. QED  BY <2>1, <2>2
<1>8. QueueOK' /\ SystemOK' /\ PoolOK'
    BY <1>1, <1>2, <1>3, QueueStays, SystemStays, PoolStays
<1>9. HeldOK' /\ GrowthOK'
    BY <1>2 DEF HeldOK, GrowthOK
<1>10. WarmOK'
    BY <1>2 DEF WarmOK, Sound
<1>. QED  BY <1>6, <1>7, <1>8, <1>9, <1>10 DEF HostInvariant

\* The pool is at rest, and the tail is to be decommitted.
LEMMA BeginDecommitKeeps ==
    ASSUME HostInvariant, BeginDecommit
    PROVE  HostInvariant'
<1>1. SizesOK /\ HostCallOK /\ QueueOK /\ SystemOK /\ PoolOK /\ HeldOK /\ GrowthOK /\ WarmOK
    BY DEF HostInvariant
<1>2. /\ pc = "truncate" /\ busy = {} /\ pc' = "decommit"
      /\ hcall' = [name |-> hcall.name, size |-> hcall.size, done |-> Up(hcall.size)]
      /\ UNCHANGED <<fields, system, queue, prewarm, caller, faults>>
    BY DEF BeginDecommit, Joined
<1>3. /\ UNCHANGED <<base, size, committed_size, last_chunk_size, reserved, backed, touched>>
      /\ UNCHANGED <<jobs, queued, pending, warm, helpers, busy, todo, held, fresh, lost>>
    BY <1>2 DEF fields, system, queue, prewarm, caller
<1>4. /\ hcall \in [name : {"truncate", "free"}, size : 0 .. size - 1]
      /\ ~fresh /\ (hcall.name = "free" => hcall.size = 0)
    BY <1>1, <1>2 DEF HostCallOK
<1>5. /\ committed_size \in 0 .. Reserved /\ committed_size % PageUnits = 0
      /\ size \in 0 .. committed_size /\ last_chunk_size \in 0 .. Reserved
      /\ {base, reserved, fresh, lost} \subseteq BOOLEAN /\ Reserved \in Nat
    BY <1>1, HostBufferAssumption DEF SizesOK
<1>6. hcall.size \in Nat /\ hcall.size <= committed_size /\ committed_size \in Nat
    BY <1>4, <1>5
<1>7. Up(hcall.size) \in 0 .. committed_size
    <2>1. Up(hcall.size) \in Nat
        BY <1>6, Rounding
    <2>2. Up(hcall.size) <= committed_size
        BY <1>5, <1>6, RoundingKeeps
    <2>. QED  BY <1>6, <2>1, <2>2
<1>8. SizesOK'
    <2>1. {base', reserved', fresh', lost'} \subseteq BOOLEAN
        BY <1>3, <1>5
    <2>. QED  BY <1>2, <1>3, <1>4, <1>5, <2>1 DEF SizesOK
<1>9. HostCallOK'
    <2>1. hcall' \in [name : {"truncate", "free"}, size : 0 .. size - 1, done : 0 .. committed_size]
        BY <1>2, <1>4, <1>7
    <2>2. Up(hcall'.size) <= hcall'.done
        BY <1>2, <1>7
    <2>. QED  BY <1>2, <1>3, <1>4, <2>1, <2>2 DEF HostCallOK
<1>10. QueueOK' /\ SystemOK' /\ PoolOK'
    BY <1>1, <1>2, <1>3, QueueStays, SystemStays, PoolStays
<1>11. HeldOK' /\ GrowthOK'
    BY <1>1, <1>2, <1>3 DEF HeldOK, GrowthOK
<1>12. WarmOK'
    <2>1. Live' = Up(hcall.size) /\ Live = committed_size
        BY <1>2 DEF Live
    <2>2. Pages(0, Live') \subseteq Pages(0, Live)
        BY <1>6, <1>7, <2>1, PagesLie
    <2>3. Sound' => Sound
        BY <1>2, <1>3 DEF Sound
    <2>4. \A i \in 1 .. Len(jobs) : Live <= jobs[i].lo => Live' <= jobs[i].lo
        <3>1. SUFFICES ASSUME NEW i \in 1 .. Len(jobs), Live <= jobs[i].lo PROVE Live' <= jobs[i].lo
            OBVIOUS
        <3>2. jobs[i] \in Jobs
            BY <1>1 DEF QueueOK
        <3>3. jobs[i].lo \in Int
            BY <1>5, <3>2 DEF Jobs
        <3>. QED  BY <1>6, <1>7, <2>1, <3>1, <3>3
    <2>. QED  BY <1>1, <1>2, <1>3, <2>2, <2>3, <2>4, WarmStays
<1>. QED  BY <1>8, <1>9, <1>10, <1>11, <1>12 DEF HostInvariant

\* What is left to decommit.
LEMMA DecommitFacts ==
    ASSUME HostInvariant, pc = "decommit"
    PROVE  /\ hcall \in [name : {"truncate", "free"}, size : 0 .. size - 1, done : 0 .. committed_size]
           /\ ~fresh /\ (hcall.name = "free" => hcall.size = 0) /\ busy = {}
           /\ committed_size \in 0 .. Reserved /\ committed_size % PageUnits = 0
           /\ size \in 0 .. committed_size /\ last_chunk_size \in 0 .. Reserved
           /\ {base, reserved, fresh, lost} \subseteq BOOLEAN /\ Reserved \in Nat
           /\ Up(hcall.size) \in Nat /\ Up(hcall.size) <= hcall.done
           /\ Up(hcall.size) % PageUnits = 0 /\ Live = Up(hcall.size) /\ base
<1>1. SizesOK /\ HostCallOK /\ SystemOK
    BY DEF HostInvariant
<1>2. /\ hcall \in [name : {"truncate", "free"}, size : 0 .. size - 1, done : 0 .. committed_size]
      /\ ~fresh /\ (hcall.name = "free" => hcall.size = 0) /\ busy = {}
      /\ Up(hcall.size) <= hcall.done
    BY <1>1 DEF HostCallOK
<1>3. /\ committed_size \in 0 .. Reserved /\ committed_size % PageUnits = 0
      /\ size \in 0 .. committed_size /\ last_chunk_size \in 0 .. Reserved
      /\ {base, reserved, fresh, lost} \subseteq BOOLEAN
    BY <1>1 DEF SizesOK
<1>4. Reserved \in Nat
    BY HostBufferAssumption
<1>5. hcall.size \in Nat /\ committed_size # 0
    BY <1>2, <1>3, <1>4
<1>6. Up(hcall.size) \in Nat
    BY <1>5, Rounding
<1>7. Up(hcall.size) % PageUnits = 0
    BY <1>5, RoundingKeeps
<1>8. base
    BY <1>1, <1>5 DEF SystemOK
<1>9. Live = Up(hcall.size)
    BY DEF Live
<1>. QED  BY <1>2, <1>3, <1>4, <1>6, <1>7, <1>8, <1>9

\* A part of the tail is queued.
LEMMA QueuePartKeeps ==
    ASSUME HostInvariant, QueuePart
    PROVE  HostInvariant'
<1>1. SizesOK /\ HostCallOK /\ QueueOK /\ SystemOK /\ PoolOK /\ HeldOK /\ GrowthOK /\ WarmOK
    BY DEF HostInvariant
<1>. DEFINE job == [lo |-> hcall.done, hi |-> hcall.done + Part, release |-> FALSE]
<1>2. /\ pc = "decommit" /\ hcall.done < committed_size /\ HasSpace
      /\ jobs' = Append(jobs, job) /\ pending' = pending + 1
      /\ queued' = queued + job.hi - job.lo
      /\ hcall' = [hcall EXCEPT !.done = @ + Part]
      /\ UNCHANGED <<fields, system, prewarm, caller, pc, faults>>
    BY DEF QueuePart, Queue
<1>3. /\ UNCHANGED <<base, size, committed_size, last_chunk_size, reserved, backed, touched>>
      /\ UNCHANGED <<warm, helpers, busy, todo, held, fresh, lost, pc>>
    BY <1>2 DEF fields, system, prewarm, caller
<1>4. /\ hcall \in [name : {"truncate", "free"}, size : 0 .. size - 1, done : 0 .. committed_size]
      /\ ~fresh /\ (hcall.name = "free" => hcall.size = 0) /\ busy = {}
      /\ committed_size \in 0 .. Reserved /\ committed_size % PageUnits = 0
      /\ size \in 0 .. committed_size /\ last_chunk_size \in 0 .. Reserved
      /\ {base, reserved, fresh, lost} \subseteq BOOLEAN /\ Reserved \in Nat
      /\ Up(hcall.size) \in Nat /\ Up(hcall.size) <= hcall.done
      /\ Up(hcall.size) % PageUnits = 0 /\ Live = Up(hcall.size) /\ base
    BY <1>2, DecommitFacts
<1>5. hcall.done \in Nat /\ committed_size \in Nat /\ hcall.done < committed_size
      /\ committed_size <= Reserved
    BY <1>2, <1>4
<1>6. Part \in Nat \ {0} /\ hcall.done + Part <= committed_size
    <2>1. QueueLimit \in Nat \ {0}
        BY HostBufferAssumption
    <2>. QED  BY <1>5, <2>1 DEF Part, Lower
<1>7. /\ hcall'.name = hcall.name /\ hcall'.size = hcall.size /\ hcall'.done = hcall.done + Part
      /\ hcall' \in [name : {"truncate", "free"}, size : 0 .. size - 1, done : 0 .. committed_size]
    <2>1. hcall.done + Part \in 0 .. committed_size
        BY <1>5, <1>6
    <2>2. /\ hcall' = [hcall EXCEPT !.done = hcall.done + Part]
        BY <1>2
    <2>. QED  BY <1>4, <2>1, <2>2
<1>8. job \in Jobs /\ job.lo < job.hi /\ Weight(job) = Part /\ job.lo = hcall.done /\ ~job.release
    <2>1. hcall.done \in 0 .. Reserved /\ hcall.done + Part \in 0 .. Reserved
        BY <1>4, <1>5, <1>6
    <2>2. job.hi - job.lo = Part /\ job.lo < job.hi
        BY <1>5, <1>6
    <2>. QED  BY <2>1, <2>2 DEF Jobs, Weight
<1>9. /\ jobs \in Seq(Jobs) /\ pending = Len(jobs) /\ QueueCounted(jobs, queued)
      /\ \A i \in 1 .. Len(jobs) : jobs[i].lo < jobs[i].hi
      /\ \A i \in 1 .. Len(jobs) :
            jobs[i].release => ~base /\ jobs[i].lo = 0 /\ jobs[i].hi = Reserved
    BY <1>1 DEF QueueOK
<1>10. queued \in Nat
    <2>1. PICK acc \in [0 .. Len(jobs) -> 0 .. QueueLimit] : acc[Len(jobs)] = queued
        BY <1>9 DEF QueueCounted
    <2>2. Len(jobs) \in 0 .. Len(jobs) /\ QueueLimit \in Nat
        BY <1>9, HostBufferAssumption
    <2>. QED  BY <2>1, <2>2
<1>11. queued' = queued + Weight(job) /\ queued + Weight(job) \in 0 .. QueueLimit
    <2>1. queued + Part <= QueueLimit /\ QueueLimit \in Nat
        BY <1>2, HostBufferAssumption DEF HasSpace
    <2>2. queued' = queued + Part
        BY <1>2, <1>5, <1>6, <1>10
    <2>. QED  BY <1>6, <1>8, <1>10, <2>1, <2>2
<1>12. QueueCounted(jobs', queued')
    <2>1. Weight(job) \in Nat
        BY <1>6, <1>8
    <2>. HIDE DEF job
    <2>2. QueueCounted(Append(jobs, job), queued + Weight(job))
        BY <1>8, <1>9, <1>11, <2>1, QueueAppend
    <2>. QED  BY <1>2, <1>11, <2>2
<1>. HIDE DEF job
<1>13. /\ jobs' \in Seq(Jobs) /\ Len(jobs') = Len(jobs) + 1 /\ Len(jobs) \in Nat
       /\ jobs'[Len(jobs) + 1] = job /\ \A i \in 1 .. Len(jobs) : jobs'[i] = jobs[i]
    BY <1>2, <1>8, <1>9
<1>14. \A i \in 1 .. Len(jobs') : \/ i \in 1 .. Len(jobs) /\ jobs'[i] = jobs[i]
                                 \/ jobs'[i] = job
    BY <1>13
<1>15. SizesOK' /\ PoolOK'
    <2>1. {base', reserved', fresh', lost'} \subseteq BOOLEAN
        BY <1>3, <1>4
    <2>2. PoolOK'
        BY <1>1, <1>3 DEF PoolOK
    <2>. QED  BY <1>2, <1>3, <1>4, <2>1, <2>2 DEF SizesOK
<1>16. HostCallOK'
    <2>1. Up(hcall'.size) <= hcall'.done
        BY <1>4, <1>5, <1>6, <1>7
    <2>. QED  BY <1>2, <1>3, <1>4, <1>7, <2>1 DEF HostCallOK
<1>17. QueueOK'
    <2>1. pending' = Len(jobs')
        BY <1>2, <1>9, <1>13
    <2>2. \A i \in 1 .. Len(jobs') : jobs'[i].lo < jobs'[i].hi
        BY <1>8, <1>9, <1>14
    <2>3. \A i \in 1 .. Len(jobs') :
             jobs'[i].release => ~base' /\ jobs'[i].lo = 0 /\ jobs'[i].hi = Reserved
        BY <1>3, <1>8, <1>9, <1>14
    <2>. QED  BY <1>3, <1>4, <1>12, <1>13, <2>1, <2>2, <2>3 DEF QueueOK
<1>18. SystemOK'
    BY <1>1, <1>3, <1>4 DEF SystemOK
<1>19. HeldOK' /\ GrowthOK'
    BY <1>1, <1>2, <1>3, <1>7 DEF HeldOK, GrowthOK
<1>20. WarmOK'
    <2>1. Live' = Live
        BY <1>2, <1>3, <1>7 DEF Live
    <2>2. Sound' = Sound
        BY <1>3, <1>7 DEF Sound
    <2>3. Coming' = Coming
        BY <1>3 DEF Coming
    <2>4. SUFFICES ASSUME Sound
                   PROVE  /\ Pages(0, Live) \subseteq backed
                          /\ Pages(0, Live) \subseteq touched \cup Coming
                          /\ \A r \in held : Pages(r[1], r[2]) \subseteq touched
                          /\ \A i \in 1 .. Len(jobs') : Live <= jobs'[i].lo
        BY <1>3, <2>1, <2>2, <2>3 DEF WarmOK
    <2>5. /\ Pages(0, Live) \subseteq backed
          /\ Pages(0, Live) \subseteq touched \cup Coming
          /\ \A r \in held : Pages(r[1], r[2]) \subseteq touched
          /\ \A i \in 1 .. Len(jobs) : Live <= jobs[i].lo
        BY <1>1, <2>4 DEF WarmOK
    <2>6. \A i \in 1 .. Len(jobs') : Live <= jobs'[i].lo
        <3>1. Live <= job.lo
            BY <1>4, <1>8
        <3>. QED  BY <1>14, <2>5, <3>1
    <2>. QED  BY <2>5, <2>6
<1>. QED  BY <1>15, <1>16, <1>17, <1>18, <1>19, <1>20 DEF HostInvariant

\* A part cannot be queued.
LEMMA QueueFailsKeeps ==
    ASSUME HostInvariant, QueueFails
    PROVE  HostInvariant'
<1>1. SizesOK /\ HostCallOK /\ QueueOK /\ SystemOK /\ PoolOK /\ HeldOK /\ GrowthOK /\ WarmOK
    BY DEF HostInvariant
<1>2. /\ pc = "decommit" /\ lost' = TRUE
      /\ \/ hcall.name = "free" /\ pc' = "destroy" /\ UNCHANGED hcall
         \/ hcall.name # "free" /\ pc' = "idle" /\ hcall' = NoHostCall
      /\ UNCHANGED <<fields, system, queue, prewarm, held, fresh>>
    BY DEF QueueFails, Truncated, Return
<1>3. /\ UNCHANGED <<base, size, committed_size, last_chunk_size, reserved, backed, touched>>
      /\ UNCHANGED <<jobs, queued, pending, warm, helpers, busy, todo, held, fresh>>
    BY <1>2 DEF fields, system, queue, prewarm
<1>4. SizesOK'
    <2>1. /\ {base, reserved, fresh} \subseteq BOOLEAN /\ ~fresh
        BY <1>2, DecommitFacts
    <2>2. {base', reserved', fresh', lost'} \subseteq BOOLEAN /\ ~fresh'
        BY <1>2, <1>3, <2>1
    <2>. QED  BY <1>1, <1>3, <2>2 DEF SizesOK
<1>5. HostCallOK'
    <2>1. lost'
        BY <1>2
    <2>2. CASE hcall.name = "free" /\ pc' = "destroy" /\ UNCHANGED hcall
        BY <2>1, <2>2 DEF HostCallOK
    <2>3. CASE hcall.name # "free" /\ pc' = "idle" /\ hcall' = NoHostCall
        BY <2>3 DEF HostCallOK
    <2>. QED  BY <1>2, <2>2, <2>3
<1>6. QueueOK' /\ SystemOK' /\ PoolOK'
    BY <1>1, <1>2, <1>3, QueueStays, SystemStays, PoolStays
<1>7. HeldOK' /\ GrowthOK'
    <2>1. hcall'.name = "free" => hcall.name = "free"
        BY <1>2 DEF NoHostCall
    <2>. QED  BY <1>1, <1>2, <1>3, <2>1 DEF HeldOK, GrowthOK
<1>8. WarmOK'
    BY <1>2 DEF WarmOK, Sound
<1>. QED  BY <1>4, <1>5, <1>6, <1>7, <1>8 DEF HostInvariant

\* What a finished truncation leaves of the fields.
LEMMA TruncatedFacts ==
    ASSUME HostInvariant, pc = "decommit", hcall.done >= committed_size
    PROVE  /\ hcall.size \in Nat /\ hcall.size <= Up(hcall.size) /\ hcall.size < size
           /\ Up(hcall.size) \in 0 .. committed_size
           /\ Lower(committed_size, Up(hcall.size)) = Up(hcall.size)
           /\ 0 < Reserved
<1>1. /\ hcall \in [name : {"truncate", "free"}, size : 0 .. size - 1, done : 0 .. committed_size]
      /\ committed_size \in 0 .. Reserved /\ size \in 0 .. committed_size /\ Reserved \in Nat
      /\ Up(hcall.size) \in Nat /\ Up(hcall.size) <= hcall.done
    BY DecommitFacts
<1>2. hcall.size \in Nat /\ hcall.size < size
    BY <1>1
<1>3. hcall.size <= Up(hcall.size)
    BY <1>2, RoundingKeeps
<1>4. Up(hcall.size) <= committed_size
    BY <1>1
<1>. QED  BY <1>1, <1>2, <1>3, <1>4 DEF Lower

\* The release of the reservation cannot be queued.
LEMMA ReleaseFailsKeeps ==
    ASSUME HostInvariant, ReleaseFails
    PROVE  HostInvariant'
<1>1. SizesOK /\ HostCallOK /\ QueueOK /\ SystemOK /\ PoolOK /\ HeldOK /\ GrowthOK /\ WarmOK
    BY DEF HostInvariant
<1>2. /\ pc = "decommit" /\ hcall.done >= committed_size /\ hcall.size = 0
      /\ size' = 0 /\ committed_size' = 0 /\ lost' = TRUE
      /\ \/ hcall.name = "free" /\ pc' = "destroy" /\ UNCHANGED hcall
         \/ hcall.name # "free" /\ pc' = "idle" /\ hcall' = NoHostCall
      /\ UNCHANGED <<base, last_chunk_size, system, queue, prewarm, held, fresh>>
    BY DEF ReleaseFails, Truncated, Return
<1>3. /\ UNCHANGED <<reserved, backed, touched, jobs, queued, pending, warm, helpers, busy, todo>>
    BY <1>2 DEF system, queue, prewarm
<1>4. /\ {base, reserved, fresh} \subseteq BOOLEAN /\ ~fresh /\ base /\ busy = {}
      /\ last_chunk_size \in 0 .. Reserved /\ Reserved \in Nat
    BY <1>2, DecommitFacts
<1>5. SizesOK'
    <2>1. {base', reserved', fresh', lost'} \subseteq BOOLEAN /\ ~fresh'
        BY <1>2, <1>3, <1>4
    <2>2. 0 % PageUnits = 0
        BY HostBufferAssumption
    <2>3. committed_size' \in 0 .. Reserved /\ size' \in 0 .. committed_size' /\ last_chunk_size' \in 0 .. Reserved
        BY <1>2, <1>4
    <2>. QED  BY <1>2, <2>1, <2>2, <2>3 DEF SizesOK
<1>6. HostCallOK'
    <2>1. lost'
        BY <1>2
    <2>2. CASE hcall.name = "free" /\ pc' = "destroy" /\ UNCHANGED hcall
        BY <2>1, <2>2 DEF HostCallOK
    <2>3. CASE hcall.name # "free" /\ pc' = "idle" /\ hcall' = NoHostCall
        BY <2>3 DEF HostCallOK
    <2>. QED  BY <1>2, <2>2, <2>3
<1>7. QueueOK'
    BY <1>1, <1>2, <1>3, QueueStays
<1>8. SystemOK'
    <2>1. base' /\ reserved' /\ backed' \subseteq AllPages
        BY <1>1, <1>2, <1>3, <1>4 DEF SystemOK
    <2>. QED  BY <2>1 DEF SystemOK
<1>9. PoolOK'
    BY <1>1, <1>2, <1>3, <1>4, PoolStays
<1>10. HeldOK' /\ GrowthOK'
    <2>1. hcall'.name = "free" => hcall.name = "free"
        BY <1>2 DEF NoHostCall
    <2>2. \A r \in held : r[2] <= 0
        BY <1>1, <1>2 DEF HeldOK
    <2>3. pc' \notin {"truncate", "decommit", "warm"}
        BY <1>2
    <2>. QED  BY <1>1, <1>2, <2>1, <2>2, <2>3 DEF HeldOK, GrowthOK
<1>11. WarmOK'
    BY <1>2 DEF WarmOK, Sound
<1>. QED  BY <1>5, <1>6, <1>7, <1>8, <1>9, <1>10, <1>11 DEF HostInvariant

\* The whole tail is queued.
LEMMA TruncateEndKeeps ==
    ASSUME HostInvariant, TruncateEnd
    PROVE  HostInvariant'
<1>1. SizesOK /\ HostCallOK /\ QueueOK /\ SystemOK /\ PoolOK /\ HeldOK /\ GrowthOK /\ WarmOK
    BY DEF HostInvariant
<1>. DEFINE job == [lo |-> 0, hi |-> Reserved, release |-> TRUE]
<1>2. /\ pc = "decommit" /\ hcall.done >= committed_size
      /\ size' = hcall.size /\ committed_size' = Lower(committed_size, Up(hcall.size))
      /\ \/ /\ hcall.size = 0 /\ base' = FALSE /\ jobs' = Append(jobs, job)
            /\ pending' = pending + 1 /\ queued' = queued
         \/ /\ hcall.size # 0 /\ UNCHANGED <<queue, base>>
      /\ \/ hcall.name = "free" /\ pc' = "destroy" /\ UNCHANGED hcall
         \/ hcall.name # "free" /\ pc' = "idle" /\ hcall' = NoHostCall
      /\ UNCHANGED <<last_chunk_size, system, prewarm, caller, faults>>
    BY DEF TruncateEnd, Truncated, Return, Queue
<1>3. /\ UNCHANGED <<last_chunk_size, reserved, backed, touched>>
      /\ UNCHANGED <<warm, helpers, busy, todo, held, fresh, lost>>
    BY <1>2 DEF system, prewarm, caller
<1>4. /\ hcall \in [name : {"truncate", "free"}, size : 0 .. size - 1, done : 0 .. committed_size]
      /\ ~fresh /\ (hcall.name = "free" => hcall.size = 0) /\ busy = {}
      /\ committed_size \in 0 .. Reserved /\ size \in 0 .. committed_size
      /\ last_chunk_size \in 0 .. Reserved
      /\ {base, reserved, fresh, lost} \subseteq BOOLEAN /\ Reserved \in Nat
      /\ Up(hcall.size) % PageUnits = 0 /\ Live = Up(hcall.size) /\ base
    BY <1>2, DecommitFacts
<1>5. /\ hcall.size \in Nat /\ hcall.size <= Up(hcall.size) /\ hcall.size < size
      /\ Up(hcall.size) \in 0 .. committed_size /\ committed_size' = Up(hcall.size)
      /\ 0 < Reserved
    BY <1>2, TruncatedFacts
<1>6. Up(0) = 0
    <2>1. 0 % PageUnits = 0
        BY HostBufferAssumption
    <2>. QED  BY <2>1, RoundingKeeps
<1>7. /\ jobs \in Seq(Jobs) /\ pending = Len(jobs) /\ QueueCounted(jobs, queued)
      /\ \A i \in 1 .. Len(jobs) : jobs[i].lo < jobs[i].hi
      /\ \A i \in 1 .. Len(jobs) :
            jobs[i].release => ~base /\ jobs[i].lo = 0 /\ jobs[i].hi = Reserved
    BY <1>1 DEF QueueOK
<1>8. SizesOK'
    <2>1. base' \in BOOLEAN
        BY <1>2, <1>4
    <2>2. {base', reserved', fresh', lost'} \subseteq BOOLEAN /\ ~fresh'
        BY <1>3, <1>4, <2>1
    <2>3. /\ committed_size' \in 0 .. Reserved /\ size' \in 0 .. committed_size'
          /\ last_chunk_size' \in 0 .. Reserved
        BY <1>2, <1>3, <1>4, <1>5
    <2>4. committed_size' % PageUnits = 0
        BY <1>4, <1>5
    <2>. QED  BY <2>2, <2>3, <2>4 DEF SizesOK
<1>9. HostCallOK'
    <2>1. CASE hcall.name = "free" /\ pc' = "destroy" /\ UNCHANGED hcall
        <3>1. ~base'
            BY <1>2, <1>4, <2>1
        <3>. QED  BY <2>1, <3>1 DEF HostCallOK
    <2>2. CASE hcall.name # "free" /\ pc' = "idle" /\ hcall' = NoHostCall
        BY <2>2 DEF HostCallOK
    <2>. QED  BY <1>2, <2>1, <2>2
<1>10. QueueOK' /\ SystemOK' /\ (Sound => \A i \in 1 .. Len(jobs') : Live <= jobs'[i].lo)
    <2>1. reserved /\ backed \subseteq AllPages
        BY <1>1, <1>4 DEF SystemOK
    <2>2. Sound => \A i \in 1 .. Len(jobs) : Live <= jobs[i].lo
        BY <1>1 DEF WarmOK
    <2>3. CASE hcall.size # 0
        <3>1. UNCHANGED <<jobs, queued, pending, base>>
            BY <1>2, <2>3 DEF queue
        <3>2. QueueOK'
            BY <1>1, <1>3, <3>1, QueueStays DEF queue
        <3>3. SystemOK'
            BY <1>3, <1>4, <2>1, <3>1 DEF SystemOK
        <3>. QED  BY <2>2, <3>1, <3>2, <3>3
    <2>4. CASE hcall.size = 0
        <3>1. /\ base' = FALSE /\ jobs' = Append(jobs, job)
              /\ pending' = pending + 1 /\ queued' = queued
            BY <1>2, <2>4
        <3>2. job \in Jobs /\ job.lo < job.hi /\ Weight(job) = 0
              /\ job.lo = 0 /\ job.hi = Reserved /\ job.release
            BY <1>4, <1>5 DEF Jobs, Weight
        <3>. HIDE DEF job
        <3>3. queued \in 0 .. QueueLimit
            <4>1. PICK acc \in [0 .. Len(jobs) -> 0 .. QueueLimit] : acc[Len(jobs)] = queued
                BY <1>7 DEF QueueCounted
            <4>2. Len(jobs) \in 0 .. Len(jobs)
                BY <1>7
            <4>. QED  BY <4>1, <4>2
        <3>4. queued + Weight(job) = queued /\ Weight(job) \in Nat
              /\ queued + Weight(job) \in 0 .. QueueLimit
            <4>1. QueueLimit \in Nat
                BY HostBufferAssumption
            <4>. QED  BY <3>2, <3>3, <4>1
        <3>5. QueueCounted(Append(jobs, job), queued + Weight(job))
            BY <1>7, <3>2, <3>4, QueueAppend
        <3>6. QueueCounted(jobs', queued')
            BY <3>1, <3>4, <3>5
        <3>7. /\ jobs' \in Seq(Jobs) /\ Len(jobs') = Len(jobs) + 1 /\ Len(jobs) \in Nat
              /\ jobs'[Len(jobs) + 1] = job /\ \A i \in 1 .. Len(jobs) : jobs'[i] = jobs[i]
            BY <1>7, <3>1, <3>2
        <3>8. \A i \in 1 .. Len(jobs') : \/ i \in 1 .. Len(jobs) /\ jobs'[i] = jobs[i]
                                        \/ jobs'[i] = job
            BY <3>7
        <3>9. QueueOK'
            <4>1. pending' = Len(jobs')
                BY <1>7, <3>1, <3>7
            <4>2. \A i \in 1 .. Len(jobs') : jobs'[i].lo < jobs'[i].hi
                BY <1>7, <3>2, <3>8
            <4>3. \A i \in 1 .. Len(jobs') :
                     jobs'[i].release => ~base' /\ jobs'[i].lo = 0 /\ jobs'[i].hi = Reserved
                BY <1>7, <3>1, <3>2, <3>8
            <4>. QED  BY <1>3, <1>4, <3>6, <3>7, <4>1, <4>2, <4>3 DEF QueueOK
        <3>10. SystemOK'
            <4>1. committed_size' = 0 /\ jobs' # <<>> /\ jobs'[Len(jobs')].release
                BY <1>5, <1>6, <2>4, <3>2, <3>7
            <4>. QED  BY <1>3, <2>1, <3>1, <4>1 DEF SystemOK
        <3>11. Sound => \A i \in 1 .. Len(jobs') : Live <= jobs'[i].lo
            <4>1. Live = 0
                BY <1>4, <1>6, <2>4
            <4>2. Live <= job.lo
                BY <3>2, <4>1
            <4>. QED  BY <2>2, <3>8, <4>2
        <3>. QED  BY <3>9, <3>10, <3>11
    <2>. QED  BY <2>3, <2>4
<1>11. PoolOK'
    BY <1>1, <1>3, <1>4 DEF PoolOK
<1>12. HeldOK' /\ GrowthOK'
    <2>1. hcall'.name = "free" => hcall.name = "free"
        BY <1>2 DEF NoHostCall
    <2>2. \A r \in held : r[2] <= hcall.size
        BY <1>1, <1>2 DEF HeldOK
    <2>3. pc' \notin {"truncate", "decommit", "warm"}
        BY <1>2
    <2>. QED  BY <1>1, <1>2, <1>3, <2>1, <2>2, <2>3 DEF HeldOK, GrowthOK
<1>13. WarmOK'
    <2>1. Live' = Live
        BY <1>2, <1>4, <1>5 DEF Live
    <2>2. Sound' => Sound
        BY <1>2, <1>3 DEF Sound
    <2>3. Coming' = Coming
        BY <1>3 DEF Coming
    <2>. QED  BY <1>1, <1>3, <1>10, <2>1, <2>2, <2>3 DEF WarmOK
<1>. QED  BY <1>8, <1>9, <1>10, <1>11, <1>12, <1>13 DEF HostInvariant

\* The queue is empty, and the buffer is gone.
LEMMA DestroyBufferKeeps ==
    ASSUME HostInvariant, DestroyBuffer
    PROVE  HostInvariant'
<1>1. SizesOK /\ HostCallOK /\ QueueOK /\ SystemOK /\ PoolOK /\ HeldOK /\ GrowthOK /\ WarmOK
    BY DEF HostInvariant
<1>2. /\ pc = "destroy" /\ pending = 0 /\ pc' = "gone"
      /\ UNCHANGED <<fields, system, queue, prewarm, caller, hcall, faults>>
    BY DEF DestroyBuffer
<1>3. /\ UNCHANGED <<base, size, committed_size, last_chunk_size, reserved, backed, touched>>
      /\ UNCHANGED <<jobs, queued, pending, warm, helpers, busy, todo, held, fresh, lost, hcall>>
    BY <1>2 DEF fields, system, queue, prewarm, caller
<1>4. jobs = <<>>
    <2>1. jobs \in Seq(Jobs) /\ Len(jobs) = 0
        BY <1>1, <1>2 DEF QueueOK
    <2>. QED  BY <2>1, EmptyIs
<1>5. hcall.name = "free" /\ (base => lost)
    BY <1>1, <1>2 DEF HostCallOK
<1>6. SizesOK' /\ HeldOK' /\ GrowthOK'
    BY <1>1, <1>2, <1>3 DEF SizesOK, HeldOK, GrowthOK
<1>7. HostCallOK'
    BY <1>2, <1>3, <1>4, <1>5 DEF HostCallOK
<1>8. QueueOK' /\ SystemOK' /\ PoolOK'
    BY <1>1, <1>2, <1>3, QueueStays, SystemStays, PoolStays
<1>9. WarmOK'
    BY <1>3, <1>5 DEF WarmOK, Sound
<1>. QED  BY <1>6, <1>7, <1>8, <1>9 DEF HostInvariant

\* Another buffer is made.
LEMMA AllocateKeeps ==
    ASSUME HostInvariant, Allocate
    PROVE  HostInvariant'
<1>1. SizesOK /\ HostCallOK /\ QueueOK /\ SystemOK /\ PoolOK /\ HeldOK /\ GrowthOK /\ WarmOK
    BY DEF HostInvariant
<1>2. /\ pc = "gone" /\ ~lost /\ base' = FALSE /\ size' = 0 /\ committed_size' = 0
      /\ last_chunk_size' = 0 /\ pc' = "idle" /\ hcall' = NoHostCall
      /\ UNCHANGED <<system, queue, prewarm, caller, faults>>
    BY DEF Allocate, Return
<1>3. /\ UNCHANGED <<reserved, backed, touched, jobs, queued, pending, warm, helpers, busy, todo>>
      /\ UNCHANGED <<held, fresh, lost>>
    BY <1>2 DEF system, queue, prewarm, caller
<1>4. hcall.name = "free" /\ ~base /\ jobs = <<>>
    BY <1>1, <1>2 DEF HostCallOK
<1>5. held = {}
    BY <1>1, <1>4 DEF HeldOK
<1>6. ~reserved /\ backed = {}
    BY <1>1, <1>4 DEF SystemOK
<1>7. /\ {reserved, fresh, lost} \subseteq BOOLEAN /\ size \in Nat /\ base \in BOOLEAN /\ Reserved \in Nat
    <2>1. Reserved \in Nat
        BY HostBufferAssumption
    <2>. QED  BY <1>1, <2>1 DEF SizesOK
<1>8. 0 % PageUnits = 0
    BY HostBufferAssumption
<1>9. SizesOK'
    <2>1. {base', reserved', fresh', lost'} \subseteq BOOLEAN
        BY <1>2, <1>3, <1>7
    <2>2. /\ committed_size' \in 0 .. Reserved /\ size' \in 0 .. committed_size'
          /\ last_chunk_size' \in 0 .. Reserved /\ last_chunk_size' <= size'
        BY <1>2, <1>7
    <2>. QED  BY <1>2, <1>8, <2>1, <2>2 DEF SizesOK
<1>10. HostCallOK'
    BY <1>2 DEF HostCallOK
<1>11. QueueOK'
    <2>1. base' = base
        BY <1>2, <1>4, <1>7
    <2>. QED  BY <1>1, <1>2, <1>3, <2>1, QueueStays
<1>12. SystemOK'
    BY <1>2, <1>3, <1>4, <1>6, Zenon DEF SystemOK
<1>13. PoolOK'
    <2>1. warm \in BOOLEAN /\ helpers \in 0 .. Helpers
        BY <1>1 DEF PoolOK
    <2>2. size' \in 0 .. size
        BY <1>2, <1>7
    <2>. QED  BY <1>1, <1>3, <1>7, <2>1, <2>2, PoolShrinks
<1>14. HeldOK' /\ GrowthOK'
    BY <1>2, <1>3, <1>5 DEF HeldOK, GrowthOK
<1>15. WarmOK'
    <2>1. Live' = 0
        BY <1>2 DEF Live
    <2>2. Pages(0, 0) = {}
        BY <1>8, PagesLie
    <2>3. Len(jobs) = 0
        BY <1>4
    <2>. QED  BY <1>3, <1>4, <1>5, <2>1, <2>2, <2>3 DEF WarmOK
<1>. QED  BY <1>9, <1>10, <1>11, <1>12, <1>13, <1>14, <1>15 DEF HostInvariant

-----------------------------------------------------------------------------
(* The threads.                                                              *)

\* What the caller holds lies in what is committed for good, which ends at a page.
LEMMA HeldIsLive ==
    ASSUME HostInvariant
    PROVE  /\ Live \in Nat /\ Live % PageUnits = 0
           /\ \A r \in held : Pages(r[1], r[2]) \subseteq Pages(0, Live)
<1>1. SizesOK /\ HeldOK
    BY DEF HostInvariant
<1>2. Reserved \in Nat
    BY HostBufferAssumption
<1>3. /\ committed_size \in Nat /\ committed_size % PageUnits = 0
      /\ size \in Nat /\ size <= committed_size
    BY <1>1, <1>2 DEF SizesOK
<1>4. /\ held \subseteq Nat \X Nat
      /\ \A r \in held : /\ r[2] <= size
                         /\ pc \in {"truncate", "decommit"} => r[2] <= hcall.size
    BY <1>1 DEF HeldOK
<1>5. /\ Live \in Nat /\ Live % PageUnits = 0 /\ \A r \in held : r[2] <= Live
    <2>1. CASE pc = "decommit"
        <3>1. /\ hcall \in [name : {"truncate", "free"}, size : 0 .. size - 1, done : 0 .. committed_size]
              /\ Up(hcall.size) \in Nat /\ Up(hcall.size) % PageUnits = 0 /\ Live = Up(hcall.size)
            BY <2>1, DecommitFacts
        <3>2. hcall.size \in Nat
            BY <1>3, <3>1
        <3>3. hcall.size <= Up(hcall.size)
            BY <3>2, RoundingKeeps
        <3>4. ASSUME NEW r \in held PROVE r[2] <= Live
            <4>1. r[2] \in Nat /\ r[2] <= hcall.size
                BY <1>4, <2>1
            <4>. QED  BY <3>1, <3>2, <3>3, <4>1
        <3>. QED  BY <3>1, <3>4
    <2>2. CASE pc # "decommit"
        <3>1. Live = committed_size
            BY <2>2 DEF Live
        <3>2. ASSUME NEW r \in held PROVE r[2] <= Live
            <4>1. r[2] \in Nat /\ r[2] <= size
                BY <1>4
            <4>. QED  BY <1>3, <3>1, <4>1
        <3>. QED  BY <1>3, <3>1, <3>2
    <2>. QED  BY <2>1, <2>2
<1>6. ASSUME NEW r \in held PROVE Pages(r[1], r[2]) \subseteq Pages(0, Live)
    <2>1. r[1] \in Nat /\ r[2] \in Nat /\ r[2] <= Live
        BY <1>4, <1>5
    <2>2. Pages(r[1], r[2]) \subseteq Pages(0, r[2])
        BY <2>1, PagesLie
    <2>3. Pages(0, r[2]) \subseteq Pages(0, Live)
        BY <1>5, <2>1, PagesLie
    <2>. QED  BY <2>2, <2>3
<1>. QED  BY <1>5, <1>6

\* The worker does a job: it takes away nothing that is in use.
LEMMA DecommitKeeps ==
    ASSUME HostInvariant, Decommit
    PROVE  HostInvariant'
<1>1. SizesOK /\ HostCallOK /\ QueueOK /\ SystemOK /\ PoolOK /\ HeldOK /\ GrowthOK /\ WarmOK
    BY DEF HostInvariant
<1>. DEFINE job == Head(jobs)
<1>2. /\ jobs # <<>> /\ reserved' = (reserved /\ ~job.release)
      /\ backed' = backed \ Pages(job.lo, job.hi) /\ touched' = touched \ Pages(job.lo, job.hi)
      /\ queued' = (IF job.release THEN queued ELSE queued - (job.hi - job.lo))
      /\ jobs' = Tail(jobs) /\ pending' = pending - 1
      /\ UNCHANGED <<fields, prewarm, caller, pc, hcall, faults>>
    BY DEF Decommit
<1>3. /\ UNCHANGED <<base, size, committed_size, last_chunk_size, pc, hcall>>
      /\ UNCHANGED <<warm, helpers, busy, todo, held, fresh, lost>>
    BY <1>2 DEF fields, prewarm, caller
<1>4. /\ jobs \in Seq(Jobs) /\ pending = Len(jobs) /\ QueueCounted(jobs, queued) /\ busy = {}
      /\ \A i \in 1 .. Len(jobs) : jobs[i].lo < jobs[i].hi
      /\ \A i \in 1 .. Len(jobs) :
            jobs[i].release => ~base /\ jobs[i].lo = 0 /\ jobs[i].hi = Reserved
    BY <1>1, <1>2 DEF QueueOK
<1>5. /\ Len(jobs) \in Nat \ {0} /\ job = jobs[1] /\ job \in Jobs
      /\ jobs' \in Seq(Jobs) /\ Len(jobs') = Len(jobs) - 1
      /\ \A i \in 1 .. Len(jobs) - 1 : jobs'[i] = jobs[i + 1] /\ i + 1 \in 1 .. Len(jobs)
    BY <1>2, <1>4
<1>6. job.lo \in Nat /\ job.hi \in Nat /\ job.release \in BOOLEAN /\ job.lo < job.hi
    <2>1. Reserved \in Nat /\ 1 \in 1 .. Len(jobs)
        BY <1>5, HostBufferAssumption
    <2>. QED  BY <1>4, <1>5, <2>1 DEF Jobs
<1>7. queued' = queued - Weight(job)
    <2>1. CASE job.release
        <3>1. PICK acc \in [0 .. Len(jobs) -> 0 .. QueueLimit] : acc[Len(jobs)] = queued
            BY <1>4 DEF QueueCounted
        <3>2. Len(jobs) \in 0 .. Len(jobs) /\ QueueLimit \in Nat
            BY <1>5, HostBufferAssumption
        <3>3. queued \in Int
            BY <3>1, <3>2
        <3>. QED  BY <1>2, <2>1, <3>3 DEF Weight
    <2>2. CASE ~job.release
        BY <1>2, <2>2 DEF Weight
    <2>. QED  BY <2>1, <2>2
<1>8. QueueCounted(jobs', queued')
    BY <1>2, <1>4, <1>7, QueueTail
<1>. HIDE DEF job
<1>9. SizesOK'
    <2>1. {base, reserved, fresh, lost} \subseteq BOOLEAN
        BY <1>1 DEF SizesOK
    <2>2. reserved' \in BOOLEAN
        BY <1>2, <1>6, <2>1
    <2>3. {base', reserved', fresh', lost'} \subseteq BOOLEAN
        BY <1>3, <2>1, <2>2
    <2>. QED  BY <1>1, <1>3, <2>3 DEF SizesOK
<1>10. HostCallOK'
    <2>1. pc \notin {"grow", "warm", "gone"}
        BY <1>1, <1>2 DEF HostCallOK
    <2>. QED  BY <1>1, <1>3, <2>1 DEF HostCallOK
<1>11. QueueOK'
    <2>1. pending' = Len(jobs')
        BY <1>2, <1>4, <1>5
    <2>2. \A i \in 1 .. Len(jobs') : jobs'[i].lo < jobs'[i].hi
        BY <1>4, <1>5
    <2>3. \A i \in 1 .. Len(jobs') :
             jobs'[i].release => ~base' /\ jobs'[i].lo = 0 /\ jobs'[i].hi = Reserved
        BY <1>3, <1>4, <1>5
    <2>. QED  BY <1>3, <1>4, <1>5, <1>8, <2>1, <2>2, <2>3 DEF QueueOK
<1>12. SystemOK'
    <2>1. /\ backed \subseteq AllPages /\ (base => reserved)
          /\ (~base => committed_size = 0 /\ jobs[Len(jobs)].release)
        BY <1>1, <1>2 DEF SystemOK
    <2>2. backed' \subseteq AllPages
        BY <1>2, <2>1
    <2>3. job.release => ~base /\ job.lo = 0 /\ job.hi = Reserved
        <3>1. 1 \in 1 .. Len(jobs)
            BY <1>5
        <3>. QED  BY <1>4, <1>5, <3>1
    <2>4. base' => reserved'
        BY <1>2, <1>3, <2>1, <2>3
    <2>5. ASSUME ~base', jobs' = <<>> PROVE ~reserved' /\ backed' = {}
        <3>1. Len(jobs) = 1
            BY <1>5, <2>5
        <3>2. job.release
            BY <1>3, <1>5, <2>1, <2>5, <3>1
        <3>3. backed' = backed \ AllPages
            BY <1>2, <2>3, <3>2 DEF AllPages
        <3>. QED  BY <1>2, <2>1, <3>2, <3>3
    <2>6. ASSUME ~base', jobs' # <<>> PROVE jobs'[Len(jobs')].release
        <3>1. Len(jobs') # 0
            BY <1>5, <2>6, EmptyIs
        <3>2. jobs'[Len(jobs')] = jobs[Len(jobs)]
            <4>1. Len(jobs) - 1 \in 1 .. Len(jobs) - 1 /\ (Len(jobs) - 1) + 1 = Len(jobs)
                BY <1>5, <3>1
            <4>. QED  BY <1>5, <4>1
        <3>. QED  BY <1>3, <2>1, <2>6, <3>2
    <2>7. ~base' => committed_size' = 0
        BY <1>3, <2>1
    <2>. QED  BY <2>2, <2>4, <2>5, <2>6, <2>7 DEF SystemOK
<1>13. PoolOK'
    BY <1>1, <1>3, <1>4 DEF PoolOK
<1>14. HeldOK'
    BY <1>1, <1>3 DEF HeldOK
<1>15. GrowthOK'
    <2>1. pc # "warm"
        BY <1>1, <1>2 DEF HostCallOK
    <2>. QED  BY <1>3, <2>1 DEF GrowthOK
<1>16. WarmOK'
    <2>1. Live' = Live
        BY <1>3 DEF Live
    <2>2. Sound' = Sound
        BY <1>3 DEF Sound
    <2>3. Coming' = {}
        BY <1>3, <1>4 DEF Coming
    <2>4. SUFFICES ASSUME Sound
                   PROVE  /\ Pages(0, Live) \subseteq backed'
                          /\ Pages(0, Live) \subseteq touched'
                          /\ \A r \in held : Pages(r[1], r[2]) \subseteq touched'
                          /\ \A i \in 1 .. Len(jobs') : Live <= jobs'[i].lo
        BY <1>3, <2>1, <2>2, <2>3 DEF WarmOK
    <2>5. /\ Pages(0, Live) \subseteq backed
          /\ Pages(0, Live) \subseteq touched
          /\ \A r \in held : Pages(r[1], r[2]) \subseteq touched
          /\ \A i \in 1 .. Len(jobs) : Live <= jobs[i].lo
        <3>1. Coming = {}
            BY <1>4, ComingNone
        <3>. QED  BY <1>1, <2>4, <3>1 DEF WarmOK
    <2>6. /\ Live \in Nat /\ Live % PageUnits = 0
          /\ \A r \in held : Pages(r[1], r[2]) \subseteq Pages(0, Live)
        BY HeldIsLive
    <2>7. Pages(0, Live) \cap Pages(job.lo, job.hi) = {}
        <3>1. Live <= job.lo
            <4>1. 1 \in 1 .. Len(jobs)
                BY <1>5
            <4>. QED  BY <1>5, <2>5, <4>1
        <3>2. Pages(job.lo, job.hi) \subseteq Pages(Live, job.hi)
            BY <1>6, <2>6, <3>1, PagesLie
        <3>3. Pages(0, Live) \cap Pages(Live, job.hi) = {}
            BY <1>6, <2>6, PagesLie
        <3>. QED  BY <3>2, <3>3
    <2>8. Pages(0, Live) \subseteq backed' /\ Pages(0, Live) \subseteq touched'
        BY <1>2, <2>5, <2>7
    <2>9. \A r \in held : Pages(r[1], r[2]) \subseteq touched'
        BY <2>6, <2>8
    <2>10. \A i \in 1 .. Len(jobs') : Live <= jobs'[i].lo
        BY <1>5, <2>5
    <2>. QED  BY <2>8, <2>9, <2>10
<1>. QED  BY <1>9, <1>10, <1>11, <1>12, <1>13, <1>14, <1>15, <1>16 DEF HostInvariant

\* A thread of the pool touches a page.
LEMMA TouchKeeps ==
    ASSUME HostInvariant, NEW i \in 1 .. Helpers, Touch(i)
    PROVE  HostInvariant'
<1>1. SizesOK /\ HostCallOK /\ QueueOK /\ SystemOK /\ PoolOK /\ HeldOK /\ GrowthOK /\ WarmOK
    BY DEF HostInvariant
<1>2. PICK u \in todo[i] : /\ todo' = [todo EXCEPT ![i] = @ \ {u}]
                           /\ touched' = touched \cup Pages(u, u + 1)
    BY DEF Touch
<1>3. /\ i \in busy
      /\ UNCHANGED <<fields, reserved, backed, queue, warm, helpers, busy, caller, pc, hcall, faults>>
    BY DEF Touch
<1>4. /\ UNCHANGED <<base, size, committed_size, last_chunk_size, reserved, backed, pc, hcall>>
      /\ UNCHANGED <<jobs, queued, pending, warm, helpers, busy, held, fresh, lost>>
    BY <1>3 DEF fields, queue, caller
<1>5. /\ todo \in [1 .. Helpers -> SUBSET (0 .. Reserved - 1)] /\ u \in Nat
    <2>1. Reserved \in Nat /\ todo \in [1 .. Helpers -> SUBSET (0 .. Reserved - 1)]
        BY <1>1, HostBufferAssumption DEF PoolOK
    <2>. QED  BY <1>2, <2>1
<1>6. /\ todo' \in [1 .. Helpers -> SUBSET (0 .. Reserved - 1)]
      /\ \A j \in 1 .. Helpers : todo'[j] \subseteq todo[j] /\ todo[j] \subseteq todo'[j] \cup {u}
    BY <1>2, <1>5
<1>7. Pages(u, u + 1) = {u \div PageUnits}
    BY <1>5, PagesAre DEF Floor
<1>8. Coming \subseteq Coming' \cup {u \div PageUnits}
    <2>1. busy \subseteq 1 .. Helpers
        BY <1>1 DEF PoolOK
    <2>2. ASSUME NEW p \in Coming PROVE p \in Coming' \cup {u \div PageUnits}
        <3>1. PICK j \in busy : \E v \in todo[j] : p = v \div PageUnits
            BY <2>2 DEF Coming
        <3>2. PICK v \in todo[j] : p = v \div PageUnits
            BY <3>1
        <3>3. CASE v = u
            BY <3>2, <3>3
        <3>4. CASE v # u
            <4>1. v \in todo'[j] /\ j \in busy'
                BY <1>4, <1>6, <2>1, <3>2, <3>4
            <4>. QED  BY <3>2, <4>1 DEF Coming
        <3>. QED  BY <3>3, <3>4
    <2>. QED  BY <2>2
<1>9. touched \cup Coming \subseteq touched' \cup Coming'
    BY <1>2, <1>7, <1>8
<1>10. SizesOK' /\ HostCallOK' /\ SystemOK' /\ HeldOK'
    <2>1. SizesOK' /\ SystemOK' /\ HeldOK'
        BY <1>1, <1>4 DEF SizesOK, SystemOK, HeldOK
    <2>2. Target(End)' = Target(End)
        BY <1>4 DEF Target, End
    <2>3. HostCallOK'
        BY <1>1, <1>4, <2>2 DEF HostCallOK
    <2>. QED  BY <2>1, <2>3
<1>11. QueueOK'
    BY <1>1, <1>4, QueueStays DEF queue
<1>12. PoolOK'
    BY <1>1, <1>4, <1>6 DEF PoolOK
<1>13. GrowthOK'
    <2>1. Target(End)' = Target(End) /\ End' = End
        BY <1>4 DEF Target, End
    <2>2. SUFFICES ASSUME pc = "warm"
                   PROVE  /\ Pages(committed_size, Target(End)) \subseteq backed
                          /\ Pages(committed_size, End) \subseteq touched' \cup Coming'
        BY <1>4, <2>1 DEF GrowthOK
    <2>. QED  BY <1>1, <1>9, <2>2 DEF GrowthOK
<1>14. WarmOK'
    <2>1. Live' = Live /\ Sound' = Sound
        BY <1>4 DEF Live, Sound
    <2>2. SUFFICES ASSUME Sound
                   PROVE  /\ Pages(0, Live) \subseteq backed
                          /\ Pages(0, Live) \subseteq touched' \cup Coming'
                          /\ \A r \in held : Pages(r[1], r[2]) \subseteq touched'
                          /\ \A j \in 1 .. Len(jobs) : Live <= jobs[j].lo
        BY <1>4, <2>1 DEF WarmOK
    <2>3. /\ Pages(0, Live) \subseteq backed
          /\ Pages(0, Live) \subseteq touched \cup Coming
          /\ \A r \in held : Pages(r[1], r[2]) \subseteq touched
          /\ \A j \in 1 .. Len(jobs) : Live <= jobs[j].lo
        BY <1>1, <2>2 DEF WarmOK
    <2>. QED  BY <1>2, <1>9, <2>3
<1>. QED  BY <1>10, <1>11, <1>12, <1>13, <1>14 DEF HostInvariant

\* A thread of the pool is done.
LEMMA EndWorkKeeps ==
    ASSUME HostInvariant, NEW i \in 1 .. Helpers, EndWork(i)
    PROVE  HostInvariant'
<1>1. SizesOK /\ HostCallOK /\ QueueOK /\ SystemOK /\ PoolOK /\ HeldOK /\ GrowthOK /\ WarmOK
    BY DEF HostInvariant
<1>2. /\ i \in busy /\ todo[i] = {} /\ busy' = busy \ {i}
      /\ UNCHANGED <<fields, system, queue, warm, helpers, todo, caller, pc, hcall, faults>>
    BY DEF EndWork
<1>3. /\ UNCHANGED <<base, size, committed_size, last_chunk_size, reserved, backed, touched, pc, hcall>>
      /\ UNCHANGED <<jobs, queued, pending, warm, helpers, todo, held, fresh, lost>>
    BY <1>2 DEF fields, system, queue, caller
<1>4. Coming' = Coming
    <2>1. ASSUME NEW p \in Coming PROVE p \in Coming'
        <3>1. PICK j \in busy : \E v \in todo[j] : p = v \div PageUnits
            BY <2>1 DEF Coming
        <3>2. j # i
            BY <1>2, <3>1
        <3>. QED  BY <1>2, <1>3, <3>1, <3>2 DEF Coming
    <2>2. ASSUME NEW p \in Coming' PROVE p \in Coming
        BY <1>2, <1>3, <2>2 DEF Coming
    <2>. QED  BY <2>1, <2>2
<1>5. jobs = <<>> /\ pc # "decommit"
    BY <1>1, <1>2 DEF QueueOK, HostCallOK
<1>6. SizesOK' /\ HostCallOK' /\ SystemOK' /\ HeldOK'
    <2>1. SizesOK' /\ SystemOK' /\ HeldOK'
        BY <1>1, <1>3 DEF SizesOK, SystemOK, HeldOK
    <2>2. Target(End)' = Target(End)
        BY <1>3 DEF Target, End
    <2>3. HostCallOK'
        BY <1>1, <1>3, <1>5, <2>2 DEF HostCallOK
    <2>. QED  BY <2>1, <2>3
<1>7. QueueOK'
    BY <1>1, <1>3, <1>5, QueueStays DEF queue
<1>8. PoolOK'
    BY <1>1, <1>2, <1>3 DEF PoolOK
<1>9. GrowthOK'
    <2>1. Target(End)' = Target(End) /\ End' = End
        BY <1>3 DEF Target, End
    <2>. QED  BY <1>1, <1>3, <1>4, <2>1 DEF GrowthOK
<1>10. WarmOK'
    <2>1. Live' = Live /\ Sound' = Sound
        BY <1>3 DEF Live, Sound
    <2>. QED  BY <1>1, <1>3, <1>4, <2>1 DEF WarmOK
<1>. QED  BY <1>6, <1>7, <1>8, <1>9, <1>10 DEF HostInvariant

\* Nothing happens.
LEMMA HostStutters ==
    ASSUME HostInvariant, UNCHANGED hostVars
    PROVE  HostInvariant'
<1>1. SizesOK /\ HostCallOK /\ QueueOK /\ SystemOK /\ PoolOK /\ HeldOK /\ GrowthOK /\ WarmOK
    BY DEF HostInvariant
<1>2. /\ UNCHANGED <<base, size, committed_size, last_chunk_size, reserved, backed, touched, pc, hcall>>
      /\ UNCHANGED <<jobs, queued, pending, warm, helpers, busy, todo, held, fresh, lost>>
    BY DEF hostVars, fields, system, queue, prewarm, caller
<1>3. Live' = Live /\ Sound' = Sound /\ Coming' = Coming
    BY <1>2 DEF Live, Sound, Coming
<1>4. Target(End)' = Target(End) /\ End' = End
    BY <1>2 DEF Target, End
<1>5. SizesOK' /\ SystemOK' /\ HeldOK' /\ PoolOK'
    BY <1>1, <1>2 DEF SizesOK, SystemOK, HeldOK, PoolOK
<1>6. HostCallOK'
    BY <1>1, <1>2, <1>4 DEF HostCallOK
<1>7. QueueOK'
    BY <1>1, <1>2, QueueStays DEF queue
<1>8. GrowthOK' /\ WarmOK'
    BY <1>1, <1>2, <1>3, <1>4 DEF GrowthOK, WarmOK
<1>. QED  BY <1>5, <1>6, <1>7, <1>8 DEF HostInvariant

\* Every step keeps the invariant.
LEMMA HostSteps ==
    ASSUME HostInvariant, [HostNext]_hostVars
    PROVE  HostInvariant'
<1>1. CASE UNCHANGED hostVars
    BY <1>1, HostStutters
<1>2. ASSUME NEW n \in Sizes, NEW r \in BOOLEAN, Extend(n, r) PROVE HostInvariant'
    BY <1>2, ExtendKeeps
<1>3. ASSUME NEW n \in Sizes, Truncate(n) PROVE HostInvariant'
    BY <1>3, TruncateKeeps
<1>4. CASE Free
    BY <1>4, FreeBufferKeeps
<1>5. CASE Allocate
    BY <1>5, AllocateKeeps
<1>6. CASE OwnerSteps
    <2>1. CASE ExtendInPlace
        BY <2>1, ExtendInPlaceKeeps
    <2>2. CASE ExtendReserve
        BY <2>2, ExtendReserveKeeps
    <2>3. CASE ReserveFails
        BY <2>3, ReserveFailsKeeps
    <2>4. CASE GrowCommit
        BY <2>4, GrowCommitKeeps
    <2>5. CASE GrowFails
        BY <2>5, GrowFailsKeeps
    <2>6. CASE GrowEnd
        BY <2>6, GrowEndKeeps
    <2>7. CASE BeginDecommit
        BY <2>7, BeginDecommitKeeps
    <2>8. CASE QueuePart
        BY <2>8, QueuePartKeeps
    <2>9. CASE QueueFails
        BY <2>9, QueueFailsKeeps
    <2>10. CASE TruncateEnd
        BY <2>10, TruncateEndKeeps
    <2>11. CASE ReleaseFails
        BY <2>11, ReleaseFailsKeeps
    <2>12. CASE DestroyBuffer
        BY <2>12, DestroyBufferKeeps
    <2>. QED  BY <1>6, <2>1, <2>2, <2>3, <2>4, <2>5, <2>6, <2>7, <2>8, <2>9, <2>10, <2>11, <2>12
                 DEF OwnerSteps
<1>7. CASE Decommit
    BY <1>7, DecommitKeeps
<1>8. ASSUME NEW i \in 1 .. Helpers, Touch(i) \/ EndWork(i) PROVE HostInvariant'
    BY <1>8, TouchKeeps, EndWorkKeeps
<1>. QED  BY <1>1, <1>2, <1>3, <1>4, <1>5, <1>6, <1>7, <1>8 DEF HostNext

-----------------------------------------------------------------------------
(* What the invariant says.                                                  *)

\* The invariant says what the properties say.
LEMMA HostInvariantIsSafe ==
    ASSUME HostInvariant
    PROVE  HostTypeOK /\ HeldMemoryIsReady /\ PrewarmIsHarmless /\ GoneBuffersAreReturned
<1>1. SizesOK /\ HostCallOK /\ QueueOK /\ SystemOK /\ PoolOK /\ HeldOK /\ GrowthOK /\ WarmOK
    BY DEF HostInvariant
<1>2. Reserved \in Nat /\ QueueLimit \in Nat
    BY HostBufferAssumption
<1>3. /\ committed_size \in 0 .. Reserved /\ size \in 0 .. committed_size
      /\ last_chunk_size \in 0 .. Reserved
      /\ fresh /\ ~(pc \in {"grow", "warm"} /\ hcall.realloc) => last_chunk_size <= size
      /\ {base, reserved, fresh, lost} \subseteq BOOLEAN
    BY <1>1 DEF SizesOK
<1>4. HostTypeOK
    <2>1. {size, committed_size, last_chunk_size} \subseteq 0 .. Reserved
        BY <1>2, <1>3
    <2>2. pc = "idle" /\ fresh => last_chunk_size <= size
        BY <1>3
    <2>3. backed \subseteq AllPages /\ (base => reserved \/ lost)
        BY <1>1 DEF SystemOK
    <2>4. /\ pending = Len(jobs) /\ jobs \in Seq(Jobs) /\ QueueCounted(jobs, queued)
          /\ \A i \in 1 .. Len(jobs) : jobs[i].lo < jobs[i].hi
        BY <1>1 DEF QueueOK
    <2>5. queued \in 0 .. QueueLimit
        <3>1. PICK acc \in [0 .. Len(jobs) -> 0 .. QueueLimit] : acc[Len(jobs)] = queued
            BY <2>4 DEF QueueCounted
        <3>2. Len(jobs) \in 0 .. Len(jobs)
            BY <2>4
        <3>. QED  BY <3>1, <3>2
    <2>6. \A i \in DOMAIN jobs : jobs[i] \in Jobs /\ jobs[i].lo < jobs[i].hi
        BY <2>4
    <2>7. /\ helpers \in 0 .. Helpers /\ busy \subseteq 1 .. Helpers /\ warm \in BOOLEAN
          /\ todo \in [1 .. Helpers -> SUBSET (0 .. Reserved - 1)]
        BY <1>1 DEF PoolOK
    <2>8. \A i \in 1 .. Helpers : todo[i] \subseteq 0 .. Reserved - 1
        BY <2>7
    <2>9. {base, reserved, warm, fresh, lost} \subseteq BOOLEAN
        BY <1>3, <2>7
    <2>. QED  BY <2>1, <2>2, <2>3, <2>4, <2>5, <2>6, <2>7, <2>8, <2>9 DEF HostTypeOK
<1>5. HeldMemoryIsReady
    <2>1. SUFFICES ASSUME NEW r \in held, ~lost
                   PROVE  Pages(r[1], r[2]) \subseteq backed \cap touched
        BY DEF HeldMemoryIsReady
    <2>2. Sound
        BY <1>1, <2>1 DEF HeldOK, Sound
    <2>3. Pages(0, Live) \subseteq backed /\ Pages(r[1], r[2]) \subseteq touched
        BY <1>1, <2>2 DEF WarmOK
    <2>4. Pages(r[1], r[2]) \subseteq Pages(0, Live)
        BY HeldIsLive
    <2>. QED  BY <2>3, <2>4
<1>6. PrewarmIsHarmless
    <2>1. SUFFICES ASSUME NEW i \in busy, NEW u \in todo[i]
                   PROVE  /\ \A r \in held : u \notin r[1] .. r[2] - 1
                          /\ Pages(u, u + 1) \subseteq backed
                          /\ \A j \in DOMAIN jobs : u \notin jobs[j].lo .. jobs[j].hi - 1
        BY DEF PrewarmIsHarmless
    <2>2. /\ busy \subseteq 1 .. Helpers
          /\ todo \in [1 .. Helpers -> SUBSET (0 .. Reserved - 1)]
          /\ \A k \in busy : \A v \in todo[k] : size <= v /\ v \div PageUnits \in backed
        BY <1>1 DEF PoolOK
    <2>3. u \in Nat /\ size <= u /\ u \div PageUnits \in backed
        <3>1. u \in 0 .. Reserved - 1
            BY <2>1, <2>2
        <3>. QED  BY <1>2, <2>1, <2>2, <3>1
    <2>4. ASSUME NEW r \in held PROVE u \notin r[1] .. r[2] - 1
        <3>1. r[1] \in Nat /\ r[2] \in Nat /\ r[2] <= size
            BY <1>1 DEF HeldOK
        <3>. QED  BY <1>2, <1>3, <2>3, <3>1
    <2>5. Pages(u, u + 1) \subseteq backed
        BY <2>3, PagesAre DEF Floor
    <2>6. jobs = <<>>
        BY <1>1, <2>1 DEF QueueOK
    <2>. QED  BY <2>4, <2>5, <2>6
<1>7. GoneBuffersAreReturned
    <2>1. SUFFICES ASSUME pc = "gone", ~lost PROVE ~reserved /\ backed = {}
        BY DEF GoneBuffersAreReturned
    <2>2. ~base /\ jobs = <<>>
        BY <1>1, <2>1 DEF HostCallOK
    <2>. QED  BY <1>1, <2>2 DEF SystemOK
<1>. QED  BY <1>4, <1>5, <1>6, <1>7

\* The host buffer's invariant is inductive.
THEOREM HostIsInvariant == HostSpec => []HostInvariant
<1>1. HostInit => HostInvariant
    BY HostStarts
<1>2. HostInvariant /\ [HostNext]_hostVars => HostInvariant'
    BY HostSteps
<1>. QED  BY <1>1, <1>2, PTL DEF HostSpec

\* The sizes stay in order and within the reservation, the queue is counted right,
\* and it never holds more than its limit (hostbuf-decommit.c).
THEOREM HostTyped == HostSpec => []HostTypeOK
<1>1. HostInvariant => HostTypeOK
    BY HostInvariantIsSafe
<1>. QED  BY <1>1, HostIsInvariant, PTL

\* The memory of every chunk the caller holds is committed and touched, whatever is
\* decommitted or prewarmed meanwhile (hostbuf_extend, hostbuf_truncate).
THEOREM HeldReady == HostSpec => []HeldMemoryIsReady
<1>1. HostInvariant => HeldMemoryIsReady
    BY HostInvariantIsSafe
<1>. QED  BY <1>1, HostIsInvariant, PTL

\* A prewarm thread never writes into a chunk in use, into memory that is not
\* committed, or into what a queued job is about to take away (hostbuf-prewarm.c).
THEOREM PrewarmHarmless == HostSpec => []PrewarmIsHarmless
<1>1. HostInvariant => PrewarmIsHarmless
    BY HostInvariantIsSafe
<1>. QED  BY <1>1, HostIsInvariant, PTL

\* A buffer that is gone has returned all its memory, unless it was empty when it
\* was freed, or a part of its memory could not be queued (hostbuf_free).
THEOREM GoneReturned == HostSpec => []GoneBuffersAreReturned
<1>1. HostInvariant => GoneBuffersAreReturned
    BY HostInvariantIsSafe
<1>. QED  BY <1>1, HostIsInvariant, PTL
=============================================================================
