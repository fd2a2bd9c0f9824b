----------------------------- MODULE VramBuffer -----------------------------
(***************************************************************************)
(* A growing device buffer (src/vrambuf.c, Windows XPU build) on the       *)
(* virtual memory manager, next to clients of other devices or contexts    *)
(* that may ask the manager for anything.  The buffer makes one call of    *)
(* the manager after the other; the clients' calls fall in between.        *)
(***************************************************************************)
EXTENDS VmmManager, Sequences

CONSTANTS
    BufOwner,       \* the owner of the buffer's device
    ChunkPages,     \* VRAM_CHUNK_SIZE
    BufferSizes,    \* bound: sizes of a buffer
    MaxOwned,       \* bound: reservations, and handles, of a client
    MaxVmmFaults    \* bound: driver calls that fail

ASSUME VramAssumption ==
    /\ BufOwner \in Owners /\ ChunkPages \in Nat \ {0} /\ MaxVmmFaults \in Nat
    /\ BufferSizes \subseteq Nat \ {0}

VARIABLES
    vbuf,           \* base_ptr, max_size, allocated, handles
    vusage,         \* total_vram_usage
    vpc, vcall,     \* the call of the buffer's owner
    vfaults,
    rival           \* bound: the one other owner that has calls to make

bufferVars == <<vbuf, vusage, vpc, vcall>>
vramVars   == <<vmmVars, bufferVars, vfaults, rival>>

NoBuffer == [lo |-> 0, max |-> 0, allocated |-> 0, handles |-> <<>>]
NoVcall  == [goal |-> 0, retried |-> FALSE, h |-> 0, pos |-> 0, i |-> 0]

VramInit ==
    /\ VmmInit
    /\ vbuf = NoBuffer /\ vusage = 0
    /\ vpc = "none" /\ vcall = NoVcall
    /\ vfaults = 0
    /\ rival \in Owners \ {BufOwner}

VramFault == vfaults < MaxVmmFaults /\ vfaults' = vfaults + 1
\* A call of the manager that is refused by it, or by the driver below it.
Refused(allowed) ==
    /\ UNCHANGED vmmVars
    /\ \/ VramFault
       \/ ~allowed /\ UNCHANGED vfaults

Smaller(m, n) == IF m < n THEN m ELSE n
GoTo(pc) == vpc' = pc

-----------------------------------------------------------------------------

\* vrambuf_create.
VramCreate(n, outer) ==
    /\ vpc = "none" /\ n \in BufferSizes
    /\ Reserve(BufOwner, n, 1, outer)
    /\ vbuf' = [NoBuffer EXCEPT !.lo = outer, !.max = n]
    /\ GoTo("idle")
    /\ UNCHANGED <<vusage, vcall, vfaults>>

\* Mutant of GrowTo: only as far as it was asked to.
GrowTo_Exact(need) == Smaller(need, vbuf.max)

\* The pages vrambuf_grow grows to.
GrowTo(need) == Smaller(((need + ChunkPages - 1) \div ChunkPages) * ChunkPages, vbuf.max)

Grow(need) ==
    /\ vpc = "idle"
    /\ need <= vbuf.max /\ need > vbuf.allocated
    /\ vcall' = [NoVcall EXCEPT !.goal = GrowTo(need)]
    /\ GoTo("create")
    /\ UNCHANGED <<vmmVars, vbuf, vusage, vfaults>>

Chunk   == Smaller(vcall.goal - vbuf.allocated, ChunkPages)
ChunkAt == vbuf.lo + vbuf.allocated

\* three_stooges returned an error: out of memory is tried once more if the
\* page tables could free a chunk; otherwise grow returns false.
StoogesFailed ==
    \/ /\ ~vcall.retried
       /\ vcall' = [vcall EXCEPT !.retried = TRUE, !.h = 0]
       /\ GoTo("create")
    \/ vcall' = NoVcall /\ GoTo("idle")

CreateChunk(h) ==
    /\ vpc = "create"
    /\ Create(BufOwner, h, Chunk)
    /\ vcall' = [vcall EXCEPT !.h = h]
    /\ GoTo("map")
    /\ UNCHANGED <<vbuf, vusage, vfaults>>
CreateChunkFails ==
    /\ vpc = "create"
    /\ Refused(FreeHandles(BufOwner.context) # {})
    /\ StoogesFailed
    /\ UNCHANGED <<vbuf, vusage>>

MapChunk ==
    /\ vpc = "map"
    /\ \/ Map(BufOwner, ChunkAt, Chunk, vcall.h, 0) /\ GoTo("access") /\ UNCHANGED vfaults
       \/ Refused(MayMap(BufOwner, ChunkAt, Chunk, vcall.h, 0)) /\ GoTo("undo create")
    /\ UNCHANGED <<vbuf, vusage, vcall>>

AccessChunk ==
    /\ vpc = "access" /\ Covered(BufOwner, ChunkAt, Chunk)
    /\ vusage' = vusage + Chunk
    /\ vbuf' = [vbuf EXCEPT !.allocated = @ + Chunk, !.handles = Append(@, vcall.h)]
    /\ IF vbuf.allocated + Chunk < vcall.goal
       THEN /\ vcall' = [vcall EXCEPT !.retried = FALSE, !.h = 0]
            /\ GoTo("create")
       ELSE vcall' = NoVcall /\ GoTo("idle")
    /\ UNCHANGED <<vmmVars, vfaults>>
AccessChunkFails ==
    /\ vpc = "access"
    /\ Refused(Covered(BufOwner, ChunkAt, Chunk))
    /\ GoTo("undo map")
    /\ UNCHANGED <<vbuf, vusage, vcall>>

\* cuMemUnmap of one range, whose failure is only logged.
UnmapRange(lo, n) ==
    \/ Unmap(BufOwner, lo, n, {}) /\ UNCHANGED vfaults
    \/ \E kept \in SUBSET Doomed(BufOwner, lo, n) \ {{}} :
          Unmap(BufOwner, lo, n, kept) /\ VramFault
    \/ ~MayUnmap(BufOwner, lo, n) /\ UNCHANGED <<vmmVars, vfaults>>

\* cuMemRelease, whose failure is only logged.
ReleaseHandle(h) ==
    \/ DestroyPhysical(BufOwner, h) /\ UNCHANGED vfaults
    \/ Refused(MayDestroy(BufOwner, h))

\* fail_access and fail_mmap.
UndoMap ==
    /\ vpc = "undo map"
    /\ UnmapRange(ChunkAt, Chunk)
    /\ GoTo("undo create")
    /\ UNCHANGED <<vbuf, vusage, vcall>>
UndoCreate ==
    /\ vpc = "undo create"
    /\ ReleaseHandle(vcall.h)
    /\ StoogesFailed
    /\ UNCHANGED <<vbuf, vusage>>

\* vrambuf_destroy: each chunk is unmapped by itself.
VramDestroy ==
    /\ vpc = "idle"
    /\ vcall' = [NoVcall EXCEPT !.i = 1]
    /\ GoTo("unmapping")
    /\ UNCHANGED <<vmmVars, vbuf, vusage, vfaults>>

MoreChunks == vcall.i <= Len(vbuf.handles) /\ vcall.pos < vbuf.allocated

\* Mutant of NextChunk: one call for all that is mapped.
NextChunk_Whole == vbuf.allocated - vcall.pos

NextChunk == Smaller(vbuf.allocated - vcall.pos, ChunkPages)
UnmapNext ==
    /\ vpc = "unmapping" /\ MoreChunks
    /\ UnmapRange(vbuf.lo + vcall.pos, NextChunk)
    /\ vcall' = [vcall EXCEPT !.pos = @ + NextChunk, !.i = @ + 1]
    /\ UNCHANGED <<vbuf, vusage, vpc>>
EndUnmapping ==
    /\ vpc = "unmapping" /\ ~MoreChunks
    /\ vcall' = [vcall EXCEPT !.i = 1]
    /\ GoTo("releasing")
    /\ UNCHANGED <<vmmVars, vbuf, vusage, vfaults>>

ReleaseNext ==
    /\ vpc = "releasing" /\ vcall.i <= Len(vbuf.handles)
    /\ ReleaseHandle(vbuf.handles[vcall.i])
    /\ vcall' = [vcall EXCEPT !.i = @ + 1]
    /\ UNCHANGED <<vbuf, vusage, vpc>>

\* Mutant of EndDestroy: the reservation is kept for good.
EndDestroy_KeepsReservation ==
    /\ vpc = "releasing" /\ vcall.i > Len(vbuf.handles)
    /\ UNCHANGED vmmVars /\ UNCHANGED vfaults
    /\ vusage' = vusage - vbuf.allocated
    /\ vbuf' = NoBuffer /\ vcall' = NoVcall /\ GoTo("none")

EndDestroy ==
    /\ vpc = "releasing" /\ vcall.i > Len(vbuf.handles)
    /\ \/ FreeReserved(BufOwner, vbuf.lo, vbuf.max) /\ UNCHANGED vfaults
       \/ Refused(MayFree(BufOwner, vbuf.lo, vbuf.max))
    /\ vusage' = vusage - vbuf.allocated
    /\ vbuf' = NoBuffer /\ vcall' = NoVcall /\ GoTo("none")

\* Another owner's call, accepted by the manager.
Client(o) ==
    /\ UNCHANGED <<bufferVars, vfaults>>
    /\ \/ /\ Cardinality({r \in reservations : r.owner = o}) < MaxOwned
          /\ \E n \in VmmSizes, a \in Alignments, outer \in 0..Space-1 : Reserve(o, n, a, outer)
       \/ /\ Cardinality({p \in physical : p.owner = o}) < MaxOwned
          /\ \E h \in Handles, n \in VmmSizes : Create(o, h, n)
       \/ \E h \in Handles : DestroyPhysical(o, h)
       \/ \E lo \in 0..Space-1, n \in VmmSizes :
             \/ FreeReserved(o, lo, n)
             \/ Unmap(o, lo, n, {})
             \/ \E p \in physical : \E off \in 0..p.n-1 : Map(o, lo, n, p.handle, off)

\* An unmap of another owner that stops half way.
ClientFails(o) ==
    /\ VramFault
    /\ \E lo \in 0..Space-1, n \in VmmSizes :
          \E kept \in SUBSET Doomed(o, lo, n) \ {{}} : Unmap(o, lo, n, kept)
    /\ UNCHANGED bufferVars

BufferStep ==
    \/ \E n \in BufferSizes, outer \in 0..Space-1 : VramCreate(n, outer)
    \/ \E need \in 1..Space : Grow(need)
    \/ \E h \in Handles : CreateChunk(h)
    \/ CreateChunkFails \/ MapChunk \/ AccessChunk \/ AccessChunkFails
    \/ UndoMap \/ UndoCreate
    \/ VramDestroy \/ UnmapNext \/ EndUnmapping \/ ReleaseNext \/ EndDestroy

VramNext ==
    /\ BufferStep \/ Client(rival) \/ ClientFails(rival)
    /\ UNCHANGED rival

VramSpec == VramInit /\ [][VramNext]_vramVars

-----------------------------------------------------------------------------
(* Properties.                                                              *)

\* The handles fit the array vrambuf_create made (max_size / VRAM_CHUNK_SIZE
\* + 1 of them) and the usage counts what the buffer has.
VramTypeOK ==
    /\ vbuf.allocated \in 0..vbuf.max /\ vusage = vbuf.allocated
    /\ Len(vbuf.handles) <= vbuf.max \div ChunkPages + 1
    /\ vpc \in {"none", "idle", "create", "map", "access", "undo map", "undo create",
                "unmapping", "releasing"}

Backs(m, pos, n, h) ==
    /\ m.owner = BufOwner /\ m.handle = h /\ m.off = 0
    /\ m.lo = vbuf.lo + pos /\ m.n = n

\* What grow has given stays mapped, chunk by chunk to the buffer's own
\* memory, whatever failed later and whatever other owners do; and destroy
\* unmaps exactly the ranges that were mapped, one call for each (the comment
\* in vrambuf_destroy says why one call over several crashes the driver).
BufferIsMapped ==
    /\ VramTypeOK
    /\ vpc \notin {"none", "unmapping", "releasing"} =>
          \A i \in DOMAIN vbuf.handles :
             LET pos == (i - 1) * ChunkPages IN
             \E m \in mappings :
                /\ m.span = NoSpan
                /\ Backs(m, pos, Smaller(vbuf.allocated - pos, ChunkPages), vbuf.handles[i])
    /\ vpc = "unmapping" /\ MoreChunks =>
          \E m \in mappings : Backs(m, vcall.pos, NextChunk, vbuf.handles[vcall.i])

\* If no driver call failed, a buffer that is gone has left nothing behind.
CleanBuffersLeaveNothing ==
    vpc = "none" /\ vfaults = 0 =>
       /\ \A r \in reservations : r.owner # BufOwner
       /\ \A p \in physical : p.owner # BufOwner
       /\ \A m \in mappings : m.owner # BufOwner
=============================================================================
