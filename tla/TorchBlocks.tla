---------------------------- MODULE TorchBlocks ----------------------------
(***************************************************************************)
(* The block cache behind PyTorch's pluggable allocator                    *)
(* (src-xpu/dispatch.cpp:225-250, 1205-1455, 1755-1787).  A block that was *)
(* freed is kept, with a barrier that its queue finishes when it is done   *)
(* with the block, and is handed out again by its exact size: at once to   *)
(* the same queue, to another one only after the barrier.  A hit that      *)
(* fails late loses the barrier: forgot is the life it was for (nothing in *)
(* the program records it).  Raw segments bypass the cache and share its   *)
(* counters.                                                               *)
(*                                                                         *)
(* Every function holds g_torch_allocator_mutex from its first look at the *)
(* tables to its end, waits for the device included, so each is one        *)
(* action, enabled when what it waits for has happened.                    *)
(***************************************************************************)
EXTENDS Naturals, Sequences, FiniteSets, Functions
Seqs == INSTANCE SequencesExt

CONSTANTS
    Blocks,         \* places in device memory where a block may lie
    TorchQueues,
    NoTorchQueue,   \* a null queue
    BlockSizes,
    MaxLives,       \* bound: how often a place is handed out, all places together
    MaxQueued       \* bound: commands in a queue at a time

ASSUME TorchAssumption ==
    /\ IsFiniteSet(Blocks) /\ NoTorchQueue \notin TorchQueues
    /\ BlockSizes \subseteq Nat \ {0} /\ MaxLives \in Nat /\ MaxQueued \in Nat

VARIABLES
    block,          \* XpuTorchBlock and raw segments, by place
    cache,          \* g_torch_cached_blocks; a live block is in g_torch_live_blocks
    activeBytes, reservedBytes,     \* g_torch_active_bytes, g_torch_reserved_bytes of one device
    commands,       \* the device: what each queue has still to finish, in order
    inUse           \* the places the application holds

torchVars == <<block, cache, activeBytes, reservedBytes, commands, inUse>>

NoBlock == [state |-> "none", size |-> 0, queue |-> NoTorchQueue, ready |-> FALSE, life |-> 0,
            forgot |-> 0]

TorchInit ==
    /\ block = [b \in Blocks |-> NoBlock]
    /\ cache = <<>> /\ activeBytes = 0 /\ reservedBytes = 0
    /\ commands = [q \in TorchQueues |-> <<>>]
    /\ inUse = {}

\* decrease_torch_bytes
Less(total, n) == IF n < total THEN total - n ELSE 0

Places(state) == {b \in Blocks : block[b].state = state}

-----------------------------------------------------------------------------
(* The device.  Queues need not be in order, but nothing passes a barrier.  *)

Command(kind, b) == [kind |-> kind, block |-> b, life |-> block[b].life]

\* Nothing in its queue keeps the i-th command from running.
Runnable(q, i) ==
    IF commands[q][i].kind = "barrier" THEN i = 1
    ELSE \A j \in 1 .. i - 1 : commands[q][j].kind # "barrier"

\* Work on b that has not finished in q.
Busy(q, b) == \E i \in 1 .. Len(commands[q]) :
    commands[q][i].kind = "work" /\ commands[q][i].block = b

\* event_is_complete of block.ready, the barrier of the life that ended.
BarrierDone(b) ==
    \A q \in TorchQueues : \A i \in 1 .. Len(commands[q]) :
        commands[q][i] # Command("barrier", b)

FinishCommand(q, i) ==
    /\ Runnable(q, i)
    /\ commands' = [commands EXCEPT ![q] = Seqs!RemoveAt(@, i)]
    /\ UNCHANGED <<block, cache, activeBytes, reservedBytes, inUse>>

\* The application uses a block it holds.  On another queue than that of the
\* allocation it first waits for what that one was given.
UseBlock(q, b) ==
    /\ b \in inUse /\ Len(commands[q]) < MaxQueued
    /\ q # block[b].queue => ~Busy(block[b].queue, b)
    /\ commands' = [commands EXCEPT ![q] = Append(@, Command("work", b))]
    /\ UNCHANGED <<block, cache, activeBytes, reservedBytes, inUse>>

-----------------------------------------------------------------------------
(* The cache.                                                               *)

\* The first cached block of the size, 0 when there is none.
Match(n) == Seqs!SelectInSeq(cache, LAMBDA b : block[b].size = n)

MayHandOut == SumFunction([b \in Blocks |-> block[b].life]) < MaxLives

\* A place is handed out once more.
HandOut(b, state, q, n) ==
    [state |-> state, size |-> n, queue |-> q, ready |-> FALSE, life |-> block[b].life + 1,
     forgot |-> block[b].forgot]

\* Mutant of MayReuse: no wait, as for the same queue.
MayReuse_Always(q, b) == TRUE

\* What a reuse waits for; if the wait throws, nullptr is returned and nothing
\* has changed.
MayReuse(q, b) == block[b].ready /\ block[b].queue # q => BarrierDone(b)

\* The table of live blocks has no memory for another entry (emplace throws): by
\* then the block has its new queue and no barrier, and with them it stays cached.
\* (If the table is to grow and cannot, the block itself is lost and the next
\* search of the cache crashes; that is left out.)
AllocHit(q, n, throws) ==
    LET i == Match(n)  b == cache[i] IN
    /\ i # 0 /\ MayReuse(q, b)
    /\ IF throws
       THEN /\ block' = [block EXCEPT ![b].queue = q, ![b].ready = FALSE,
                                      ![b].forgot = block[b].life]
            /\ UNCHANGED <<cache, activeBytes, inUse>>
       ELSE /\ MayHandOut
            /\ block' = [block EXCEPT ![b] = HandOut(b, "live", q, n)]
            /\ cache' = Seqs!RemoveAt(cache, i)
            /\ activeBytes' = activeBytes + n /\ inUse' = inUse \cup {b}
    /\ UNCHANGED <<reservedBytes, commands>>

\* Mutant of Releasable: the barrier is not asked for.
Releasable_All == Range(cache)

\* What release_torch_block may give back: of the cached blocks those whose
\* barrier is done, or was waited for.  Any of them may stay, as sycl::free may throw.
Releasable == {b \in Range(cache) : block[b].ready => BarrierDone(b)}

Bytes(S) == SumFunction([b \in S |-> block[b].size])

Vacated(S) == [b \in Blocks |->
    IF b \in S THEN [NoBlock EXCEPT !.life = block[b].life, !.forgot = block[b].forgot]
    ELSE block[b]]

\* The cached blocks but those of S, in their order.
Remaining(S) ==
    LET kept[i \in 0 .. Len(cache)] ==
            IF i = 0 THEN <<>>
            ELSE IF cache[i] \in S THEN kept[i - 1] ELSE Append(kept[i - 1], cache[i])
    IN  kept[Len(cache)]

\* release_cached_torch_blocks, xpu_allocator_empty_cache: the bytes saturate at 0.
EmptyCache(S) ==
    /\ S # {} /\ S \subseteq Releasable
    /\ block' = Vacated(S)
    /\ cache' = Remaining(S)
    /\ reservedBytes' = Less(reservedBytes, Bytes(S))
    /\ UNCHANGED <<activeBytes, commands, inUse>>

\* No cached block of the size: the device is asked, and asked again after the
\* cached blocks S were released, which also happens ahead of the first request
\* where proactive_cache_release_enabled.  A request that is refused in the end
\* leaves what EmptyCache(S) does.
AllocMiss(q, n, S) ==
    /\ Match(n) = 0 /\ S \subseteq Releasable
    /\ \E b \in Places("none") \cup S :
          /\ MayHandOut
          /\ block' = [Vacated(S) EXCEPT ![b] = HandOut(b, "live", q, n)]
          /\ inUse' = inUse \cup {b}
    /\ cache' = Remaining(S)
    /\ activeBytes' = activeBytes + n
    /\ reservedBytes' = Less(reservedBytes, Bytes(S)) + n
    /\ UNCHANGED commands

\* Mutant of FreedOn: the queue of the allocation, whatever is named.
FreedOn_Allocation(b, named) == block[b].queue

\* The queue that gets the barrier.
FreedOn(b, named) == IF named = NoTorchQueue THEN block[b].queue ELSE named

\* free_torch_block.  The application names the queue of the allocation, or
\* another one once the work of that one, and of all others, is done.  A block the
\* cache has no room for stays live as well; the barrier it then has orders nothing.
FreeBlock(b, named, throws) ==
    LET q == FreedOn(b, named) IN
    /\ b \in inUse /\ block[b].state = "live"
    /\ \A r \in TorchQueues : Busy(r, b) => r = named \/ (named = NoTorchQueue /\ r = block[b].queue)
    /\ inUse' = inUse \ {b}
    /\ IF throws
       THEN /\ block' = [block EXCEPT ![b].queue = q]
            /\ UNCHANGED <<cache, activeBytes, commands>>
       ELSE /\ Len(commands[q]) < MaxQueued
            /\ commands' = [commands EXCEPT ![q] = Append(@, Command("barrier", b))]
            /\ block' = [block EXCEPT ![b].queue = q, ![b].ready = TRUE, ![b].state = "cached"]
            /\ cache' = Append(cache, b)
            /\ activeBytes' = Less(activeBytes, block[b].size)
    /\ UNCHANGED reservedBytes

-----------------------------------------------------------------------------
(* Raw segments: PyTorch's own cache decides when they may go.              *)

RawAlloc(q, n) ==
    \E b \in Places("none") :
       /\ MayHandOut
       /\ block' = [block EXCEPT ![b] = HandOut(b, "raw", q, n)]
       /\ activeBytes' = activeBytes + n /\ reservedBytes' = reservedBytes + n
       /\ inUse' = inUse \cup {b}
       /\ UNCHANGED <<cache, commands>>

\* A failing sycl::free leaves the counters alone.
RawFree(b, throws) ==
    /\ b \in inUse /\ block[b].state = "raw" /\ \A q \in TorchQueues : ~Busy(q, b)
    /\ inUse' = inUse \ {b}
    /\ IF throws THEN UNCHANGED <<block, activeBytes, reservedBytes>>
       ELSE /\ block' = Vacated({b})
            /\ activeBytes' = Less(activeBytes, block[b].size)
            /\ reservedBytes' = Less(reservedBytes, block[b].size)
    /\ UNCHANGED <<cache, commands>>

TorchNext ==
    \/ \E q \in TorchQueues, n \in BlockSizes :
          \/ \E throws \in BOOLEAN : AllocHit(q, n, throws)
          \/ RawAlloc(q, n)
          \/ \E S \in SUBSET Blocks : AllocMiss(q, n, S)
    \/ \E S \in SUBSET Blocks : EmptyCache(S)
    \/ \E b \in Blocks, throws \in BOOLEAN :
          RawFree(b, throws) \/ \E q \in TorchQueues \cup {NoTorchQueue} : FreeBlock(b, q, throws)
    \/ \E q \in TorchQueues : \/ \E b \in Blocks : UseBlock(q, b)
                             \/ \E i \in 1 .. Len(commands[q]) : FinishCommand(q, i)

TorchSpec == TorchInit /\ [][TorchNext]_torchVars

-----------------------------------------------------------------------------
(* Properties.                                                              *)

\* Types; a block is in one of the two tables, and the counters are the sums
\* of what the tables and the raw segments hold, through every failure.
TorchTypeOK ==
    /\ block \in [Blocks -> [state : {"none", "live", "cached", "raw"}, size : {0} \cup BlockSizes,
                              queue : TorchQueues \cup {NoTorchQueue}, ready : BOOLEAN,
                              life : 0 .. MaxLives, forgot : 0 .. MaxLives]]
    /\ Range(cache) = Places("cached") /\ IsInjective(cache)
    /\ inUse \subseteq Places("live") \cup Places("raw")
    /\ reservedBytes = Bytes(Blocks)
    /\ activeBytes = Bytes(Places("live") \cup Places("raw"))

Pending == UNION {{[queue |-> q, at |-> i, command |-> commands[q][i]] :
                      i \in 1 .. Len(commands[q])} : q \in TorchQueues}

\* What c is to be protected from: its memory is not given back, and no work of
\* whoever had the block later runs beside it or before it, on any queue.
Protected(c) ==
    /\ block[c.command.block].state # "none"
    /\ \A d \in Pending :
          /\ d.command.kind = "work" /\ d.command.block = c.command.block
          /\ c.command.life < d.command.life
          => ~Runnable(d.queue, d.at)

\* Work on a block never runs beside, or before, work of whoever had it earlier:
\* "their completion state protects reuse" (XPU_PLATFORM_MEMORY_POLICY.md, of
\* freed blocks that remain cached).
BlocksAreExclusive == \A c \in Pending : c.command.kind = "work" => Protected(c)

\* The same of all work whose barrier no failed hit has lost: reuse without a
\* wait relies on the order of the queue alone, release and reuse by another
\* queue on the barrier, and a barrier that was lost exposes the work of its own
\* life and of earlier ones, not that of later ones (allocate_torch_block,
\* free_torch_block, release_torch_block).
BarriersExclude ==
    \A c \in Pending :
        c.command.kind = "work" /\ c.command.life > block[c.command.block].forgot
        => Protected(c)
=============================================================================
