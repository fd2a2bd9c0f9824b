----------------------------- MODULE VbarPages -----------------------------
(***************************************************************************)
(* The page table of the Windows XPU build (src/model-vbar.c): virtual     *)
(* ranges (VBARs) whose pages are backed by device memory on a fault, kept *)
(* while they are pinned, held or used by submitted work, and reclaimed    *)
(* under pressure in two phases.  A scan freezes idle pages as candidates  *)
(* under the metadata lock; after the lock was given up, a commit unmaps   *)
(* those whose serial, eviction generation and ownership have not changed. *)
(*                                                                         *)
(* Each action is one critical section of the metadata lock (vbar_lock).   *)
(* A fault keeps the lock for several steps, and enters it recursively     *)
(* when it reclaims pages on its way.                                      *)
(*                                                                         *)
(* Queue retirement is taken from RetireContract: a snapshot is any        *)
(* frontier the device has really passed.                                  *)
(***************************************************************************)
EXTENDS VbarMapping, FiniteSets, Sequences, FiniteSetsExt
Seqs == INSTANCE SequencesExt

CONSTANTS
    Vbars,              \* VBARs of one device, by identity
    NPages,             \* pages of each VBAR
    Threads,            \* threads that call the library
    NoVbar, NoThread, NoQueue,
    Modes,              \* what vbar_async_reclaim_enabled may have found
    Capacity,           \* vram_capacity less simple_vram_headroom, in pages
    Batch,              \* VBAR_EVICTION_BATCH_PAGES
    ReclaimFloor,       \* AIMDO_XPU_WDDM_RECLAIM_FLOOR, in pages
    HoldKinds,          \* consumer holds in use: "external", "capture"
    MaxNeed,            \* bound: pages a pressure measurement asks for
    MaxCopies,          \* bound: driver copies in flight on a VBAR
    MaxOps,             \* bound: operators submitted to each queue
    MaxCalls,           \* bound: calls, allocations included, returns and releases not
    MaxFaults           \* bound: driver calls that fail

ASSUME VbarAssumption ==
    /\ NPages \in Nat \ {0} /\ Batch \in Nat \ {0} /\ ReclaimFloor \in Nat \ {0}
    /\ IsFiniteSet(Threads) /\ IsFiniteSet(Vbars)
    /\ NoVbar \notin Vbars /\ NoThread \notin Threads /\ NoQueue \notin Queues
    /\ Modes \subseteq BOOLEAN
    /\ HoldKinds \subseteq {"external", "capture"}
    /\ {Capacity, MaxNeed, MaxCopies, MaxOps, MaxCalls, MaxFaults} \subseteq Nat

Pages == Vbars \X (1..NPages)

VARIABLES
    async,          \* vbar_async_reclaim_enabled
    page,           \* residency_map of every VBAR, a record of VbarMapping
    vbar,           \* the rest of ModelVBAR
    order,          \* the priority list, lowest first
    total,          \* total_vram_usage, in pages
    lock,           \* the thread inside vbar_fault_locked or vbar_free
    call,           \* the call each thread is in, and its locals
    lease,          \* the range each thread has pinned and not yet unpinned
    hold,           \* the consumer hold each thread owns
    submitted,      \* operators submitted to each queue
    inflight,       \* the ones the device has not finished, with their pages
    calls, faults   \* counters for the bounds

memory == <<page, vbar, order, total>>
device == <<async, submitted, inflight>>
owners == <<lease, hold>>
bounds == <<calls, faults>>
vars   == <<memory, lock, call, owners, device, bounds>>

NoRange == [vbar |-> NoVbar, first |-> 1, last |-> 0, kind |-> "none",
            queues |-> {}]
NoToken == [queue |-> NoQueue, upto |-> 0]

\* A call that is not in progress.  The range is first..last, at is the page a
\* fault or a teardown has reached, then is where a reclaim returns to.
NoCall == [at |-> 0, pc |-> "idle", vbar |-> NoVbar, first |-> 1, last |-> 0,
           tries |-> 0, checked |-> FALSE, token |-> NoToken,
           kind |-> "none", need |-> 0, keep |-> NoVbar, frontier |-> NoTokens,
           candidates |-> {}, waits |-> {}, then |-> "idle"]

Init ==
    /\ async \in Modes
    /\ page      = [p \in Pages |-> AbsentPage]
    /\ vbar      = [v \in Vbars |-> [state |-> "none", watermark |-> NPages,
                                     limit |-> 0, resident |-> 0, copies |-> 0]]
    /\ order     = <<>>
    /\ total     = 0
    /\ lock      = NoThread
    /\ call      = [t \in Threads |-> NoCall]
    /\ lease     = [t \in Threads |-> NoRange]
    /\ hold      = [t \in Threads |-> NoRange]
    /\ submitted = [q \in Queues |-> 0]
    /\ inflight  = {}
    /\ calls     = 0
    /\ faults    = 0

RangePages(r) == {r.vbar} \X (r.first..r.last)
Unlocked(t)   == lock \in {NoThread, t}
InList(v)     == vbar[v].state \in {"live", "closing"}
\* The caller of vbar_free makes no other call on the VBAR.
Usable(v)     == InList(v) /\ \A t \in Threads : call[t].vbar = v => call[t].kind # "free"
Position(v)   == CHOOSE i \in 1..Len(order) : order[i] = v
Less(a, b)    == IF a < b THEN a ELSE b

\* A call that is counted starts, or n more driver calls fail.
Started  == calls < MaxCalls /\ calls' = calls + 1 /\ UNCHANGED faults
Fails(n) == faults + n <= MaxFaults /\ faults' = faults + n /\ UNCHANGED calls

-----------------------------------------------------------------------------
(* The list of VBARs and their watermarks.                                   *)

\* remove_vbar
Moved(v) == Seqs!RemoveAt(order, Position(v))

\* vbar_allocate
Allocate(v) ==
    /\ lock = NoThread
    /\ Started
    /\ vbar[v].state = "none"
    /\ vbar' = [vbar EXCEPT ![v].state = "live"]
    /\ order' = Append(order, v)
    /\ UNCHANGED <<page, total, lock, call, owners, device>>

\* vbar_prioritize
Prioritize(v) ==
    /\ lock = NoThread
    /\ Started
    /\ Usable(v)
    /\ order' = Append(Moved(v), v)
    /\ vbar' = [vbar EXCEPT ![v].watermark = NPages]
    /\ UNCHANGED <<page, total, lock, call, owners, device>>

\* vbar_deprioritize
Deprioritize(v) ==
    /\ lock = NoThread
    /\ Started
    /\ Usable(v)
    /\ order' = <<v>> \o Moved(v)
    /\ UNCHANGED <<page, vbar, total, lock, call, owners, device>>

\* vbar_set_watermark_limit, and vbars_reset_watermark_limits (all VBARs to 0)
SetLimit(V, n) ==
    /\ lock = NoThread
    /\ Started
    /\ vbar' = [v \in Vbars |-> IF v \in V THEN [vbar[v] EXCEPT !.limit = n]
                                           ELSE vbar[v]]
    /\ UNCHANGED <<page, order, total, lock, call, owners, device>>

-----------------------------------------------------------------------------
(* Reclaim.                                                                  *)

\* vbars_free_retired_except(need, keep); without it nothing is asynchronous.
Reclaim(c, need, keep, then) ==
    IF need > 0 /\ async
    THEN [c EXCEPT !.pc = "snapshot", !.kind = "retired", !.need = need,
                   !.keep = keep, !.then = then]
    ELSE [c EXCEPT !.pc = then]

\* A reclaim that stops with left pages to go.  A fault asks again for them,
\* its own VBAR included (fault_locked, after an allocation failed).
Stopped(c, left) ==
    LET back == [c EXCEPT !.pc = c.then, !.kind = "none", !.need = 0,
                          !.keep = NoVbar, !.frontier = NoTokens,
                          !.candidates = {}, !.waits = {}, !.then = "idle"]
    IN  IF c.then = "idle" THEN NoCall
        ELSE IF c.keep # NoVbar THEN Reclaim(back, left, NoVbar, c.then)
        ELSE back

\* aimdo_xpu_retire_snapshot, under its own lock
Snapshot(t) ==
    /\ call[t].pc = "snapshot"
    /\ \E f \in [Queues -> 0..MaxOps] :
          /\ \A q \in Queues : f[q] <= submitted[q]
          /\ \A o \in inflight : o.n > f[o.queue]
          /\ call' = [call EXCEPT ![t].pc = "freeze", ![t].frontier = f]
    /\ UNCHANGED <<memory, lock, owners, device, bounds>>

\* The pages a scan may take, and the ones it takes: VBARs from the lowest
\* priority, pages from the highest index.
Eligible(c) ==
    {p \in Pages :
       LET v == p[1]  n == p[2]  b == vbar[v]  r == page[p] IN
       /\ InList(v)
       /\ Idle(r)
       /\ CASE c.kind = "retired"   -> /\ v # c.keep /\ b.copies = 0
                                       /\ n > Less(b.watermark, b.limit)
                                       /\ RetireComplete(r, c.frontier)
            [] c.kind = "reference" -> v # c.keep /\ n > b.limit /\ ~r.unknown
            [] c.kind = "model"     -> /\ v = c.vbar /\ b.state = "live"
                                       /\ n \in c.first..c.last /\ ~r.unknown}

Before(p, o) == \/ p[1] # o[1] /\ Position(p[1]) < Position(o[1])
                \/ p[1] = o[1] /\ p[2] > o[2]

Candidates(c) ==
    LET E == Eligible(c)
    IN  {p \in E : Cardinality({o \in E : Before(o, p)}) < Less(c.need, Batch)}

\* What a scan may freeze.  vbar_freeze_retired_candidates freezes nothing when
\* another thread has the lock, for this moment or for a whole fault; the
\* synchronous scans wait for the lock.
Scans(t) ==
    (IF Unlocked(t) THEN {Candidates(call[t])} ELSE {}) \cup
    (IF call[t].kind = "retired" /\ lock # t THEN {{}} ELSE {})

Freeze(t) ==
    LET c == call[t]
        Frozen(r) == [r EXCEPT !.evicting = TRUE, !.gen = @ + 1]
    IN  /\ c.pc = "freeze"
        /\ \E K \in Scans(t) :
              /\ page' = [p \in Pages |-> IF p \in K THEN Frozen(page[p]) ELSE page[p]]
              /\ call' = [call EXCEPT ![t] =
                    IF K = {} THEN Stopped(c, c.need)
                    ELSE [c EXCEPT
                            !.pc = IF c.kind = "retired" THEN "commit" ELSE "sync",
                            !.waits = IF c.kind = "retired" THEN {} ELSE inflight,
                            !.candidates = {[page |-> p, serial |-> page[p].serial,
                                             gen |-> page[p].gen + 1] : p \in K}]]
        /\ UNCHANGED <<vbar, order, total, lock, owners, device, bounds>>

\* Mutant of StillFrozen: any freeze of the page will do.
StillFrozen_AnyGeneration(k) == InList(k.page[1]) /\ page[k.page].evicting

\* The candidate's freeze is still the last word on its page.
StillFrozen(k) == /\ InList(k.page[1])
                  /\ page[k.page].evicting /\ page[k.page].gen = k.gen

\* Mutant of Current: copies that began since the freeze are not noticed.
Current_IgnoresCopies(k) ==
    LET r == page[k.page]
    IN  /\ StillFrozen(k)
        /\ r.pin = 0 /\ ~Held(r) /\ IsMapped(r) /\ r.serial = k.serial

\* The final validation.
Current(k) ==
    LET r == page[k.page]
    IN  /\ StillFrozen(k)
        /\ vbar[k.page[1]].copies = 0
        /\ r.pin = 0 /\ ~Held(r) /\ IsMapped(r) /\ r.serial = k.serial

\* Mutant of Over: only the number of pages ends the loop.
Over_NeverStops(freed, need) == freed >= need

\* The loop around freeze and commit freezes another batch unless nothing was
\* freed or nothing is needed any more.
Over(freed, need) == freed = 0 \/ freed >= need

\* vbar_commit_candidates, and the end of the loop around it.
Commit(t) ==
    LET c    == call[t]
        K    == {k \in c.candidates : Current(k)}
        C(p) == \E k \in K : k.page = p
        S(p) == \E k \in c.candidates \ K : k.page = p /\ StillFrozen(k)
        P    == {k.page : k \in K}
    IN  /\ c.pc = "commit"
        /\ Unlocked(t)
        /\ \E out \in [P -> UNION {Released(page[p]) : p \in P}] :
             LET freed == Cardinality({p \in P : out[p].result = "freed"})
             IN  /\ \A p \in P : out[p] \in Released(page[p])
                 /\ Fails(SumFunction([p \in P |-> out[p].failed]))
                 /\ page' = [p \in Pages |-> IF C(p) THEN out[p].page
                                             ELSE IF S(p) THEN Canceled(page[p])
                                             ELSE page[p]]
                 /\ total' = total + SumFunction([p \in P |-> out[p].total])
                 /\ vbar' = [v \in Vbars |-> [vbar[v] EXCEPT !.resident =
                       @ + SumFunction([p \in {p \in P : p[1] = v} |-> out[p].resident])]]
                 /\ call' = [call EXCEPT ![t] =
                       IF Over(freed, c.need) THEN Stopped(c, c.need - freed)
                       ELSE [c EXCEPT !.pc = "freeze", !.need = @ - freed,
                                      !.candidates = {}]]
        /\ UNCHANGED <<order, lock, owners, device>>

\* cuCtxSynchronize: what was submitted before has finished, or nothing is
\* known; then the frozen pages are given back (vbar_cancel_candidates).
Synchronized(t) ==
    /\ call[t].pc \in {"sync", "drain", "redrain"}
    /\ call[t].waits \cap inflight = {}
    /\ call' = [call EXCEPT ![t].waits = {},
                  ![t].pc = CASE @ = "sync"    -> "commit"
                              [] @ = "drain"   -> "check"
                              [] @ = "redrain" -> "recheck"]
    /\ UNCHANGED <<memory, lock, owners, device, bounds>>

\* Mutant of SynchronizeFails: the frozen pages stay frozen.
SynchronizeFails_KeepsFrozen(t) ==
    /\ call[t].pc \in {"sync", "drain", "redrain"}
    /\ Fails(1)
    /\ call' = [call EXCEPT ![t] = Stopped(call[t], call[t].need)]
    /\ UNCHANGED <<page, vbar, order, total, lock, owners, device>>

SynchronizeFails(t) ==
    LET c == call[t]
        S(p) == \E k \in c.candidates : k.page = p /\ StillFrozen(k)
    IN  /\ c.pc \in {"sync", "drain", "redrain"}
        /\ c.pc = "sync" => Unlocked(t)
        /\ Fails(1)
        /\ page' = [p \in Pages |-> IF S(p) THEN Canceled(page[p]) ELSE page[p]]
        /\ call' = [call EXCEPT ![t] = Stopped(c, c.need)]
        /\ UNCHANGED <<vbar, order, total, lock, owners, device>>

\* vbars_prepare_allocation, vbars_free_retired and vbars_free_all_retired:
\* reclaim outside a fault, from every VBAR but keep.
Pressure(t, need, keep) ==
    /\ call[t] = NoCall
    /\ Started
    /\ call' = [call EXCEPT ![t] =
          IF async THEN Reclaim(NoCall, need, keep, "idle")
          ELSE [NoCall EXCEPT !.pc = "freeze", !.kind = "reference",
                              !.need = need, !.keep = keep]]
    /\ UNCHANGED <<memory, lock, owners, device>>

\* vbar_free_model_range_synchronized of pages first..last
FreeRange(v, first, last, need) ==
    [NoCall EXCEPT !.pc = "freeze", !.kind = "model", !.vbar = v,
                   !.first = first, !.last = last, !.need = need]

\* vbar_set_watermark
SetWatermark(t, v, n) ==
    /\ call[t] = NoCall
    /\ lock = NoThread
    /\ Started
    /\ Usable(v)
    /\ vbar' = [vbar EXCEPT ![v].watermark = n]
    /\ call' = [call EXCEPT ![t] =
          IF n < vbar[v].watermark
          THEN FreeRange(v, n + 1, vbar[v].watermark, vbar[v].watermark - n)
          ELSE NoCall]
    /\ UNCHANGED <<page, order, total, lock, owners, device>>

\* vbar_free_memory: the watermark comes down, not below the limit, until k
\* pages above it can be freed.
FreeMemory(t, v, k) ==
    LET b == vbar[v]
        free(w) == {n \in (w + 1)..b.watermark :
                       Idle(page[<<v, n>>]) /\ ~page[<<v, n>>].unknown}
        target == IF b.watermark <= b.limit THEN b.watermark
                  ELSE CHOOSE w \in b.limit..b.watermark :
                         /\ w = b.limit \/ Cardinality(free(w)) >= k
                         /\ \A x \in (w + 1)..b.watermark : Cardinality(free(x)) < k
    IN  /\ call[t] = NoCall
        /\ lock = NoThread
        /\ Started
        /\ Usable(v)
        /\ vbar' = [vbar EXCEPT ![v].watermark = target]
        /\ call' = [call EXCEPT ![t] = FreeRange(v, target + 1, b.watermark, k)]
        /\ UNCHANGED <<page, order, total, lock, owners, device>>

-----------------------------------------------------------------------------
(* A fault.                                                                  *)

\* vbar_fault: pressure is relieved before the lock is taken.  The deficit is
\* what the budget and the requests of allocator callbacks ask for.
Fault(t, v, first, last, deficit) ==
    /\ call[t] = NoCall
    /\ lease[t] = NoRange
    /\ Started
    /\ Usable(v)
    /\ call' = [call EXCEPT ![t] =
          Reclaim([NoCall EXCEPT !.vbar = v, !.first = first, !.last = last],
                  deficit, NoVbar, "enter")]
    /\ UNCHANGED <<memory, lock, owners, device>>

\* The head of vbar_fault_locked.  A range above the watermark is reopened when
\* its absent pages fit the budget.
EnterFault(t, fits) ==
    LET c == call[t]
        above == c.last > vbar[c.vbar].watermark
    IN  /\ c.pc = "enter"
        /\ lock = NoThread
        /\ IF vbar[c.vbar].state = "closing" \/ (above /\ ~fits)
           THEN /\ call' = [call EXCEPT ![t] = NoCall]
                /\ UNCHANGED <<vbar, lock>>
           ELSE /\ call' = [call EXCEPT ![t].pc = "page", ![t].at = c.first]
                /\ vbar' = IF above THEN [vbar EXCEPT ![c.vbar].watermark = c.last]
                                    ELSE vbar
                /\ lock' = t
        /\ UNCHANGED <<page, order, total, owners, device, bounds>>

\* Where the fault of thread t stands.
AtPage(t)   == call[t].pc = "page" /\ call[t].at <= call[t].last
FaultPage(t) == <<call[t].vbar, call[t].at>>
Advanced(c) == [c EXCEPT !.at = @ + 1, !.tries = 0]

\* The pin of a page that turned out to be mapped.
Pinned(r) == [Canceled(r) EXCEPT !.pin = @ + 1]

\* Mutant of Unpinned: a fault that gives up keeps its pins.
Unpinned_Leaks(c, P) == P

\* vbar_unpin_range: the pins of the pages passed so far are taken back.
Unpinned(c, P) ==
    [p \in Pages |-> IF p \in {c.vbar} \X (c.first..(c.at - 1)) /\ P[p].pin > 0
                     THEN [P[p] EXCEPT !.pin = @ - 1] ELSE P[p]]

\* The fault gives up, leaving the pages P.
GiveUp(t, P) ==
    /\ page' = Unpinned(call[t], P)
    /\ call' = [call EXCEPT ![t] = NoCall]
    /\ lock' = NoThread

FaultHit(t) ==
    LET p == FaultPage(t) IN
    /\ AtPage(t)
    /\ call[t].tries = 0
    /\ IsMapped(page[p])
    /\ page' = [page EXCEPT ![p] = Pinned(@)]
    /\ call' = [call EXCEPT ![t] = Advanced(@)]
    /\ UNCHANGED <<vbar, order, total, lock, owners, device, bounds>>

\* A page whose mapping nobody knows is never used again.
FaultUnknown(t) ==
    LET r == page[FaultPage(t)] IN
    /\ AtPage(t)
    /\ call[t].tries = 0
    /\ r.handle /\ r.mapped = "unknown"
    /\ GiveUp(t, page)
    /\ UNCHANGED <<vbar, order, total, owners, device, bounds>>

\* A handle kept without a mapping is mapped again, and the page is a hit.
FaultRestore(t) ==
    LET p == FaultPage(t)  c == call[t] IN
    /\ AtPage(t)
    /\ c.tries = 0
    /\ page[p].handle /\ page[p].mapped = "unmapped"
    /\ \E o \in Restored(page[p], 1) :
          /\ Fails(o.failed)
          /\ vbar' = [vbar EXCEPT ![c.vbar].resident = @ + o.resident]
          /\ IF o.result = "ok"
             THEN /\ page' = [page EXCEPT ![p] = Pinned(o.page)]
                  /\ call' = [call EXCEPT ![t] = Advanced(@)]
                  /\ UNCHANGED lock
             ELSE GiveUp(t, [page EXCEPT ![p] = o.page])
    /\ UNCHANGED <<order, total, owners, device>>

\* The first absent page of a fault checks the capacity of the device.  (The
\* watermark cannot have moved: the lock was kept.)
FaultMiss(t) ==
    LET p == FaultPage(t)
        c == [call[t] EXCEPT !.tries = 1, !.checked = TRUE]
        missing == total + (c.last - c.at + 1) - Capacity
    IN  /\ AtPage(t)
        /\ c.pc = "page" /\ call[t].tries = 0
        /\ ~page[p].handle
        /\ call' = [call EXCEPT ![t] =
              IF call[t].checked THEN c ELSE Reclaim(c, missing, NoVbar, "page")]
        /\ UNCHANGED <<memory, lock, owners, device, bounds>>

\* Mutant of PagedIn: the page keeps its signature.
PagedIn_KeepsSerial(r) == [r EXCEPT !.evicting = FALSE, !.pin = @ + 1]

\* The page a successful vbar_map_new_page gives to the fault.
PagedIn(r) == [r EXCEPT !.evicting = FALSE, !.serial = @ + 1, !.pin = @ + 1]

\* Up to three attempts to map the page, with a reclaim after each that ran
\* out of memory: of the other VBARs first, then of every VBAR.
FaultMap(t, deficit) ==
    LET p == FaultPage(t)  c == call[t]
        Again == [c EXCEPT !.tries = @ + 1]
        After(need) == IF c.tries = 1 THEN Reclaim(Again, need, c.vbar, "page")
                                      ELSE Reclaim(Again, ReclaimFloor, NoVbar, "page")
    IN  /\ AtPage(t)
        /\ c.tries > 0
        /\ deficit > 0 => c.tries = 1
        /\ IF deficit > 0
           THEN /\ call' = [call EXCEPT ![t] = After(deficit)]
                /\ UNCHANGED <<page, vbar, total, lock, bounds>>
           ELSE \E o \in MappedNew(page[p]) :
                /\ Fails(o.failed)
                /\ total' = total + o.total
                /\ CASE o.result = "ok" ->
                        /\ page' = [page EXCEPT ![p] = PagedIn(o.page)]
                        /\ vbar' = [vbar EXCEPT ![c.vbar].resident = @ + 1]
                        /\ call' = [call EXCEPT ![t] = Advanced(@)]
                        /\ UNCHANGED lock
                     [] o.result = "oom" /\ c.tries < 3 ->
                        /\ page' = [page EXCEPT ![p] = o.page]
                        /\ call' = [call EXCEPT ![t] = After(1)]
                        /\ UNCHANGED <<vbar, lock>>
                     [] OTHER ->
                        /\ GiveUp(t, [page EXCEPT ![p] = o.page])
                        /\ UNCHANGED vbar
        /\ UNCHANGED <<order, owners, device>>

\* The fault returns its signatures.  The application copies the contents of
\* each page whose signature it does not know (README.md, "How it works"), and
\* trusts the others.
ReturnFault(t) ==
    LET c == call[t]
        R == [NoRange EXCEPT !.vbar = c.vbar, !.first = c.first, !.last = c.last]
        Filled(r) == IF r.known = r.serial THEN r
                     ELSE [r EXCEPT !.known = r.serial, !.content = TRUE]
    IN  /\ c.pc = "page" /\ c.at > c.last
        /\ page' = [p \in Pages |-> IF p \in RangePages(R) THEN Filled(page[p])
                                                           ELSE page[p]]
        /\ lease' = [lease EXCEPT ![t] = R]
        /\ call' = [call EXCEPT ![t] = NoCall]
        /\ lock' = NoThread
        /\ UNCHANGED <<vbar, order, total, hold, device, bounds>>

-----------------------------------------------------------------------------
(* The consumers of a range.                                                 *)

Lease(own, t) == IF own = "lease" THEN lease[t] ELSE hold[t]

Used(own, t, Q) ==
    IF own = "lease" THEN lease' = [lease EXCEPT ![t].queues = Q] /\ UNCHANGED hold
                     ELSE hold' = [hold EXCEPT ![t].queues = Q] /\ UNCHANGED lease

\* An operator that reads the range is submitted to queue q.  A hold is released
\* with one queue, so its owner uses one.
Submit(t, own, q) ==
    LET R == Lease(own, t) IN
    /\ call[t] = NoCall
    /\ R # NoRange
    /\ own = "hold" => R.queues \subseteq {q}
    /\ submitted[q] < MaxOps
    /\ submitted' = [submitted EXCEPT ![q] = @ + 1]
    /\ inflight' = inflight \cup {[queue |-> q, n |-> submitted[q] + 1,
                                   pages |-> RangePages(R)]}
    /\ Used(own, t, R.queues \cup {q})
    /\ UNCHANGED <<async, memory, lock, call, bounds>>

Finish(o) ==
    /\ o \in inflight
    /\ inflight' = inflight \ {o}
    /\ UNCHANGED <<async, memory, lock, call, owners, submitted, bounds>>

\* vbar_consumer_dependency: the token of the queue the caller names, which is
\* unknown when the caller names none or its registration fails.
TokenOf(q) == [queue |-> q, upto |-> IF q = NoQueue THEN 0 ELSE submitted[q]]

\* The token is taken before the lock of vbar_register_consumer_stream,
\* vbar_unpin_stream and vbar_consumer_release.  The last two name the one
\* queue that still has unregistered work.
TakeToken(t, pc, q) ==
    LET R == IF pc = "release" THEN hold[t] ELSE lease[t] IN
    /\ call[t] = NoCall
    /\ R # NoRange
    /\ IF q = NoQueue THEN Fails(1) ELSE Fails(0)
    /\ pc # "register" /\ q # NoQueue => R.queues \subseteq {q}
    /\ call' = [call EXCEPT ![t].pc = pc, ![t].token = TokenOf(q)]
    /\ UNCHANGED <<memory, lock, owners, device>>

\* A consumer that is about to leave the page behind.
Depends(r, token) ==
    IF token.queue = NoQueue
    THEN IF r.capture > 0 THEN Canceled(r) ELSE [Canceled(r) EXCEPT !.unknown = TRUE]
    ELSE IF async THEN Recorded(Canceled(r), token) ELSE Canceled(r)

Register(t) ==
    LET R == lease[t]  token == call[t].token IN
    /\ call[t].pc = "register"
    /\ lock = NoThread
    /\ page' = [p \in Pages |->
          IF p \in RangePages(R) /\ IsMapped(page[p]) /\ page[p].pin > 0
          THEN Depends(page[p], token) ELSE page[p]]
    /\ lease' = [lease EXCEPT ![t].queues = @ \ {token.queue}]
    /\ call' = [call EXCEPT ![t] = NoCall]
    /\ UNCHANGED <<vbar, order, total, lock, hold, device, bounds>>

Unpin(t) ==
    LET R == lease[t]  token == call[t].token IN
    /\ call[t].pc = "unpin"
    /\ lock = NoThread
    /\ page' = [p \in Pages |->
          IF p \in RangePages(R) /\ page[p].pin > 0
          THEN [Depends(page[p], token) EXCEPT !.pin = @ - 1] ELSE page[p]]
    /\ lease' = [lease EXCEPT ![t] = NoRange]
    /\ call' = [call EXCEPT ![t] = NoCall]
    /\ UNCHANGED <<vbar, order, total, lock, hold, device, bounds>>

Holds(r, kind) == IF kind = "external" THEN r.external ELSE r.capture
WithHolds(r, kind, n) == IF kind = "external" THEN [r EXCEPT !.external = n]
                                              ELSE [r EXCEPT !.capture = n]

\* vbar_consumer_acquire: every page of the range, or none.
Acquire(t, R) ==
    /\ call[t] = NoCall
    /\ hold[t] = NoRange
    /\ lock = NoThread
    /\ Started
    /\ vbar[R.vbar].state = "live"
    /\ \A p \in RangePages(R) : IsMapped(page[p])
    /\ page' = [p \in Pages |->
          IF p \in RangePages(R)
          THEN WithHolds(Canceled(page[p]), R.kind, Holds(page[p], R.kind) + 1)
          ELSE page[p]]
    /\ hold' = [hold EXCEPT ![t] = R]
    /\ UNCHANGED <<vbar, order, total, lock, call, lease, device>>

\* vbar_consumer_release.  (The pages of a hold stay mapped, see PinsAreLeases:
\* the check before the first page is touched does not fail.)
Release(t) ==
    LET R == hold[t]  token == call[t].token
        Let(r) == IF token.queue = NoQueue THEN [Canceled(r) EXCEPT !.unknown = TRUE]
                                           ELSE Depends(r, token)
    IN  /\ call[t].pc = "release"
        /\ lock = NoThread
        /\ \A p \in RangePages(R) : IsMapped(page[p]) /\ Holds(page[p], R.kind) > 0
        /\ page' = [p \in Pages |->
              IF p \in RangePages(R)
              THEN WithHolds(Let(page[p]), R.kind, Holds(page[p], R.kind) - 1)
              ELSE page[p]]
        /\ hold' = [hold EXCEPT ![t] = NoRange]
        /\ call' = [call EXCEPT ![t] = NoCall]
        /\ UNCHANGED <<vbar, order, total, lock, lease, device, bounds>>

\* aimdo_vbar_copy_acquire of a range in v, and aimdo_vbar_copy_release when the
\* driver has finished the copy.
CopyAcquire(v) ==
    /\ lock = NoThread
    /\ vbar[v].state = "live"
    /\ vbar[v].copies < MaxCopies
    /\ vbar' = [vbar EXCEPT ![v].copies = @ + 1]
    /\ UNCHANGED <<page, order, total, lock, call, owners, device, bounds>>

CopyRelease(v) ==
    /\ lock = NoThread
    /\ vbar[v].copies > 0
    /\ vbar' = [vbar EXCEPT ![v].copies = @ - 1]
    /\ UNCHANGED <<page, order, total, lock, call, owners, device, bounds>>

-----------------------------------------------------------------------------
(* vbar_free.                                                                *)

\* New faults are refused, and what was submitted is drained.  No fault of the
\* VBAR is on its way; a reclaim of its pages may be.
Free(t, v) ==
    /\ call[t] = NoCall
    /\ lock = NoThread
    /\ Started
    /\ vbar[v].state = "live"
    /\ \A u \in Threads : call[u].vbar = v => call[u].kind = "model"
    /\ vbar' = [vbar EXCEPT ![v].state = "closing"]
    /\ call' = [call EXCEPT ![t] = [NoCall EXCEPT !.pc = "drain", !.kind = "free",
                                       !.vbar = v, !.waits = inflight]]
    /\ UNCHANGED <<page, order, total, lock, owners, device>>

\* A page that keeps its VBAR from being torn down.
Busy(v, n) == LET r == page[<<v, n>>] IN
              vbar[v].copies > 0 \/ r.pin > 0 \/ Held(r) \/ r.unknown

\* Mutant of CheckFree: the teardown begins after one drain.
CheckFree_DrainsOnce(t) ==
    LET c == call[t] IN
    /\ c.pc = "check"
    /\ lock = NoThread
    /\ call' = [call EXCEPT ![t] =
          IF \E n \in 1..NPages : Busy(c.vbar, n) THEN NoCall
          ELSE [c EXCEPT !.pc = "recheck"]]
    /\ UNCHANGED <<memory, lock, owners, device, bounds>>

\* Between the drains nobody may own a page, or the VBAR stays closing.
CheckFree(t) ==
    LET c == call[t] IN
    /\ c.pc = "check"
    /\ lock = NoThread
    /\ call' = [call EXCEPT ![t] =
          IF \E n \in 1..NPages : Busy(c.vbar, n) THEN NoCall
          ELSE [c EXCEPT !.pc = "redrain", !.waits = inflight]]
    /\ UNCHANGED <<memory, lock, owners, device, bounds>>

BeginTeardown(t) ==
    /\ call[t].pc = "recheck"
    /\ lock = NoThread
    /\ lock' = t
    /\ call' = [call EXCEPT ![t].pc = "teardown", ![t].at = 1]
    /\ UNCHANGED <<memory, owners, device, bounds>>

\* One page of the teardown, which stops at the first page that is owned or
\* whose physical memory is not given back.
TeardownPage(t) ==
    LET c == call[t]  p == <<c.vbar, c.at>>  r == Canceled(page[p])
        Stop == call' = [call EXCEPT ![t] = NoCall] /\ lock' = NoThread
        GoOn == call' = [call EXCEPT ![t].at = @ + 1] /\ UNCHANGED lock
    IN  /\ c.pc = "teardown"
        /\ c.at <= NPages
        /\ IF Busy(c.vbar, c.at) THEN Stop /\ UNCHANGED <<page, vbar, total, bounds>>
           ELSE IF IsMapped(r)
           THEN \E o \in Released(r) :
                   /\ Fails(o.failed)
                   /\ page' = [page EXCEPT ![p] = o.page]
                   /\ total' = total + o.total
                   /\ vbar' = [vbar EXCEPT ![c.vbar].resident = @ + o.resident]
                   /\ IF o.result = "freed" THEN GoOn ELSE Stop
           ELSE /\ page' = [page EXCEPT ![p] = r]
                /\ IF r.handle THEN Stop ELSE GoOn
                /\ UNCHANGED <<vbar, total, bounds>>
        /\ UNCHANGED <<order, owners, device>>

\* Mutant of EndTeardown: the VBAR stays in the list.
EndTeardown_StaysListed(t, refused) ==
    LET v == call[t].vbar IN
    /\ call[t].pc = "teardown"
    /\ call[t].at > NPages
    /\ Fails(IF refused THEN 1 ELSE 0)
    /\ vbar' = IF refused THEN vbar ELSE [vbar EXCEPT ![v].state = "gone"]
    /\ call' = [call EXCEPT ![t] = NoCall]
    /\ lock' = NoThread
    /\ UNCHANGED <<page, order, total, owners, device>>

\* The address range is given back, and the VBAR leaves the list.
EndTeardown(t, refused) ==
    LET v == call[t].vbar IN
    /\ call[t].pc = "teardown"
    /\ call[t].at > NPages
    /\ Fails(IF refused THEN 1 ELSE 0)
    /\ IF refused THEN UNCHANGED <<vbar, order>>
       ELSE /\ vbar' = [vbar EXCEPT ![v].state = "gone"]
            /\ order' = Moved(v)
    /\ call' = [call EXCEPT ![t] = NoCall]
    /\ lock' = NoThread
    /\ UNCHANGED <<page, total, owners, device>>

-----------------------------------------------------------------------------
ListNext ==
    \E v \in Vbars :
        \/ Allocate(v) \/ Prioritize(v) \/ Deprioritize(v)
        \/ CopyAcquire(v) \/ CopyRelease(v)

LimitNext ==
    \/ \E v \in Vbars, n \in 0..NPages : Usable(v) /\ SetLimit({v}, n)
    \/ SetLimit({v \in Vbars : InList(v)}, 0)

ReclaimNext(t) ==
    \/ \E need \in 1..MaxNeed, keep \in {NoVbar} \cup Vbars : Pressure(t, need, keep)
    \/ \E v \in Vbars, n \in 0..NPages : SetWatermark(t, v, n) \/ FreeMemory(t, v, n)
    \/ Snapshot(t) \/ Freeze(t) \/ Commit(t)
    \/ Synchronized(t) \/ SynchronizeFails(t)

FaultNext(t) ==
    \/ \E v \in Vbars, first, last \in 1..NPages, deficit \in 0..MaxNeed :
          first <= last /\ Fault(t, v, first, last, deficit)
    \/ \E fits \in BOOLEAN : EnterFault(t, fits)
    \/ FaultHit(t) \/ FaultUnknown(t) \/ FaultRestore(t) \/ FaultMiss(t)
    \/ \E deficit \in 0..MaxNeed : FaultMap(t, deficit)
    \/ ReturnFault(t)

ConsumerNext(t) ==
    \/ \E own \in {"lease", "hold"}, q \in Queues : Submit(t, own, q)
    \/ \E pc \in {"register", "unpin", "release"}, q \in {NoQueue} \cup Queues :
          TakeToken(t, pc, q)
    \/ Register(t) \/ Unpin(t) \/ Release(t)
    \/ \E v \in Vbars, first, last \in 1..NPages, kind \in HoldKinds :
          /\ first <= last
          /\ Acquire(t, [vbar |-> v, first |-> first, last |-> last, kind |-> kind,
                         queues |-> {}])

FreeNext(t) ==
    \/ \E v \in Vbars : Free(t, v)
    \/ CheckFree(t) \/ BeginTeardown(t) \/ TeardownPage(t)
    \/ \E refused \in BOOLEAN : EndTeardown(t, refused)

\* Nothing is left to do once the calls of the bound are used up.
Quiet == /\ \A t \in Threads : call[t] = NoCall /\ lease[t] = NoRange
                               /\ hold[t] = NoRange
         /\ inflight = {}
         /\ UNCHANGED vars

Next ==
    \/ ListNext \/ LimitNext
    \/ \E t \in Threads : \/ ReclaimNext(t) \/ FaultNext(t)
                          \/ ConsumerNext(t) \/ FreeNext(t)
    \/ \E o \in inflight : Finish(o)
    \/ Quiet

Spec == Init /\ [][Next]_vars

\* A thread inside a call goes on, and the device finishes what it was given.
\* Nothing is assumed of callers: pins, holds and copies may last for ever.
Step(t) ==
    \/ Snapshot(t) \/ Freeze(t) \/ Commit(t) \/ Synchronized(t)
    \/ \E fits \in BOOLEAN : EnterFault(t, fits)
    \/ FaultHit(t) \/ FaultUnknown(t) \/ FaultRestore(t) \/ FaultMiss(t)
    \/ \E deficit \in 0..MaxNeed : FaultMap(t, deficit)
    \/ ReturnFault(t) \/ Register(t) \/ Unpin(t) \/ Release(t)
    \/ CheckFree(t) \/ BeginTeardown(t) \/ TeardownPage(t)
    \/ \E refused \in BOOLEAN : EndTeardown(t, refused)

FairSpec == /\ Spec
            /\ \A t \in Threads : WF_vars(Step(t))
            /\ WF_vars(\E o \in inflight : Finish(o))

-----------------------------------------------------------------------------
LeaseRecord == [vbar : Vbars \cup {NoVbar}, first : 1..NPages, last : 0..NPages,
          kind : {"none", "external", "capture"}, queues : SUBSET Queues]

Candidate == [page : Pages, serial : Nat, gen : Nat]

Operator == [queue : Queues, n : 1..MaxOps, pages : SUBSET Pages]

\* The state has the types the comments above give it.
TypeOK ==
    /\ async \in Modes
    /\ page \in [Pages -> [handle : BOOLEAN,
                           mapped : {"unmapped", "mapped", "unknown"},
                           pin : Nat, serial : Nat, evicting : BOOLEAN, gen : Nat,
                           external : Nat, capture : Nat,
                           tokens : [Queues -> 0..MaxOps], unknown : BOOLEAN,
                           content : BOOLEAN, known : Nat \cup {NoSignature}]]
    /\ vbar \in [Vbars -> [state : {"none", "live", "closing", "gone"},
                           watermark : 0..NPages, limit : 0..NPages,
                           resident : Nat, copies : 0..MaxCopies]]
    /\ \A v \in Vbars : Cardinality({i \in 1..Len(order) : order[i] = v}) =
                         IF InList(v) THEN 1 ELSE 0
    /\ total \in Nat
    /\ lock \in Threads \cup {NoThread}
    /\ \A t \in Threads : /\ call[t].need \in Nat
                          /\ \A k \in call[t].candidates : k \in Candidate
                          /\ lease[t] \in LeaseRecord /\ hold[t] \in LeaseRecord
    /\ submitted \in [Queues -> 0..MaxOps]
    /\ inflight \subseteq Operator
    /\ calls \in 0..MaxCalls /\ faults \in 0..MaxFaults

\* No operator loses the memory under it: every page that work in flight reads
\* is mapped, however the scans, commits, unpins, releases and teardowns of the
\* threads interleave ("VBAR pages are reclaimed only when unpinned and safe to
\* retire").
WorkIsBacked ==
    \A o \in inflight : \A p \in o.pages : IsMapped(page[p])

\* A pin is never lost or left behind: each is the pin of a range some thread
\* still has to unpin, or of a fault on its way, whichever way faults fail; and
\* a page somebody owns is mapped.
FaultRange(t) ==
    IF lock = t /\ call[t].kind # "free"
    THEN {call[t].vbar} \X (call[t].first..(call[t].at - 1)) ELSE {}

PinsAreLeases ==
    \A p \in Pages :
       /\ page[p].pin = Cardinality({t \in Threads : p \in RangePages(lease[t])})
                      + Cardinality({t \in Threads : p \in FaultRange(t)})
       /\ page[p].pin > 0 \/ Held(page[p]) => IsMapped(page[p])

\* total_vram_usage counts the physical pages owned and resident_count the pages
\* of the VBAR that are mapped, through every failure of the driver.
UsageIsCounted ==
    /\ total = Cardinality({p \in Pages : page[p].handle})
    /\ \A v \in Vbars : vbar[v].resident =
          Cardinality({p \in Pages : p[1] = v /\ IsMapped(page[p])})

\* A frozen page is some reclaim's business, and of one only: it will be freed or
\* given back.  (A page frozen by nobody would never be reclaimed again.)
FrozenPagesAreOwned ==
    \A p \in Pages : page[p].evicting =>
       Cardinality({t \in Threads : \E k \in call[t].candidates :
                       k.page = p /\ k.gen = page[p].gen}) = 1

\* What a fault returned holds what the application copied there: a signature
\* the application knows is never returned for memory that lost its contents.
LeasesHaveContent ==
    \A t \in Threads : \A p \in RangePages(lease[t]) : page[p].content

\* While the driver copies to or from a VBAR, none of its mappings goes away.
CopiesKeepMappings ==
    [][\A p \in Pages : vbar[p[1]].copies > 0 /\ IsMapped(page[p])
                           => IsMapped(page[p])']_vars

\* Every call returns: a reclaim or a fault waits for the device and for the lock,
\* never for a pin, a hold or a copy that somebody may keep for ever, and no loop
\* repeats without having freed a page (a copy, or an operator of a moment ago,
\* may keep every frozen page from being freed, again and again).
EveryCallReturns == \A t \in Threads : call[t] # NoCall ~> call[t] = NoCall
=============================================================================
