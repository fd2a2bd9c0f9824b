----------------------------- MODULE HostBuffer -----------------------------
(***************************************************************************)
(* A growing host buffer (src/hostbuf.c) with the thread that returns its  *)
(* memory in the background (src/hostbuf-decommit.c) and the threads that  *)
(* touch new pages before they are used (src/hostbuf-prewarm.c).  Sizes    *)
(* are in units of which PageUnits make a page; pages are numbered.        *)
(* On XPU registering host memory does nothing and always succeeds, so it  *)
(* is left out.  The caller reallocates only the chunk it extended last.   *)
(***************************************************************************)
EXTENDS Integers, FiniteSets, Sequences

CONSTANTS
    PageUnits,
    Reserved,       \* reserved_size
    Prewarm,        \* prewarm
    QueueLimit,     \* HOSTBUF_DECOMMIT_QUEUE_LIMIT
    Helpers,        \* HOSTBUF_PREWARM_THREADS
    Sizes,          \* bound: what the caller asks for
    MaxFaults       \* bound: calls that fail

ASSUME HostBufferAssumption ==
    /\ {PageUnits, QueueLimit, Helpers} \subseteq Nat \ {0}
    /\ Sizes \subseteq Nat /\ {Prewarm, MaxFaults} \subseteq Nat
    /\ Reserved \in Nat /\ Reserved % PageUnits = 0

VARIABLES
    base, size, committed_size, last_chunk_size,    \* struct HostBuffer
    reserved, backed,   \* what the system holds: the reservation, its pages
    touched,            \* the pages written since they were committed
    jobs, queued, pending,      \* the decommit queue
    warm, helpers,      \* the mutex of the pool is there; its threads
    busy, todo,         \* the threads (there or not) yet to finish, their units
    pc, hcall,           \* the call of the owner
    held,               \* the chunks the caller holds: <<first, end>>
    fresh,              \* the chunk of last_chunk_size is the last one held
    lost,               \* a call dropped memory without returning it
    faults

fields  == <<base, size, committed_size, last_chunk_size>>
system  == <<reserved, backed, touched>>
queue   == <<jobs, queued, pending>>
prewarm == <<warm, helpers, busy, todo>>
caller  == <<held, fresh, lost>>
hostVars == <<fields, system, queue, prewarm, caller, pc, hcall, faults>>

Up(n)   == ((n + PageUnits - 1) \div PageUnits) * PageUnits
Lower(m, n) == IF m < n THEN m ELSE n
Upper(m, n) == IF m > n THEN m ELSE n
\* The pages of the units from lo up to hi.
Pages(lo, hi) == (lo \div PageUnits) .. (((hi + PageUnits - 1) \div PageUnits) - 1)
AllPages == Pages(0, Reserved)
NoHostCall   == [name |-> "none"]

HostInit ==
    /\ base = FALSE /\ size = 0 /\ committed_size = 0 /\ last_chunk_size = 0
    /\ reserved = FALSE /\ backed = {} /\ touched = {}
    /\ jobs = <<>> /\ queued = 0 /\ pending = 0
    /\ warm = FALSE /\ helpers = 0
    /\ busy = {} /\ todo = [i \in 1..Helpers |-> {}]
    /\ pc = "idle" /\ hcall = NoHostCall
    /\ held = {} /\ fresh = FALSE /\ lost = FALSE
    /\ faults = 0

Fault == faults < MaxFaults /\ faults' = faults + 1
Return == pc' = "idle" /\ hcall' = NoHostCall

-----------------------------------------------------------------------------
(* The prewarm pool.                                                        *)

\* The units a thread writes between lo and hi: one per page.
Share(i, lo, hi) ==
    LET count == (hi - lo + PageUnits - 1) \div PageUnits
        span  == (count + Helpers - 1) \div Helpers
    IN  {lo + k * PageUnits : k \in (i - 1) * span .. Lower(i * span, count) - 1}

\* Mutant of StartPrewarm: the span of a thread is rounded down.
StartPrewarm_Floor(lo, hi) ==
    /\ warm' = TRUE
    /\ helpers' = IF warm THEN helpers ELSE Helpers
    /\ busy' = 1..Helpers
    /\ LET span == ((hi - lo + PageUnits - 1) \div PageUnits) \div Helpers IN
       todo' = [i \in 1..Helpers |->
                   {lo + k * PageUnits : k \in (i - 1) * span .. i * span - 1}]
    /\ UNCHANGED faults

\* hostbuf_prewarm_start, with no work under way: the first start makes the
\* pool, whose mutex stays even if not all of its threads can be made.
StartPrewarm(lo, hi) ==
    /\ warm' = TRUE
    /\ helpers' = IF warm THEN helpers ELSE Helpers
    /\ busy' = 1..Helpers
    /\ todo' = [i \in 1..Helpers |-> Share(i, lo, hi)]
    /\ UNCHANGED faults
PrewarmFails ==
    /\ ~warm /\ Fault
    /\ warm' = TRUE
    /\ helpers' \in 0..Helpers - 1
    /\ UNCHANGED <<busy, todo>>

\* hostbuf_prewarm_join returns.
Joined == busy = {}

Touch(i) ==
    /\ i \in busy /\ i <= helpers /\ todo[i] # {}
    /\ \E u \in todo[i] :
          /\ \A v \in todo[i] : u <= v
          /\ todo' = [todo EXCEPT ![i] = @ \ {u}]
          /\ touched' = touched \cup Pages(u, u + 1)
    /\ UNCHANGED <<fields, reserved, backed, queue, warm, helpers, busy, caller, pc, hcall, faults>>

EndWork(i) ==
    /\ i \in busy /\ i <= helpers /\ todo[i] = {}
    /\ busy' = busy \ {i}
    /\ UNCHANGED <<fields, system, queue, warm, helpers, todo, caller, pc, hcall, faults>>

-----------------------------------------------------------------------------
(* The decommit queue.                                                      *)

\* hostbuf_decommit_async, once there is space in the queue.
Queue(job) ==
    /\ jobs' = Append(jobs, job)
    /\ pending' = pending + 1
    /\ queued' = IF job.release THEN queued ELSE queued + job.hi - job.lo

\* hostbuf_decommit_worker, one job.
Decommit ==
    /\ jobs # <<>>
    /\ LET job == Head(jobs) IN
       /\ reserved' = (reserved /\ ~job.release)
       /\ backed' = backed \ Pages(job.lo, job.hi)
       /\ touched' = touched \ Pages(job.lo, job.hi)
       /\ queued' = IF job.release THEN queued ELSE queued - (job.hi - job.lo)
    /\ jobs' = Tail(jobs)
    /\ pending' = pending - 1
    /\ UNCHANGED <<fields, prewarm, caller, pc, hcall, faults>>

-----------------------------------------------------------------------------
(* hostbuf_extend and hostbuf_grow.                                         *)

Extend(n, realloc) ==
    /\ pc = "idle"
    /\ realloc => fresh
    /\ pc' = "extend"
    /\ hcall' = [name |-> "extend", size |-> n, realloc |-> realloc]
    /\ UNCHANGED <<fields, system, queue, prewarm, caller, faults>>

\* hostbuf_decommit_wait returns.
Settled == pending = 0

\* Where the new chunk starts: reallocation drops the last one.
Offset == IF hcall.realloc THEN size - last_chunk_size ELSE size

\* What the caller is left with when its last chunk is dropped.
Kept == {r \in held : r[2] <= Offset}

\* The pages that grow commits: enough to prewarm ahead, unless the gain would
\* be small.
Target(end) ==
    LET target == Up(end + Prewarm) IN
    IF target < committed_size + Prewarm \div 4 THEN committed_size ELSE target

\* The extension fails; the dropped chunk is gone nevertheless.
ExtendFails ==
    /\ Return
    /\ fresh' = (fresh /\ ~hcall.realloc)
    /\ UNCHANGED <<queue, last_chunk_size, lost>>

\* The buffer is large enough as it is.
ExtendInPlace ==
    /\ pc = "extend" /\ Settled /\ hcall.size = 0
    /\ size' = Offset
    /\ last_chunk_size' = 0
    /\ held' = Kept /\ fresh' = FALSE
    /\ Return
    /\ UNCHANGED <<base, committed_size, system, queue, prewarm, lost, faults>>

\* The reservation is made; it must hold what is to be committed.
ExtendReserve ==
    /\ pc = "extend" /\ Settled /\ hcall.size > 0
    /\ size' = Offset
    /\ held' = Kept
    /\ base' = TRUE /\ reserved' = TRUE
    /\ IF Target(Offset + hcall.size) > Reserved
       THEN ExtendFails
       ELSE pc' = "grow" /\ UNCHANGED <<hcall, queue, last_chunk_size, fresh, lost>>
    /\ UNCHANGED <<committed_size, backed, touched, prewarm, faults>>

ReserveFails ==
    /\ pc = "extend" /\ Settled /\ hcall.size > 0 /\ ~base
    /\ Fault
    /\ size' = Offset
    /\ held' = Kept
    /\ ExtendFails
    /\ UNCHANGED <<base, committed_size, system, prewarm>>

End == size + hcall.size

\* The tail is committed, and what is needed of it is touched.
GrowCommit ==
    /\ pc = "grow" /\ Joined
    /\ backed' = backed \cup Pages(committed_size, Target(End))
    /\ IF End > committed_size
       THEN StartPrewarm(committed_size, End)
       ELSE UNCHANGED <<prewarm, faults>>
    /\ pc' = "warm"
    /\ UNCHANGED <<fields, reserved, touched, queue, caller, hcall>>

\* The commit fails, or the pool cannot be made and the tail is decommitted.
GrowFails ==
    /\ pc = "grow" /\ Joined
    /\ \/ Target(End) > committed_size /\ Fault /\ UNCHANGED prewarm
       \/ End > committed_size /\ PrewarmFails
    /\ ExtendFails
    /\ UNCHANGED <<base, size, committed_size, system, held>>

\* Mutant of Rest: the rest starts where the commit did.
Rest_All == committed_size

\* Where the memory starts that is committed but not needed yet.
Rest == Upper(committed_size, End)

\* The rest of the tail is touched in the background; the pool exists by now.
GrowEnd ==
    /\ pc = "warm" /\ Joined
    /\ IF Target(End) > Rest THEN StartPrewarm(Rest, Target(End))
       ELSE UNCHANGED <<prewarm, faults>>
    /\ committed_size' = Target(End)
    /\ size' = End
    /\ last_chunk_size' = hcall.size
    /\ held' = held \cup {<<size, End>>} /\ fresh' = TRUE
    /\ Return
    /\ UNCHANGED <<base, system, queue, lost>>

-----------------------------------------------------------------------------
(* hostbuf_truncate and hostbuf_free.                                       *)

\* The caller gives up the chunks that do not fit any more.
Truncate(n) ==
    /\ pc = "idle" /\ n < size
    /\ held' = {r \in held : r[2] <= n} /\ fresh' = FALSE
    /\ pc' = "truncate"
    /\ hcall' = [name |-> "truncate", size |-> n]
    /\ UNCHANGED <<fields, system, queue, prewarm, lost, faults>>

\* An empty buffer is not truncated: what it still has is dropped.
Free ==
    /\ pc = "idle"
    /\ held' = {} /\ fresh' = FALSE
    /\ hcall' = [name |-> "free", size |-> 0]
    /\ pc' = IF size > 0 THEN "truncate" ELSE "destroy"
    /\ lost' = (size = 0 /\ base)
    /\ UNCHANGED <<fields, system, queue, prewarm, faults>>

BeginDecommit ==
    /\ pc = "truncate" /\ Joined
    /\ pc' = "decommit"
    /\ hcall' = [name |-> hcall.name, size |-> hcall.size, done |-> Up(hcall.size)]
    /\ UNCHANGED <<fields, system, queue, prewarm, caller, faults>>

\* Mutant of Part: the tail is queued as a whole.
Part_Whole == committed_size - hcall.done

Part == Lower(QueueLimit, committed_size - hcall.done)

\* Mutant of HasSpace: the queue is never full for a part that fits it alone.
HasSpace_Alone == Part <= QueueLimit

HasSpace == queued + Part <= QueueLimit

\* Parts of the tail are queued, as much as the queue takes.
QueuePart ==
    /\ pc = "decommit" /\ hcall.done < committed_size /\ HasSpace
    /\ Queue([lo |-> hcall.done, hi |-> hcall.done + Part, release |-> FALSE])
    /\ hcall' = [hcall EXCEPT !.done = @ + Part]
    /\ UNCHANGED <<fields, system, prewarm, caller, pc, faults>>

\* What follows a truncation, in hostbuf_truncate and in hostbuf_free.
Truncated ==
    IF hcall.name = "free" THEN pc' = "destroy" /\ UNCHANGED hcall ELSE Return

\* A part cannot be queued: the buffer keeps its sizes, but not its pages.
QueueFails ==
    /\ pc = "decommit" /\ hcall.done < committed_size
    /\ Fault
    /\ lost' = TRUE
    /\ Truncated
    /\ UNCHANGED <<fields, system, queue, prewarm, held, fresh>>

\* An empty buffer gives its reservation back.
TruncateEnd ==
    /\ pc = "decommit" /\ hcall.done >= committed_size
    /\ size' = hcall.size
    /\ committed_size' = Lower(committed_size, Up(hcall.size))
    /\ IF hcall.size = 0
       THEN /\ Queue([lo |-> 0, hi |-> Reserved, release |-> TRUE])
            /\ base' = FALSE
       ELSE UNCHANGED <<queue, base>>
    /\ Truncated
    /\ UNCHANGED <<last_chunk_size, system, prewarm, caller, faults>>

ReleaseFails ==
    /\ pc = "decommit" /\ hcall.done >= committed_size /\ hcall.size = 0
    /\ Fault
    /\ size' = 0 /\ committed_size' = 0
    /\ lost' = TRUE
    /\ Truncated
    /\ UNCHANGED <<base, last_chunk_size, system, queue, prewarm, held, fresh>>

\* Mutant of DestroyBuffer: the queue is not waited for.
DestroyBuffer_Early ==
    /\ pc = "destroy"
    /\ pc' = "gone"
    /\ UNCHANGED <<fields, system, queue, prewarm, caller, hcall, faults>>

\* hostbuf_decommit_state_destroy waits for the queue, and the buffer is gone.
DestroyBuffer ==
    /\ pc = "destroy" /\ pending = 0
    /\ pc' = "gone"
    /\ UNCHANGED <<fields, system, queue, prewarm, caller, hcall, faults>>

\* hostbuf_allocate: another buffer.
Allocate ==
    /\ pc = "gone" /\ ~lost
    /\ base' = FALSE /\ size' = 0 /\ committed_size' = 0 /\ last_chunk_size' = 0
    /\ Return
    /\ UNCHANGED <<system, queue, prewarm, caller, faults>>

-----------------------------------------------------------------------------
OwnerSteps ==
    \/ ExtendInPlace \/ ExtendReserve \/ ReserveFails
    \/ GrowCommit \/ GrowFails \/ GrowEnd
    \/ BeginDecommit \/ QueuePart \/ QueueFails \/ TruncateEnd \/ ReleaseFails
    \/ DestroyBuffer

HostNext ==
    \/ \E n \in Sizes, r \in BOOLEAN : Extend(n, r)
    \/ \E n \in Sizes : Truncate(n)
    \/ Free \/ Allocate
    \/ OwnerSteps
    \/ Decommit
    \/ \E i \in 1..Helpers : Touch(i) \/ EndWork(i)

HostSpec == HostInit /\ [][HostNext]_hostVars

\* A thread that can go on does; nobody owes a failure to a call that waits.
HostFairness ==
    /\ WF_hostVars(OwnerSteps /\ UNCHANGED faults) /\ WF_hostVars(Decommit)
    /\ \A i \in 1..Helpers : WF_hostVars(Touch(i) \/ EndWork(i))

-----------------------------------------------------------------------------
(* Properties.                                                              *)

Jobs == [lo : 0..Reserved, hi : 0..Reserved, release : BOOLEAN]

\* The sizes stay in order and within the reservation, the queue is counted
\* right, and it never holds more than its limit.
HostTypeOK ==
    /\ {size, committed_size, last_chunk_size} \subseteq 0..Reserved
    /\ pc = "idle" /\ fresh => last_chunk_size <= size
    /\ backed \subseteq AllPages
    /\ base => reserved \/ lost
    /\ pending = Len(jobs)
    /\ queued \in 0..QueueLimit
    /\ \A i \in DOMAIN jobs : jobs[i] \in Jobs /\ jobs[i].lo < jobs[i].hi
    /\ helpers \in 0..Helpers /\ busy \subseteq 1..Helpers
    /\ \A i \in 1..Helpers : todo[i] \subseteq 0..Reserved - 1
    /\ {base, reserved, warm, fresh, lost} \subseteq BOOLEAN

\* The memory of every chunk the caller holds is committed and has been
\* touched, whatever is decommitted or prewarmed meanwhile.
HeldMemoryIsReady ==
    \A r \in held : Pages(r[1], r[2]) \subseteq backed \cap touched \/ lost

\* A prewarm thread never writes into a chunk the caller holds, into memory
\* that is not committed, or into what a queued job is about to take away.
PrewarmIsHarmless ==
    \A i \in busy : \A u \in todo[i] :
        /\ \A r \in held : u \notin r[1] .. r[2] - 1
        /\ Pages(u, u + 1) \subseteq backed
        /\ \A j \in DOMAIN jobs : u \notin jobs[j].lo .. jobs[j].hi - 1

\* A buffer that is gone has returned all its memory, unless it was empty when
\* it was freed, or a part of its memory could not be queued.
GoneBuffersAreReturned == pc = "gone" => (~reserved /\ backed = {}) \/ lost

\* Every call returns, however the queue and the pool are doing, unless the pool
\* was created only in part: a start that comes later counts on all its threads
\* (the pool is taken for initialized by its mutex alone), so whoever joins next
\* waits for ever (hostbuf_prewarm_join).
CallsReturn == pc \notin {"idle", "gone"} ~> pc \in {"idle", "gone"} \/ (warm /\ helpers < Helpers)
=============================================================================
