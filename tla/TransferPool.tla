---------------------------- MODULE TransferPool ----------------------------
(***************************************************************************)
(* The file transfer pool (src/xfer-file.c).  A transfer is cut in chunks, *)
(* the chunks go through one bounded queue to a fixed set of threads, and  *)
(* the caller waits until all of its chunks were moved.  What it waits on  *)
(* (XferFileWait) lives on the caller's stack, so no thread may hold a     *)
(* chunk of a call that has returned.                                      *)
(*                                                                         *)
(* Each action is one critical section of a mutex, or the move of a chunk. *)
(* A thread in condvar_wait is "asleep"; a signal makes one sleeper run    *)
(* again, and so may nothing at all (SpuriousWake).                        *)
(***************************************************************************)
EXTENDS Naturals, Sequences, FiniteSets

CONSTANTS
    Callers,        \* threads that call xfer_file_read and xfer_file_write
    Threads,        \* XFER_FILE_THREADS
    QueueCap,       \* XFER_FILE_QUEUE_CAP
    MaxChunks,      \* bound: the longest transfer, in XFER_FILE_CHUNK_SIZE
    MaxCalls        \* bound: calls begun, all callers together

ASSUME TransferAssumption ==
    /\ IsFiniteSet(Callers)
    /\ Threads \in Nat \ {0}
    /\ QueueCap \in Nat \ {0}
    /\ MaxChunks \in Nat
    /\ MaxCalls \in Nat

VARIABLES
    pool,       \* "down", "starting", "up" or "stopping"
    stop,       \* g_xfer_file_reader.stop
    tasks,      \* the ring of tasks, from head to tail
    worker,     \* the threads of the pool
    call,       \* the latest transfer of each caller, its XferFileWait included
    calls       \* calls begun so far

poolVars == <<pool, stop, tasks, worker, call, calls>>

Workers == 1..Threads

Task == [caller : Callers, chunk : 1..MaxChunks]

NoWorker == [at |-> "none", task |-> <<>>]
RunningWorker == [NoWorker EXCEPT !.at = "running"]

NoCall == [at |-> "idle", total |-> 0, queued |-> 0, pending |-> 0,
           failed |-> FALSE, moved |-> {}, ok |-> TRUE]

PoolInit ==
    /\ pool   = "down"
    /\ stop   = FALSE
    /\ tasks  = <<>>
    /\ worker = [w \in Workers |-> NoWorker]
    /\ call   = [c \in Callers |-> NoCall]
    /\ calls  = 0

WorkersAt(at) == {w \in Workers : worker[w].at = at}

-----------------------------------------------------------------------------
(* Condition variables.                                                     *)

\* condvar_signal(has_items): one sleeping worker, if any, runs again.
WakeOneWorker ==
    LET asleep == WorkersAt("for_items") IN
    IF asleep = {} THEN UNCHANGED worker
    ELSE \E w \in asleep : worker' = [worker EXCEPT ![w].at = "running"]

\* Mutant of WakeAllWorkers: a signal instead of the broadcast.
WakeAllWorkers_SignalOnly == WakeOneWorker

\* condvar_broadcast(has_items)
WakeAllWorkers ==
    worker' = [w \in Workers |-> IF worker[w].at = "for_items"
                                 THEN RunningWorker ELSE worker[w]]

\* condvar_signal(has_space)
WakeOneProducer ==
    LET asleep == {c \in Callers : call[c].at = "for_space"} IN
    IF asleep = {} THEN UNCHANGED call
    ELSE \E c \in asleep : call' = [call EXCEPT ![c].at = "running"]

\* condvar_wait returns although nobody signalled; POSIX and Windows allow it.
SpuriousWake ==
    \/ /\ \E w \in WorkersAt("for_items") :
              worker' = [worker EXCEPT ![w].at = "running"]
       /\ UNCHANGED <<pool, stop, tasks, call, calls>>
    \/ /\ \E c \in Callers :
              /\ call[c].at \in {"for_space", "for_chunks"}
              /\ call' = [call EXCEPT ![c].at = "running"]
       /\ UNCHANGED <<pool, stop, tasks, worker, calls>>

-----------------------------------------------------------------------------
(* A caller: xfer_file_transfer.                                            *)

\* Mutant of BeginTransfer: the number of chunks is rounded down.
BeginTransfer_RoundsDown(c, n) ==
    /\ pool = "up"
    /\ call[c].at = "idle"
    /\ call' = [call EXCEPT ![c] =
           [NoCall EXCEPT !.at = "running", !.total = n,
                          !.pending = IF n = 0 THEN 0 ELSE n - 1, !.ok = FALSE]]
    /\ UNCHANGED <<pool, stop, tasks, worker>>

\* The call begins with a mutex and a condition variable of its own; it fails
\* at once if it cannot have them.
BeginTransfer(c, n) ==
    /\ pool = "up"
    /\ call[c].at = "idle"
    /\ \E allocated \in BOOLEAN :
           call' = [call EXCEPT ![c] =
               [NoCall EXCEPT !.at = IF allocated THEN "running" ELSE "idle",
                              !.total = n,
                              !.pending = n,
                              !.ok = FALSE]]
    /\ UNCHANGED <<pool, stop, tasks, worker>>

Begin ==
    /\ calls < MaxCalls
    /\ \E c \in Callers, n \in 0..MaxChunks : BeginTransfer(c, n)
    /\ calls' = calls + 1

\* Mutant of Enqueue: the capacity is not checked.
Enqueue_NoCapacityCheck(c) ==
    /\ call[c].at = "running"
    /\ call[c].queued < call[c].total
    /\ tasks' = Append(tasks, [caller |-> c, chunk |-> call[c].queued + 1])
    /\ call' = [call EXCEPT ![c].queued = @ + 1]
    /\ WakeOneWorker
    /\ UNCHANGED <<pool, stop, calls>>

\* The next chunk goes to the tail of the ring, or the caller sleeps until
\* the ring has space.
Enqueue(c) ==
    /\ call[c].at = "running"
    /\ call[c].queued < call[c].total
    /\ \/ /\ Len(tasks) = QueueCap
          /\ call' = [call EXCEPT ![c].at = "for_space"]
          /\ UNCHANGED <<tasks, worker>>
       \/ /\ Len(tasks) < QueueCap
          /\ tasks' = Append(tasks, [caller |-> c, chunk |-> call[c].queued + 1])
          /\ call' = [call EXCEPT ![c].queued = @ + 1]
          /\ WakeOneWorker
    /\ UNCHANGED <<pool, stop, calls>>

\* All chunks are queued.  The caller sleeps while any is pending; then it
\* destroys the wait and returns.
Collect(c) ==
    /\ call[c].at = "running"
    /\ call[c].queued = call[c].total
    /\ \/ /\ call[c].pending # 0
          /\ call' = [call EXCEPT ![c].at = "for_chunks"]
       \/ /\ call[c].pending = 0
          /\ call' = [call EXCEPT ![c].at = "idle",
                                  ![c].ok = ~call[c].failed]
    /\ UNCHANGED <<pool, stop, tasks, worker, calls>>

-----------------------------------------------------------------------------
(* A thread of the pool: xfer_file_worker.                                  *)

\* Mutant of Pop: a place is announced only when the ring was full.
Pop_SignalWhenFull(w) ==
    /\ worker[w].at = "running"
    /\ \/ /\ tasks = <<>>
          /\ worker' = [worker EXCEPT ![w].at = IF stop THEN "exited" ELSE "for_items"]
          /\ UNCHANGED <<tasks, call>>
       \/ /\ tasks # <<>>
          /\ worker' = [worker EXCEPT ![w] = [at |-> "moving", task |-> Head(tasks)]]
          /\ tasks' = Tail(tasks)
          /\ IF Len(tasks) = QueueCap THEN WakeOneProducer ELSE UNCHANGED call
    /\ UNCHANGED <<pool, stop, calls>>

\* xfer_file_task_pop: take the head and free a place, sleep on an empty ring,
\* or leave when the pool stops and the ring is empty.
Pop(w) ==
    /\ worker[w].at = "running"
    /\ \/ /\ tasks = <<>>
          /\ worker' = [worker EXCEPT ![w].at = IF stop THEN "exited" ELSE "for_items"]
          /\ UNCHANGED <<tasks, call>>
       \/ /\ tasks # <<>>
          /\ worker' = [worker EXCEPT ![w] = [at |-> "moving", task |-> Head(tasks)]]
          /\ tasks' = Tail(tasks)
          /\ WakeOneProducer
    /\ UNCHANGED <<pool, stop, calls>>

\* Mutant of Counted: the last chunk decides.
Counted_LastChunkDecides(r, k, ok) ==
    [r EXCEPT !.failed  = ~ok,
              !.pending = r.pending - 1,
              !.moved   = IF ok THEN @ \union {k} ELSE @,
              !.at      = IF r.pending = 1 /\ r.at = "for_chunks" THEN "running" ELSE @]

\* What a call becomes when its chunk k was moved (ok) or not.  The last chunk
\* signals the caller.
Counted(r, k, ok) ==
    [r EXCEPT !.failed  = ~ok \/ r.failed,
              !.pending = r.pending - 1,
              !.moved   = IF ok THEN @ \union {k} ELSE @,
              !.at      = IF r.pending = 1 /\ r.at = "for_chunks" THEN "running" ELSE @]

\* The chunk is read or written, and the call's wait is told.
Move(w) ==
    /\ worker[w].at = "moving"
    /\ LET t == worker[w].task IN
       \E ok \in BOOLEAN :
           call' = [call EXCEPT ![t.caller] = Counted(@, t.chunk, ok)]
    /\ worker' = [worker EXCEPT ![w] = RunningWorker]
    /\ UNCHANGED <<pool, stop, tasks, calls>>

-----------------------------------------------------------------------------
(* The life of the pool: xfer_file_init and xfer_file_cleanup.              *)

Initialize ==
    /\ pool = "down"
    /\ pool' = "starting"
    /\ stop' = FALSE
    /\ UNCHANGED <<tasks, worker, call, calls>>

\* Threads are created one after the other.  When one cannot be, the cleanup
\* joins those that run.
CreateThread ==
    /\ pool = "starting"
    /\ LET w == Threads + 1 - Cardinality(WorkersAt("none")) IN
       \/ /\ pool' = IF w = Threads THEN "up" ELSE "starting"
          /\ worker' = [worker EXCEPT ![w] = RunningWorker]
          /\ UNCHANGED stop
       \/ /\ pool' = "stopping"
          /\ stop' = TRUE
          /\ WakeAllWorkers
    /\ UNCHANGED <<tasks, call, calls>>

\* plat_cleanup.  Nothing in the pool keeps callers out: the library is shut
\* down only when no call is inside it.
Cleanup ==
    /\ pool = "up"
    /\ \A c \in Callers : call[c].at = "idle"
    /\ pool' = "stopping"
    /\ stop' = TRUE
    /\ WakeAllWorkers
    /\ UNCHANGED <<tasks, call, calls>>

\* Every thread was joined; the pool is destroyed and cleared.
Destroy ==
    /\ pool = "stopping"
    /\ \A w \in Workers : worker[w].at \in {"none", "exited"}
    /\ pool' = "down"
    /\ stop' = FALSE
    /\ tasks' = <<>>
    /\ worker' = [w \in Workers |-> NoWorker]
    /\ UNCHANGED <<call, calls>>

-----------------------------------------------------------------------------

\* A call under way, the threads that serve it and their condition variables.
Transferring ==
    \/ \E c \in Callers : Enqueue(c)
    \/ \E c \in Callers : Collect(c)
    \/ \E w \in Workers : Pop(w)
    \/ \E w \in Workers : Move(w)
    \/ SpuriousWake

Next ==
    \/ Begin
    \/ Transferring
    \/ Initialize
    \/ CreateThread
    \/ Cleanup
    \/ Destroy

Spec == PoolInit /\ [][Next]_poolVars

\* Threads that can run do run, files answer, and a shutdown under way goes on.
PoolFairness ==
    /\ \A c \in Callers : WF_poolVars(Enqueue(c)) /\ WF_poolVars(Collect(c))
    /\ \A w \in Workers : WF_poolVars(Pop(w)) /\ WF_poolVars(Move(w))
    /\ WF_poolVars(CreateThread) /\ WF_poolVars(Destroy)

FairSpec == Spec /\ PoolFairness

-----------------------------------------------------------------------------
(* Properties.                                                              *)

TypeOK ==
    /\ pool \in {"down", "starting", "up", "stopping"}
    /\ stop \in BOOLEAN
    /\ tasks \in Seq(Task) /\ Len(tasks) <= QueueCap
    /\ worker \in [Workers ->
           [at : {"none", "running", "for_items", "exited"}, task : {<<>>}]
           \union [at : {"moving"}, task : Task]]
    /\ call \in [Callers ->
           [at : {"idle", "running", "for_space", "for_chunks"},
            total : 0..MaxChunks, queued : 0..MaxChunks, pending : 0..MaxChunks,
            failed : BOOLEAN, moved : SUBSET (1..MaxChunks), ok : BOOLEAN]]
    /\ calls \in 0..MaxCalls

\* The chunks of a call that are in the ring or in the hands of a thread.
InRing(c) == {tasks[i].chunk : i \in {j \in 1..Len(tasks) : tasks[j].caller = c}}
InHands(c) == {worker[w].task.chunk :
                  w \in {v \in WorkersAt("moving") : worker[v].task.caller = c}}

\* A thread never touches the XferFileWait or the memory of a call that has
\* returned, and pending counts exactly the chunks it will still hear of: those
\* to be queued, those in the ring and those being moved (xfer_file_transfer
\* destroys its wait as soon as it reads pending = 0).
WaitsOutliveTheirTasks ==
    \A c \in Callers :
        /\ call[c].at = "idle" => InRing(c) \union InHands(c) = {}
        /\ call[c].at # "idle" =>
               call[c].pending = (call[c].total - call[c].queued)
                                 + Cardinality(InRing(c)) + Cardinality(InHands(c))

\* A transfer returns true if and only if every chunk of it was moved: one
\* failure is not forgotten when later chunks succeed.  (An empty transfer may
\* fail for want of its wait.)
TransfersAreWhole ==
    \A c \in Callers :
        call[c].at = "idle" =>
            /\ call[c].ok => call[c].moved = 1..call[c].total
            /\ call[c].moved = 1..call[c].total => call[c].ok \/ call[c].total = 0

\* No signal is lost: while a thread of the pool sleeps, each task of the ring
\* has a thread awake to take it; while a caller sleeps for space, each free
\* place has a caller awake to fill it.  The mutex passes to whoever comes
\* first, so this is what the single signals of the ring must maintain.
SleepersAreNotNeeded ==
    /\ WorkersAt("for_items") # {} =>
           Len(tasks) <= Cardinality(WorkersAt("running"))
    /\ (\E c \in Callers : call[c].at = "for_space") =>
           QueueCap - Len(tasks) <=
               Cardinality({c \in Callers : call[c].at = "running"
                                            /\ call[c].queued < call[c].total})

\* Every transfer returns, and every shutdown ends, that of a failed start
\* included.
TransfersReturn ==
    /\ \A c \in Callers : call[c].at # "idle" ~> call[c].at = "idle"
    /\ pool = "stopping" ~> pool = "down"

=============================================================================
