--------------------------- MODULE TransferProofs ---------------------------
(***************************************************************************)
(* Proofs about the file transfer pool (TransferPool) and the windows of   *)
(* the file reader over it (FileReader).                                   *)
(*                                                                         *)
(* The invariant of the pool, PoolInv, follows each chunk: it is in one    *)
(* place (in the ring, in the hands of a thread, or counted), and CallOK   *)
(* relates the counters and the flag of a call to the sets of its chunks   *)
(* in each place.  What a step does to a single call is a lemma about      *)
(* records and sets alone; the lemma of an action says what it does to     *)
(* the sets.  The invariant of the ring, RingInv, adds what the ring owes  *)
(* to each copy that a queue has still to do (CopyOK).  No bound on the    *)
(* numbers of callers, threads, chunks, windows or queues is used.         *)
(***************************************************************************)
EXTENDS FileReader, FiniteSetTheorems, TLAPS

-----------------------------------------------------------------------------
(* The invariant of the pool.                                               *)

CallRecord == [at : {"idle", "running", "for_space", "for_chunks"},
               total : 0..MaxChunks, queued : 0..MaxChunks, pending : 0..MaxChunks,
               failed : BOOLEAN, moved : SUBSET (1..MaxChunks), ok : BOOLEAN]

WorkerRecord == [at : {"none", "running", "for_items", "exited"}, task : {<<>>}]
                \union [at : {"moving"}, task : Task]

\* What a call in state r owes to its chunks: R are in the ring and H in the
\* hands of threads.
CallOK(r, R, H) ==
    /\ r.queued <= r.total
    /\ r.moved \union R \union H \subseteq 1..r.queued
    /\ r.moved \intersect (R \union H) = {}
    /\ r.at = "for_space" => r.queued < r.total
    /\ r.at = "idle" =>
          /\ R \union H = {}
          /\ r.ok => r.moved = 1..r.total
          /\ r.moved = 1..r.total => r.ok \/ r.total = 0
    /\ r.at # "idle" =>
          /\ r.pending = (r.total - r.queued) + Cardinality(R) + Cardinality(H)
          /\ ~r.failed => r.moved \union R \union H = 1..r.queued
          /\ r.failed => \E k \in 1..r.queued : k \notin r.moved \union R \union H

\* Every chunk under way is in one place.
TasksAreDistinct ==
    /\ \A i, j \in 1..Len(tasks) : tasks[i] = tasks[j] => i = j
    /\ \A v, w \in WorkersAt("moving") : worker[v].task = worker[w].task => v = w
    /\ \A i \in 1..Len(tasks), w \in WorkersAt("moving") : tasks[i] # worker[w].task

CallsOK == \A c \in Callers : CallOK(call[c], InRing(c), InHands(c))

\* Only a pool that is up has calls inside.
CallsAreInside == pool # "up" => \A c \in Callers : call[c].at = "idle"

\* TypeOK of TransferPool, with its sets of records named.
PoolShape ==
    /\ worker \in [Workers -> WorkerRecord] /\ call \in [Callers -> CallRecord]
    /\ tasks \in Seq(Task) /\ Len(tasks) <= QueueCap
    /\ pool \in {"down", "starting", "up", "stopping"} /\ stop \in BOOLEAN
    /\ calls \in 0..MaxCalls

PoolInv == PoolShape /\ TasksAreDistinct /\ CallsOK /\ CallsAreInside

-----------------------------------------------------------------------------
(* The steps of one call.                                                   *)

\* The chunks of a call are finitely many.
LEMMA ChunksAreFinite ==
    ASSUME NEW r \in CallRecord, NEW R, NEW H, CallOK(r, R, H)
    PROVE  /\ IsFiniteSet(R) /\ IsFiniteSet(H)
           /\ Cardinality(R) \in Nat /\ Cardinality(H) \in Nat
  <1>1. IsFiniteSet(1..r.queued)
    BY FS_Interval DEF CallRecord
  <1>2. R \in SUBSET (1..r.queued) /\ H \in SUBSET (1..r.queued)
    BY DEF CallOK
  <1>. QED
    BY <1>1, <1>2, FS_Subset, FS_CardinalityType

\* Nothing but where the caller is changes.
LEMMA MovesAlong ==
    ASSUME NEW r \in CallRecord, NEW s \in CallRecord, NEW R, NEW H, CallOK(r, R, H),
           r.at # "idle", s.at # "idle", s.at = "for_space" => s.queued < s.total,
           s.total = r.total, s.queued = r.queued, s.pending = r.pending,
           s.failed = r.failed, s.moved = r.moved
    PROVE  CallOK(s, R, H)
  BY DEF CallOK

\* A call begins.
LEMMA BeginsEmpty ==
    ASSUME NEW s \in CallRecord, s.queued = 0, s.pending = s.total, s.moved = {},
           ~s.failed, s.at \in {"idle", "running"},
           s.ok => s.total = 0
    PROVE  CallOK(s, {}, {})
  <1>1. Cardinality({}) = 0
    BY FS_EmptySet
  <1>2. 1..0 = {} /\ s.total \in Nat /\ (s.total # 0 => 1..s.total # {})
    BY DEF CallRecord
  <1>. QED
    BY <1>1, <1>2 DEF CallOK, CallRecord

\* The next chunk is put in the ring.
LEMMA QueuesNext ==
    ASSUME NEW r \in CallRecord, NEW s \in CallRecord, NEW R, NEW H, CallOK(r, R, H),
           r.at = "running", s.at = "running", r.queued < r.total,
           s.total = r.total, s.queued = r.queued + 1, s.pending = r.pending,
           s.failed = r.failed, s.moved = r.moved
    PROVE  CallOK(s, R \union {s.queued}, H)
  <1>1. /\ IsFiniteSet(R) /\ IsFiniteSet(H)
        /\ Cardinality(R) \in Nat /\ Cardinality(H) \in Nat
    BY ChunksAreFinite
  <1>2. s.queued \notin R /\ s.queued \notin H /\ s.queued \notin r.moved
    BY DEF CallOK, CallRecord
  <1>3. Cardinality(R \union {s.queued}) = Cardinality(R) + 1
    BY <1>1, <1>2, FS_AddElement
  <1>4. 1..s.queued = (1..r.queued) \union {s.queued} /\ s.queued <= s.total
    BY DEF CallRecord
  <1>5. r.failed => \E k \in 1..s.queued : k \notin s.moved \union R \union {s.queued} \union H
    BY <1>4 DEF CallOK, CallRecord
  <1>. QED
    BY <1>1, <1>2, <1>3, <1>4, <1>5 DEF CallOK, CallRecord

\* A thread takes chunk k from the ring.
LEMMA TakesChunk ==
    ASSUME NEW r \in CallRecord, NEW R, NEW H, NEW k, CallOK(r, R, H), k \in R, k \notin H
    PROVE  CallOK(r, R \ {k}, H \union {k})
  <1>1. /\ IsFiniteSet(R) /\ IsFiniteSet(H)
        /\ Cardinality(R) \in Nat /\ Cardinality(H) \in Nat
    BY ChunksAreFinite
  <1>2. /\ Cardinality(R \ {k}) = Cardinality(R) - 1
        /\ Cardinality(H \union {k}) = Cardinality(H) + 1
    BY <1>1, FS_AddElement, FS_RemoveElement
  <1>3. (R \ {k}) \union (H \union {k}) = R \union H
    OBVIOUS
  <1>4. r.at # "idle"
    BY DEF CallOK
  <1>. QED
    BY <1>1, <1>2, <1>3, <1>4, SMTT(30) DEF CallOK, CallRecord

\* A call stays one while its chunks are counted.
LEMMA CountedType ==
    ASSUME NEW r \in CallRecord, NEW f \in BOOLEAN, NEW p \in 0..MaxChunks,
           NEW m \in SUBSET (1..MaxChunks),
           NEW a \in {"idle", "running", "for_space", "for_chunks"}
    PROVE  [r EXCEPT !.failed = f, !.pending = p, !.moved = m, !.at = a] \in CallRecord
  BY DEF CallRecord

\* Chunk k was moved, or could not be.
LEMMA CountsChunk ==
    ASSUME NEW r \in CallRecord, NEW R, NEW H, NEW k, NEW ok \in BOOLEAN,
           CallOK(r, R, H), k \in H, k \notin R
    PROVE  /\ r.at # "idle"
           /\ Counted(r, k, ok) \in CallRecord
           /\ CallOK(Counted(r, k, ok), R, H \ {k})
  <1> DEFINE s == Counted(r, k, ok)
  <1>1. /\ IsFiniteSet(R) /\ IsFiniteSet(H)
        /\ Cardinality(R) \in Nat /\ Cardinality(H) \in Nat
    BY ChunksAreFinite
  <1>2. /\ Cardinality(H \ {k}) = Cardinality(H) - 1
        /\ Cardinality(H \ {k}) \in Nat
    BY <1>1, FS_RemoveElement, FS_CardinalityType
  <1>3. r.at # "idle"
    BY DEF CallOK
  <1>4. /\ r.pending \in Nat /\ r.pending >= 1 /\ r.pending <= MaxChunks
        /\ k \in 1..r.queued /\ k \in 1..MaxChunks /\ k \notin r.moved
    BY <1>1, <1>2, <1>3, TransferAssumption DEF CallOK, CallRecord
  <1>5. /\ s.total = r.total /\ s.queued = r.queued /\ s.pending = r.pending - 1
        /\ s.failed = (~ok \/ r.failed) /\ s.ok = r.ok
        /\ s.moved = IF ok THEN r.moved \union {k} ELSE r.moved
        /\ s.at = IF r.pending = 1 /\ r.at = "for_chunks" THEN "running" ELSE r.at
    BY DEF Counted, CallRecord
  <1>6. s \in CallRecord
    <2> DEFINE f == ~ok \/ r.failed
               p == r.pending - 1
               m == IF ok THEN r.moved \union {k} ELSE r.moved
               a == IF r.pending = 1 /\ r.at = "for_chunks" THEN "running" ELSE r.at
    <2>1. s = [r EXCEPT !.failed = f, !.pending = p, !.moved = m, !.at = a]
      BY DEF Counted
    <2>2. f \in BOOLEAN
      BY Zenon
    <2>3. p \in 0..MaxChunks
      BY <1>4, TransferAssumption
    <2>4. m \in SUBSET (1..MaxChunks)
      BY <1>4 DEF CallRecord
    <2>5. a \in {"idle", "running", "for_space", "for_chunks"}
      BY DEF CallRecord
    <2>. HIDE DEF f, p, m, a, s
    <2>. QED
      BY <2>1, <2>2, <2>3, <2>4, <2>5, CountedType
  <1>. HIDE DEF s
  <1>7. s.at # "idle" /\ (s.at = "for_space" => r.at = "for_space")
    BY <1>3, <1>5
  <1>8. s.pending = (s.total - s.queued) + Cardinality(R) + Cardinality(H \ {k})
    BY <1>1, <1>2, <1>3, <1>4, <1>5 DEF CallOK, CallRecord
  <1>9. ~s.failed => s.moved \union R \union (H \ {k}) = 1..s.queued
    BY <1>3, <1>5 DEF CallOK
  <1>10. s.failed => \E j \in 1..s.queued : j \notin s.moved \union R \union (H \ {k})
    BY <1>3, <1>4, <1>5 DEF CallOK
  <1>11. /\ s.moved \union R \union (H \ {k}) \subseteq 1..s.queued
         /\ s.moved \intersect (R \union (H \ {k})) = {}
    BY <1>4, <1>5 DEF CallOK
  <1>12. CallOK(s, R, H \ {k})
    BY <1>5, <1>7, <1>8, <1>9, <1>10, <1>11 DEF CallOK
  <1>. QED
    BY <1>3, <1>6, <1>12 DEF s

\* The caller finds nothing pending and returns.
LEMMA ReturnsWhole ==
    ASSUME NEW r \in CallRecord, NEW s \in CallRecord, NEW R, NEW H, CallOK(r, R, H),
           r.at = "running", r.queued = r.total, r.pending = 0, s.at = "idle",
           s.total = r.total, s.queued = r.queued, s.moved = r.moved, s.ok = ~r.failed
    PROVE  CallOK(s, R, H)
  <1>1. /\ IsFiniteSet(R) /\ IsFiniteSet(H)
        /\ Cardinality(R) \in Nat /\ Cardinality(H) \in Nat
    BY ChunksAreFinite
  <1>2. Cardinality(R) = 0 /\ Cardinality(H) = 0
    BY <1>1 DEF CallOK, CallRecord
  <1>3. R = {} /\ H = {}
    BY <1>1, <1>2, FS_EmptySet
  <1>4. s.ok <=> s.moved = 1..s.total
    BY <1>3 DEF CallOK, CallRecord
  <1>. QED
    BY <1>3, <1>4 DEF CallOK

-----------------------------------------------------------------------------
(* The ring and the threads.                                                *)

\* What an action that changes no task in the hands of a thread leaves alone.
LEMMA SameHands ==
    ASSUME \A w \in Workers : worker[w].at = "moving" \/ worker'[w].at = "moving" =>
              worker'[w] = worker[w]
    PROVE  /\ WorkersAt("moving")' = WorkersAt("moving")
           /\ \A w \in WorkersAt("moving") : worker'[w] = worker[w]
           /\ \A c \in Callers : InHands(c)' = InHands(c)
  <1>1. WorkersAt("moving")' = WorkersAt("moving")
    BY DEF WorkersAt
  <1>2. \A w \in WorkersAt("moving") : worker'[w] = worker[w]
    BY DEF WorkersAt
  <1>. QED
    BY <1>1, <1>2 DEF InHands

\* A signal to has_items, a broadcast, and a sleeper that wakes by itself.
LEMMA WakingWorkers ==
    ASSUME worker \in [Workers -> WorkerRecord],
           \/ WakeOneWorker
           \/ WakeAllWorkers
           \/ \E w \in WorkersAt("for_items") :
                 worker' = [worker EXCEPT ![w].at = "running"]
    PROVE  /\ worker' \in [Workers -> WorkerRecord]
           /\ \A w \in Workers :
                 \/ worker'[w] = worker[w]
                 \/ worker[w].at = "for_items" /\ worker'[w].at = "running"
  <1>1. ASSUME NEW w \in WorkersAt("for_items"),
               worker' = [worker EXCEPT ![w].at = "running"]
        PROVE  /\ worker' \in [Workers -> WorkerRecord]
               /\ \A v \in Workers :
                     \/ worker'[v] = worker[v]
                     \/ worker[v].at = "for_items" /\ worker'[v].at = "running"
    <2>1. w \in Workers /\ worker[w].at = "for_items" /\ worker[w] \in WorkerRecord
      BY DEF WorkersAt
    <2>2. [worker[w] EXCEPT !.at = "running"] \in WorkerRecord
      BY <2>1 DEF WorkerRecord
    <2>. QED
      BY <1>1, <2>1, <2>2
  <1>2. CASE WakeOneWorker
    BY <1>1, <1>2 DEF WakeOneWorker
  <1>3. CASE WakeAllWorkers
    <2>1. RunningWorker \in WorkerRecord /\ RunningWorker.at = "running"
      BY DEF RunningWorker, NoWorker, WorkerRecord
    <2>. QED
      BY <1>3, <2>1 DEF WakeAllWorkers
  <1>. QED
    BY <1>1, <1>2, <1>3

\* A caller that is woken goes on where it was.
LEMMA WakingCallers ==
    ASSUME call \in [Callers -> CallRecord],
           \/ WakeOneProducer
           \/ \E c \in Callers : /\ call[c].at \in {"for_space", "for_chunks"}
                                 /\ call' = [call EXCEPT ![c].at = "running"]
    PROVE  /\ call' \in [Callers -> CallRecord]
           /\ \A c \in Callers :
                 \/ call'[c] = call[c]
                 \/ /\ call[c].at \in {"for_space", "for_chunks"}
                    /\ call'[c].at = "running"
                    /\ call'[c].total = call[c].total /\ call'[c].queued = call[c].queued
                    /\ call'[c].pending = call[c].pending
                    /\ call'[c].failed = call[c].failed /\ call'[c].moved = call[c].moved
  <1>1. ASSUME NEW c \in Callers, call[c].at \in {"for_space", "for_chunks"},
               call' = [call EXCEPT ![c].at = "running"]
        PROVE  /\ call' \in [Callers -> CallRecord]
               /\ \A d \in Callers : d # c => call'[d] = call[d]
               /\ call'[c].at = "running"
               /\ call'[c].total = call[c].total /\ call'[c].queued = call[c].queued
               /\ call'[c].pending = call[c].pending
               /\ call'[c].failed = call[c].failed /\ call'[c].moved = call[c].moved
    <2> DEFINE r == call[c]
               s == [r EXCEPT !.at = "running"]
    <2>1. r \in CallRecord
      OBVIOUS
    <2>2. /\ s \in CallRecord /\ s.at = "running" /\ s.total = r.total
          /\ s.queued = r.queued /\ s.pending = r.pending
          /\ s.failed = r.failed /\ s.moved = r.moved
      BY <2>1 DEF CallRecord
    <2>3. call' = [call EXCEPT ![c] = s]
      BY <1>1
    <2>. HIDE DEF s
    <2>. QED
      BY <2>2, <2>3
  <1>2. CASE WakeOneProducer
    BY <1>1, <1>2 DEF WakeOneProducer
  <1>. QED
    BY <1>1, <1>2

\* The chunks in the ring when one is added at its tail.
LEMMA RingGrows ==
    ASSUME tasks \in Seq(Task), NEW t \in Task, tasks' = Append(tasks, t)
    PROVE  /\ tasks' \in Seq(Task) /\ Len(tasks') = Len(tasks) + 1
           /\ \A i \in 1..Len(tasks) : tasks'[i] = tasks[i]
           /\ tasks'[Len(tasks) + 1] = t
           /\ InRing(t.caller)' = InRing(t.caller) \union {t.chunk}
           /\ \A c \in Callers : c # t.caller => InRing(c)' = InRing(c)
  <1>1. /\ tasks' \in Seq(Task) /\ Len(tasks') = Len(tasks) + 1
        /\ \A i \in 1..Len(tasks) : tasks'[i] = tasks[i]
        /\ tasks'[Len(tasks) + 1] = t
        /\ Len(tasks) \in Nat
    OBVIOUS
  <1>2. 1..Len(tasks') = (1..Len(tasks)) \union {Len(tasks) + 1}
    BY <1>1
  <1>3. ASSUME NEW c \in Callers
        PROVE  InRing(c)' = InRing(c) \union (IF c = t.caller THEN {t.chunk} ELSE {})
    BY <1>1, <1>2 DEF InRing
  <1>. QED
    BY <1>1, <1>3 DEF Task

\* The chunks in the ring when its head is taken.
LEMMA RingShrinks ==
    ASSUME tasks \in Seq(Task), tasks # <<>>, NEW h, h = Head(tasks), tasks' = Tail(tasks),
           \A i, j \in 1..Len(tasks) : tasks[i] = tasks[j] => i = j
    PROVE  /\ tasks' \in Seq(Task) /\ Len(tasks') = Len(tasks) - 1
           /\ \A i \in 1..Len(tasks') : i + 1 \in 1..Len(tasks) /\ tasks'[i] = tasks[i + 1]
           /\ h \in Task /\ h = tasks[1] /\ 1 \in 1..Len(tasks)
           /\ h.chunk \in InRing(h.caller)
           /\ InRing(h.caller)' = InRing(h.caller) \ {h.chunk}
           /\ \A c \in Callers : c # h.caller => InRing(c)' = InRing(c)
  <1>1. /\ tasks' \in Seq(Task) /\ Len(tasks') = Len(tasks) - 1
        /\ \A i \in 1..Len(tasks') : i + 1 \in 1..Len(tasks) /\ tasks'[i] = tasks[i + 1]
        /\ h \in Task /\ h = tasks[1] /\ 1 \in 1..Len(tasks)
        /\ Len(tasks) \in Nat
    OBVIOUS
  <1>2. \A i \in 1..Len(tasks) : tasks[i] \in Task
    OBVIOUS
  <1>3. h.chunk \in InRing(h.caller)
    BY <1>1 DEF InRing
  <1>4. ASSUME NEW c \in Callers, NEW k
        PROVE  k \in InRing(c)' <=>
                  \E j \in 1..Len(tasks) : j # 1 /\ tasks[j].caller = c /\ tasks[j].chunk = k
    <2>1. k \in InRing(c)' <=> \E i \in 1..Len(tasks') : tasks'[i].caller = c
                                                        /\ tasks'[i].chunk = k
      BY DEF InRing
    <2>2. ASSUME NEW j \in 1..Len(tasks), j # 1
          PROVE  j - 1 \in 1..Len(tasks') /\ tasks'[j - 1] = tasks[j]
      BY <1>1, <2>2
    <2>3. \A i \in 1..Len(tasks') : i + 1 # 1
      BY <1>1
    <2>4. ASSUME NEW i \in 1..Len(tasks'), tasks'[i].caller = c, tasks'[i].chunk = k
          PROVE  \E j \in 1..Len(tasks) : j # 1 /\ tasks[j].caller = c /\ tasks[j].chunk = k
      <3>1. i + 1 \in 1..Len(tasks) /\ i + 1 # 1 /\ tasks'[i] = tasks[i + 1]
        BY <1>1, <2>3
      <3>. QED
        BY <2>4, <3>1
    <2>5. ASSUME NEW j \in 1..Len(tasks), j # 1, tasks[j].caller = c, tasks[j].chunk = k
          PROVE  \E i \in 1..Len(tasks') : tasks'[i].caller = c /\ tasks'[i].chunk = k
      <3>1. j - 1 \in 1..Len(tasks') /\ tasks'[j - 1] = tasks[j]
        BY <2>2, <2>5
      <3>. QED
        BY <2>5, <3>1
    <2>. QED
      BY <2>1, <2>4, <2>5
  <1>5. ASSUME NEW c \in Callers, NEW k
        PROVE  k \in InRing(c) <=>
                  \E j \in 1..Len(tasks) : tasks[j].caller = c /\ tasks[j].chunk = k
    BY DEF InRing
  <1>6. ASSUME NEW j \in 1..Len(tasks), tasks[j].caller = h.caller, tasks[j].chunk = h.chunk
        PROVE  j = 1
    <2>1. tasks[j] = tasks[1]
      BY <1>1, <1>2, <1>6 DEF Task
    <2>. QED
      BY <1>1, <2>1
  <1>7. h.caller \in Callers
    BY <1>1 DEF Task
  <1>8. InRing(h.caller)' = InRing(h.caller) \ {h.chunk}
    <2>1. \A k : k \in InRing(h.caller)' <=> k \in InRing(h.caller) /\ k # h.chunk
      <3>. SUFFICES ASSUME NEW k
                    PROVE  k \in InRing(h.caller)' <=> k \in InRing(h.caller) /\ k # h.chunk
        OBVIOUS
      <3>1. k \in InRing(h.caller)' <=>
              \E j \in 1..Len(tasks) : j # 1 /\ tasks[j].caller = h.caller
                                        /\ tasks[j].chunk = k
        BY <1>4, <1>7
      <3>2. k \in InRing(h.caller) <=>
              \E j \in 1..Len(tasks) : tasks[j].caller = h.caller /\ tasks[j].chunk = k
        BY <1>5, <1>7
      <3>3. tasks[1].caller = h.caller /\ tasks[1].chunk = h.chunk
        BY <1>1
      <3>. QED
        BY <1>6, <3>1, <3>2, <3>3
    <2>. QED
      BY <2>1
  <1>9. ASSUME NEW c \in Callers, c # h.caller
        PROVE  InRing(c)' = InRing(c)
    <2>1. \A k : k \in InRing(c)' <=> k \in InRing(c)
      BY <1>1, <1>4, <1>5, <1>9
    <2>. QED
      BY <2>1
  <1>. QED
    BY <1>1, <1>3, <1>8, <1>9

-----------------------------------------------------------------------------
(* One lemma per action of the pool.                                        *)

\* The shape is the type invariant of TransferPool.
LEMMA ShapeIsType == PoolShape => TypeOK
  BY DEF PoolShape, TypeOK, CallRecord, WorkerRecord

\* Where no task moves, the chunks of every call stay where they are.
LEMMA TasksStay ==
    ASSUME TasksAreDistinct, UNCHANGED tasks,
           \A w \in Workers : worker[w].at = "moving" \/ worker'[w].at = "moving" =>
              worker'[w] = worker[w]
    PROVE  /\ TasksAreDistinct'
           /\ \A c \in Callers : InRing(c)' = InRing(c) /\ InHands(c)' = InHands(c)
  <1>1. /\ WorkersAt("moving")' = WorkersAt("moving")
        /\ \A w \in WorkersAt("moving") : worker'[w] = worker[w]
        /\ \A c \in Callers : InHands(c)' = InHands(c)
    BY SameHands
  <1>2. \A c \in Callers : InRing(c)' = InRing(c)
    BY DEF InRing
  <1>3. TasksAreDistinct'
    BY <1>1 DEF TasksAreDistinct
  <1>. QED
    BY <1>1, <1>2, <1>3

\* A pool without calls has no tasks.
LEMMA IdleIsEmpty ==
    ASSUME PoolInv, \A c \in Callers : call[c].at = "idle"
    PROVE  tasks = <<>> /\ WorkersAt("moving") = {}
  <1>1. /\ worker \in [Workers -> WorkerRecord] /\ tasks \in Seq(Task) /\ Len(tasks) \in Nat
    BY DEF PoolInv, PoolShape
  <1>2. \A c \in Callers : InRing(c) = {} /\ InHands(c) = {}
    BY DEF PoolInv, CallsOK, CallOK
  <1>3. ASSUME tasks # <<>> PROVE FALSE
    <2>1. 1 \in 1..Len(tasks) /\ tasks[1] \in Task
      BY <1>1, <1>3
    <2>2. tasks[1].chunk \in InRing(tasks[1].caller) /\ tasks[1].caller \in Callers
      BY <2>1 DEF InRing, Task
    <2>. QED
      BY <1>2, <2>2
  <1>4. ASSUME NEW w \in WorkersAt("moving") PROVE FALSE
    <2>1. worker[w].task \in Task
      BY <1>1 DEF WorkersAt, WorkerRecord
    <2>2. /\ worker[w].task.chunk \in InHands(worker[w].task.caller)
          /\ worker[w].task.caller \in Callers
      BY <2>1 DEF InHands, Task
    <2>. QED
      BY <1>2, <2>2
  <1>. QED
    BY <1>3, <1>4

\* Before xfer_file_init there are no tasks, no threads and no calls.
LEMMA PoolInitInv == PoolInit => PoolInv
  <1>. SUFFICES ASSUME PoolInit PROVE PoolInv
    OBVIOUS
  <1>1. NoWorker \in WorkerRecord /\ NoWorker.at = "none"
    BY DEF NoWorker, WorkerRecord
  <1>2. /\ NoCall \in CallRecord /\ NoCall.queued = 0 /\ NoCall.pending = NoCall.total
        /\ NoCall.moved = {} /\ ~NoCall.failed /\ NoCall.at = "idle" /\ NoCall.total = 0
    BY TransferAssumption DEF NoCall, CallRecord
  <1>3. PoolShape
    <2>1. /\ worker \in [Workers -> WorkerRecord] /\ call \in [Callers -> CallRecord]
          /\ pool = "down" /\ stop = FALSE /\ calls = 0
      BY <1>1, <1>2 DEF PoolInit
    <2>2. tasks \in Seq(Task) /\ Len(tasks) <= QueueCap
      BY TransferAssumption DEF PoolInit
    <2>3. calls \in 0..MaxCalls
      BY <2>1, TransferAssumption
    <2>4. stop \in BOOLEAN
      BY Zenon DEF PoolInit
    <2>. QED
      BY <2>1, <2>2, <2>3, <2>4 DEF PoolShape
  <1>4. WorkersAt("moving") = {} /\ tasks = <<>>
    BY <1>1 DEF PoolInit, WorkersAt
  <1>5. TasksAreDistinct
    BY <1>4 DEF TasksAreDistinct
  <1>6. \A c \in Callers : InRing(c) = {} /\ InHands(c) = {}
    BY <1>4 DEF InRing, InHands
  <1>7. CallsOK
    <2>1. CallOK(NoCall, {}, {})
      BY <1>2, BeginsEmpty
    <2>. QED
      BY <1>6, <2>1 DEF CallsOK, PoolInit
  <1>8. CallsAreInside
    BY <1>2 DEF CallsAreInside, PoolInit
  <1>. QED
    BY <1>3, <1>5, <1>7, <1>8 DEF PoolInv

\* What a call of n chunks begins as.
Begun(a, n) == [NoCall EXCEPT !.at = a, !.total = n, !.pending = n, !.ok = FALSE]

\* Such a call has nothing queued, moved or failed.
LEMMA BegunFields ==
    ASSUME NEW n \in 0..MaxChunks, NEW a \in {"idle", "running"}
    PROVE  /\ Begun(a, n) \in CallRecord /\ Begun(a, n).at = a
           /\ Begun(a, n).total = n /\ Begun(a, n).queued = 0
           /\ Begun(a, n).pending = n /\ Begun(a, n).moved = {}
           /\ ~Begun(a, n).failed /\ ~Begun(a, n).ok
  <1>1. NoCall \in CallRecord /\ NoCall.queued = 0 /\ NoCall.moved = {} /\ ~NoCall.failed
    BY TransferAssumption DEF NoCall, CallRecord
  <1>2. [NoCall EXCEPT !.at = a, !.total = n, !.pending = n, !.ok = FALSE] \in CallRecord
    BY <1>1 DEF CallRecord
  <1>3. /\ Begun(a, n).at = a /\ Begun(a, n).total = n /\ Begun(a, n).queued = 0
        /\ Begun(a, n).pending = n /\ Begun(a, n).moved = {}
        /\ ~Begun(a, n).failed /\ ~Begun(a, n).ok
    BY <1>1 DEF Begun, CallRecord
  <1>. QED
    BY <1>2, <1>3 DEF Begun

\* A call begins; the ring of the reader begins one without being counted.
LEMMA BeginKeeps ==
    ASSUME PoolInv, NEW c \in Callers, NEW n \in 0..MaxChunks, BeginTransfer(c, n),
           calls' \in 0..MaxCalls
    PROVE  PoolInv'
  <1>1. /\ worker \in [Workers -> WorkerRecord] /\ call \in [Callers -> CallRecord]
        /\ tasks \in Seq(Task) /\ Len(tasks) <= QueueCap /\ stop \in BOOLEAN
        /\ pool \in {"down", "starting", "up", "stopping"}
        /\ TasksAreDistinct /\ CallsOK
    BY DEF PoolInv, PoolShape
  <1>2. pool = "up" /\ call[c].at = "idle" /\ UNCHANGED <<pool, stop, tasks, worker>>
    BY DEF BeginTransfer
  <1>3. PICK a \in {"idle", "running"} : call' = [call EXCEPT ![c] = Begun(a, n)]
    BY DEF BeginTransfer, Begun
  <1> DEFINE s == Begun(a, n)
  <1>4. /\ s \in CallRecord /\ s.queued = 0 /\ s.pending = s.total /\ s.moved = {}
        /\ ~s.failed /\ s.at \in {"idle", "running"} /\ ~s.ok
    BY BegunFields
  <1>5. call' = [call EXCEPT ![c] = s]
    BY <1>3
  <1>. HIDE DEF s
  <1>6. /\ call' \in [Callers -> CallRecord] /\ call'[c] = s
        /\ \A d \in Callers : d # c => call'[d] = call[d]
    BY <1>1, <1>4, <1>5
  <1>7. /\ TasksAreDistinct'
        /\ \A d \in Callers : InRing(d)' = InRing(d) /\ InHands(d)' = InHands(d)
    BY <1>1, <1>2, TasksStay
  <1>8. PoolShape'
    BY <1>1, <1>2, <1>6 DEF PoolShape
  <1>9. CallsOK'
    <2>1. InRing(c) = {} /\ InHands(c) = {}
      BY <1>1, <1>2 DEF CallsOK, CallOK
    <2>2. CallOK(s, {}, {})
      BY <1>4, BeginsEmpty
    <2>. QED
      BY <1>1, <1>6, <1>7, <2>1, <2>2 DEF CallsOK
  <1>10. CallsAreInside'
    BY <1>2 DEF CallsAreInside
  <1>. QED
    BY <1>7, <1>8, <1>9, <1>10 DEF PoolInv

\* The next chunk is queued, or the caller goes to sleep.
LEMMA EnqueueKeeps ==
    ASSUME PoolInv, NEW c \in Callers, Enqueue(c)
    PROVE  PoolInv'
  <1> DEFINE r == call[c]
             k == r.queued + 1
             t == [caller |-> c, chunk |-> k]
  <1>1. /\ worker \in [Workers -> WorkerRecord] /\ call \in [Callers -> CallRecord]
        /\ tasks \in Seq(Task) /\ Len(tasks) \in Nat /\ Len(tasks) <= QueueCap
        /\ stop \in BOOLEAN /\ calls \in 0..MaxCalls
        /\ pool \in {"down", "starting", "up", "stopping"}
        /\ TasksAreDistinct /\ CallsOK /\ CallsAreInside
    BY DEF PoolInv, PoolShape
  <1>2. /\ r.at = "running" /\ r.queued < r.total /\ r \in CallRecord
        /\ CallOK(r, InRing(c), InHands(c))
        /\ UNCHANGED <<pool, stop, calls>>
    BY <1>1 DEF Enqueue, CallsOK
  <1>3. pool = "up"
    BY <1>1, <1>2 DEF CallsAreInside
  <1>4. CASE /\ call' = [call EXCEPT ![c].at = "for_space"]
             /\ UNCHANGED <<tasks, worker>>
    <2> DEFINE s == [r EXCEPT !.at = "for_space"]
    <2>1. /\ s \in CallRecord /\ s.at = "for_space" /\ s.total = r.total
          /\ s.queued = r.queued /\ s.pending = r.pending
          /\ s.failed = r.failed /\ s.moved = r.moved
      BY <1>2 DEF CallRecord
    <2>2. call' = [call EXCEPT ![c] = s]
      BY <1>4
    <2>. HIDE DEF s
    <2>3. /\ call' \in [Callers -> CallRecord] /\ call'[c] = s
          /\ \A d \in Callers : d # c => call'[d] = call[d]
      BY <1>1, <2>1, <2>2
    <2>4. /\ TasksAreDistinct'
          /\ \A d \in Callers : InRing(d)' = InRing(d) /\ InHands(d)' = InHands(d)
      BY <1>1, <1>4, TasksStay
    <2>5. CallOK(s, InRing(c), InHands(c))
      BY <1>2, <2>1, MovesAlong
    <2>. QED
      BY <1>1, <1>2, <1>3, <1>4, <2>3, <2>4, <2>5
      DEF PoolInv, PoolShape, CallsOK, CallsAreInside
  <1>5. CASE /\ Len(tasks) < QueueCap
             /\ tasks' = Append(tasks, [caller |-> c, chunk |-> call[c].queued + 1])
             /\ call' = [call EXCEPT ![c].queued = @ + 1]
             /\ WakeOneWorker
    <2> DEFINE s == [r EXCEPT !.queued = k]
    <2>1. k \in 1..MaxChunks /\ k <= r.total
      BY <1>2, TransferAssumption DEF CallRecord
    <2>2. /\ s \in CallRecord /\ s.at = "running" /\ s.total = r.total
          /\ s.queued = r.queued + 1 /\ s.pending = r.pending
          /\ s.failed = r.failed /\ s.moved = r.moved
      BY <1>2, <2>1 DEF CallRecord
    <2>3. call' = [call EXCEPT ![c] = s]
      BY <1>5
    <2>4. t \in Task /\ tasks' = Append(tasks, t) /\ t.caller = c /\ t.chunk = k
      BY <1>5, <2>1 DEF Task
    <2>. HIDE DEF s, t
    <2>5. /\ call' \in [Callers -> CallRecord] /\ call'[c] = s
          /\ \A d \in Callers : d # c => call'[d] = call[d]
      BY <1>1, <2>2, <2>3
    <2>6. /\ tasks' \in Seq(Task) /\ Len(tasks') = Len(tasks) + 1
          /\ \A i \in 1..Len(tasks) : tasks'[i] = tasks[i]
          /\ tasks'[Len(tasks) + 1] = t
          /\ InRing(c)' = InRing(c) \union {k}
          /\ \A d \in Callers : d # c => InRing(d)' = InRing(d)
      BY <1>1, <2>4, RingGrows
    <2>7. /\ worker' \in [Workers -> WorkerRecord]
          /\ \A w \in Workers : worker[w].at = "moving" \/ worker'[w].at = "moving" =>
                worker'[w] = worker[w]
      BY <1>1, <1>5, WakingWorkers
    <2>8. /\ WorkersAt("moving")' = WorkersAt("moving")
          /\ \A w \in WorkersAt("moving") : worker'[w] = worker[w]
          /\ \A d \in Callers : InHands(d)' = InHands(d)
      BY <2>7, SameHands
    <2>9. k \notin InRing(c) /\ k \notin InHands(c)
      BY <1>2 DEF CallOK, CallRecord
    <2>10. \A i \in 1..Len(tasks) : tasks[i] # t
      BY <2>4, <2>9 DEF InRing
    <2>11. \A w \in WorkersAt("moving") : worker[w].task # t
      BY <2>4, <2>9 DEF InHands
    <2>12. TasksAreDistinct'
      <3>1. 1..Len(tasks') = (1..Len(tasks)) \union {Len(tasks) + 1}
        BY <1>1, <2>6
      <3>2. \A i, j \in 1..Len(tasks') : tasks'[i] = tasks'[j] => i = j
        BY <1>1, <2>6, <2>10, <3>1 DEF TasksAreDistinct
      <3>3. \A i \in 1..Len(tasks'), w \in WorkersAt("moving") : tasks'[i] # worker[w].task
        BY <1>1, <2>6, <2>11, <3>1 DEF TasksAreDistinct
      <3>. QED
        BY <1>1, <2>8, <3>2, <3>3 DEF TasksAreDistinct
    <2>13. CallsOK'
      <3>1. s.queued = k
        BY <2>2
      <3>2. CallOK(s, InRing(c) \union {k}, InHands(c))
        BY <1>2, <2>2, <3>1, QueuesNext
      <3>. QED
        BY <1>1, <2>5, <2>6, <2>8, <3>2 DEF CallsOK
    <2>. QED
      BY <1>1, <1>2, <1>3, <1>5, <2>5, <2>6, <2>7, <2>12, <2>13, TransferAssumption
      DEF PoolInv, PoolShape, CallsAreInside
  <1>. QED
    BY <1>4, <1>5 DEF Enqueue

\* The caller sleeps until its chunks were moved, or returns.
LEMMA CollectKeeps ==
    ASSUME PoolInv, NEW c \in Callers, Collect(c)
    PROVE  PoolInv'
  <1> DEFINE r == call[c]
  <1>1. /\ worker \in [Workers -> WorkerRecord] /\ call \in [Callers -> CallRecord]
        /\ r \in CallRecord /\ r.at = "running" /\ r.queued = r.total
        /\ CallOK(r, InRing(c), InHands(c)) /\ TasksAreDistinct /\ CallsOK
        /\ UNCHANGED <<pool, stop, tasks, worker, calls>>
    BY DEF PoolInv, PoolShape, Collect, CallsOK
  <1>2. pool = "up"
    BY <1>1 DEF PoolInv, CallsAreInside
  <1>3. /\ TasksAreDistinct'
        /\ \A d \in Callers : InRing(d)' = InRing(d) /\ InHands(d)' = InHands(d)
    BY <1>1, TasksStay
  <1>4. ASSUME NEW s \in CallRecord, call' = [call EXCEPT ![c] = s],
               CallOK(s, InRing(c), InHands(c))
        PROVE  PoolInv'
    <2>1. /\ call' \in [Callers -> CallRecord] /\ call'[c] = s
          /\ \A d \in Callers : d # c => call'[d] = call[d]
      BY <1>1, <1>4
    <2>2. CallsOK'
      BY <1>1, <1>3, <1>4, <2>1 DEF CallsOK
    <2>. QED
      BY <1>1, <1>2, <1>3, <2>1, <2>2 DEF PoolInv, PoolShape, CallsAreInside
  <1>5. CASE call' = [call EXCEPT ![c].at = "for_chunks"]
    <2> DEFINE s == [r EXCEPT !.at = "for_chunks"]
    <2>1. /\ s \in CallRecord /\ s.at = "for_chunks" /\ s.total = r.total
          /\ s.queued = r.queued /\ s.pending = r.pending
          /\ s.failed = r.failed /\ s.moved = r.moved
      BY <1>1 DEF CallRecord
    <2>2. call' = [call EXCEPT ![c] = s]
      BY <1>5
    <2>. HIDE DEF s
    <2>. QED
      BY <1>1, <1>4, <2>1, <2>2, MovesAlong
  <1>6. CASE /\ r.pending = 0
             /\ call' = [call EXCEPT ![c].at = "idle", ![c].ok = ~call[c].failed]
    <2> DEFINE s == [r EXCEPT !.at = "idle", !.ok = ~r.failed]
    <2>1. /\ s \in CallRecord /\ s.at = "idle" /\ s.total = r.total
          /\ s.queued = r.queued /\ s.ok = ~r.failed /\ s.moved = r.moved
      BY <1>1 DEF CallRecord
    <2>2. call' = [call EXCEPT ![c] = s]
      BY <1>6
    <2>. HIDE DEF s
    <2>. QED
      BY <1>1, <1>4, <1>6, <2>1, <2>2, ReturnsWhole
  <1>. QED
    BY <1>5, <1>6 DEF Collect

\* A thread takes the head of the ring, sleeps or leaves.
LEMMA PopKeeps ==
    ASSUME PoolInv, NEW w \in Workers, Pop(w)
    PROVE  PoolInv'
  <1>1. /\ worker \in [Workers -> WorkerRecord] /\ call \in [Callers -> CallRecord]
        /\ tasks \in Seq(Task) /\ Len(tasks) \in Nat /\ Len(tasks) <= QueueCap
        /\ stop \in BOOLEAN /\ calls \in 0..MaxCalls
        /\ pool \in {"down", "starting", "up", "stopping"}
        /\ TasksAreDistinct /\ CallsOK /\ CallsAreInside
    BY DEF PoolInv, PoolShape
  <1>2. /\ worker[w].at = "running" /\ worker[w] \in WorkerRecord
        /\ UNCHANGED <<pool, stop, calls>>
    BY <1>1 DEF Pop
  <1>3. CASE /\ worker' = [worker EXCEPT ![w].at = IF stop THEN "exited" ELSE "for_items"]
             /\ UNCHANGED <<tasks, call>>
    <2>1. PICK a \in {"exited", "for_items"} : worker' = [worker EXCEPT ![w].at = a]
      BY <1>3
    <2>2. [worker[w] EXCEPT !.at = a] \in WorkerRecord
      BY <1>2 DEF WorkerRecord
    <2>3. /\ worker' \in [Workers -> WorkerRecord] /\ worker'[w].at = a
          /\ \A v \in Workers : v # w => worker'[v] = worker[v]
      BY <1>1, <1>2, <2>1, <2>2 DEF WorkerRecord
    <2>4. /\ TasksAreDistinct'
          /\ \A d \in Callers : InRing(d)' = InRing(d) /\ InHands(d)' = InHands(d)
      BY <1>1, <1>2, <1>3, <2>3, TasksStay
    <2>. QED
      BY <1>1, <1>2, <1>3, <2>3, <2>4
      DEF PoolInv, PoolShape, CallsOK, CallsAreInside
  <1>4. CASE /\ tasks # <<>>
             /\ worker' = [worker EXCEPT ![w] = [at |-> "moving", task |-> Head(tasks)]]
             /\ tasks' = Tail(tasks)
             /\ WakeOneProducer
    <2>1. PICK h \in Task : h = Head(tasks)
      BY <1>1, <1>4
    <2> DEFINE c == h.caller
               k == h.chunk
               m == [at |-> "moving", task |-> h]
    <2>2. /\ tasks' \in Seq(Task) /\ Len(tasks') = Len(tasks) - 1
          /\ \A i \in 1..Len(tasks') : i + 1 \in 1..Len(tasks) /\ tasks'[i] = tasks[i + 1]
          /\ h = tasks[1] /\ 1 \in 1..Len(tasks)
          /\ k \in InRing(c)
          /\ InRing(c)' = InRing(c) \ {k}
          /\ \A d \in Callers : d # c => InRing(d)' = InRing(d)
      BY <1>1, <1>4, <2>1, RingShrinks DEF TasksAreDistinct
    <2>3. /\ m \in WorkerRecord /\ m.at = "moving" /\ m.task = h /\ c \in Callers
      BY DEF WorkerRecord, Task
    <2>4. worker' = [worker EXCEPT ![w] = m]
      BY <1>4, <2>1
    <2>. HIDE DEF m
    <2>5. /\ worker' \in [Workers -> WorkerRecord] /\ worker'[w] = m
          /\ \A v \in Workers : v # w => worker'[v] = worker[v]
      BY <1>1, <2>3, <2>4
    <2>6. /\ w \notin WorkersAt("moving")
          /\ WorkersAt("moving")' = WorkersAt("moving") \union {w}
          /\ \A v \in WorkersAt("moving") : v # w /\ worker'[v] = worker[v]
          /\ worker'[w].task = h
      BY <1>2, <2>3, <2>5 DEF WorkersAt
    <2>7. \A v \in WorkersAt("moving") : worker[v].task # h
      BY <1>1, <2>2 DEF TasksAreDistinct
    <2>8. \A v \in WorkersAt("moving") : worker[v].task \in Task
      BY <1>1 DEF WorkersAt, WorkerRecord
    <2>9. k \notin InHands(c)
      <3>1. \A v \in WorkersAt("moving") : worker[v].task.caller = c =>
                                             worker[v].task.chunk # k
        BY <2>7, <2>8 DEF Task
      <3>. QED
        BY <3>1 DEF InHands
    <2>10. /\ InHands(c)' = InHands(c) \union {k}
           /\ \A d \in Callers : d # c => InHands(d)' = InHands(d)
      BY <2>6 DEF InHands
    <2>11. TasksAreDistinct'
      <3>1. \A i, j \in 1..Len(tasks') : tasks'[i] = tasks'[j] => i = j
        <4>1. ASSUME NEW i \in 1..Len(tasks'), NEW j \in 1..Len(tasks'),
                     tasks'[i] = tasks'[j]
              PROVE  i = j
          <5>1. /\ i + 1 \in 1..Len(tasks) /\ j + 1 \in 1..Len(tasks)
                /\ tasks[i + 1] = tasks[j + 1]
            BY <2>2, <4>1
          <5>2. i + 1 = j + 1
            BY <1>1, <5>1 DEF TasksAreDistinct
          <5>. QED
            BY <5>2
        <4>. QED
          BY <4>1
      <3>2. \A i \in 1..Len(tasks') : tasks'[i] # h
        <4>1. ASSUME NEW i \in 1..Len(tasks'), tasks'[i] = h PROVE FALSE
          <5>1. i + 1 \in 1..Len(tasks) /\ tasks[i + 1] = tasks[1]
            BY <2>2, <4>1
          <5>2. i + 1 = 1
            BY <1>1, <2>2, <5>1 DEF TasksAreDistinct
          <5>. QED
            BY <5>2
        <4>. QED
          BY <4>1
      <3>3. \A i \in 1..Len(tasks'), v \in WorkersAt("moving") : tasks'[i] # worker[v].task
        BY <1>1, <2>2 DEF TasksAreDistinct
      <3>4. \A u, v \in WorkersAt("moving") : worker[u].task = worker[v].task => u = v
        BY <1>1 DEF TasksAreDistinct
      <3>5. ASSUME NEW u \in WorkersAt("moving")', NEW v \in WorkersAt("moving")',
                   worker'[u].task = worker'[v].task
            PROVE  u = v
        BY <2>6, <2>7, <3>4, <3>5
      <3>6. ASSUME NEW i \in 1..Len(tasks'), NEW v \in WorkersAt("moving")'
            PROVE  tasks'[i] # worker'[v].task
        BY <2>6, <3>2, <3>3
      <3>. QED
        BY <3>1, <3>5, <3>6 DEF TasksAreDistinct
    <2>12. /\ call' \in [Callers -> CallRecord]
           /\ \A d \in Callers :
                 \/ call'[d] = call[d]
                 \/ /\ call[d].at \in {"for_space", "for_chunks"}
                    /\ call'[d].at = "running"
                    /\ call'[d].total = call[d].total /\ call'[d].queued = call[d].queued
                    /\ call'[d].pending = call[d].pending
                    /\ call'[d].failed = call[d].failed /\ call'[d].moved = call[d].moved
      BY <1>1, <1>4, WakingCallers
    <2>13. ASSUME NEW d \in Callers, NEW R, NEW H, CallOK(call[d], R, H)
           PROVE  CallOK(call'[d], R, H)
      <3>1. call[d] \in CallRecord /\ call'[d] \in CallRecord
        BY <1>1, <2>12
      <3>2. CASE call'[d] = call[d]
        BY <2>13, <3>2
      <3>3. CASE call'[d] # call[d]
        <4>1. /\ call[d].at # "idle" /\ call'[d].at # "idle" /\ call'[d].at # "for_space"
              /\ call'[d].total = call[d].total /\ call'[d].queued = call[d].queued
              /\ call'[d].pending = call[d].pending
              /\ call'[d].failed = call[d].failed /\ call'[d].moved = call[d].moved
          BY <2>12, <3>3
        <4>. QED
          BY <2>13, <3>1, <4>1, MovesAlong
      <3>. QED
        BY <3>2, <3>3
    <2>14. CallsOK'
      <3>1. CallOK(call[c], InRing(c) \ {k}, InHands(c) \union {k})
        BY <1>1, <2>2, <2>3, <2>9, TakesChunk DEF CallsOK
      <3>2. CallOK(call'[c], InRing(c)', InHands(c)')
        BY <2>2, <2>3, <2>10, <2>13, <3>1
      <3>3. ASSUME NEW d \in Callers, d # c
            PROVE  CallOK(call'[d], InRing(d)', InHands(d)')
        BY <1>1, <2>2, <2>10, <2>13, <3>3 DEF CallsOK
      <3>. QED
        BY <3>2, <3>3 DEF CallsOK
    <2>15. CallsAreInside'
      <3>1. \A d \in Callers : call[d].at = "idle" => call'[d].at = "idle"
        BY <2>12
      <3>. QED
        BY <1>1, <1>2, <3>1 DEF CallsAreInside
    <2>16. PoolShape'
      <3>1. Len(tasks') <= QueueCap
        BY <1>1, <2>2, TransferAssumption
      <3>. QED
        BY <1>1, <1>2, <2>2, <2>5, <2>12, <3>1 DEF PoolShape
    <2>. QED
      BY <2>11, <2>14, <2>15, <2>16 DEF PoolInv
  <1>. QED
    BY <1>3, <1>4 DEF Pop

\* A thread is done with its chunk and counts it.
LEMMA MoveKeeps ==
    ASSUME PoolInv, NEW w \in Workers, Move(w)
    PROVE  PoolInv'
  <1>1. /\ worker \in [Workers -> WorkerRecord] /\ call \in [Callers -> CallRecord]
        /\ tasks \in Seq(Task) /\ Len(tasks) <= QueueCap
        /\ stop \in BOOLEAN /\ calls \in 0..MaxCalls
        /\ pool \in {"down", "starting", "up", "stopping"}
        /\ TasksAreDistinct /\ CallsOK /\ CallsAreInside
    BY DEF PoolInv, PoolShape
  <1>2. /\ worker[w].at = "moving" /\ w \in WorkersAt("moving")
        /\ UNCHANGED <<pool, stop, tasks, calls>>
    BY DEF Move, WorkersAt
  <1>3. PICK t \in Task : t = worker[w].task
    BY <1>1, <1>2 DEF WorkerRecord
  <1> DEFINE c == t.caller
             k == t.chunk
  <1>4. c \in Callers
    BY DEF Task
  <1>5. PICK ok \in BOOLEAN : call' = [call EXCEPT ![c] = Counted(@, k, ok)]
    BY <1>3 DEF Move
  <1> DEFINE s == Counted(call[c], k, ok)
  <1>6. call' = [call EXCEPT ![c] = s]
    BY <1>5
  <1>7. k \in InHands(c)
    BY <1>2, <1>3 DEF InHands
  <1>8. k \notin InRing(c)
    <2>1. ASSUME NEW i \in 1..Len(tasks), tasks[i].caller = c
          PROVE  tasks[i].chunk # k
      <3>1. tasks[i] \in Task /\ tasks[i] # t
        BY <1>1, <1>2, <1>3 DEF TasksAreDistinct
      <3>. QED
        BY <2>1, <3>1 DEF Task
    <2>. QED
      BY <2>1 DEF InRing
  <1>9. /\ call[c].at # "idle" /\ s \in CallRecord
        /\ CallOK(s, InRing(c), InHands(c) \ {k})
    BY <1>1, <1>4, <1>7, <1>8, CountsChunk DEF CallsOK
  <1>. HIDE DEF s
  <1>10. /\ call' \in [Callers -> CallRecord] /\ call'[c] = s
         /\ \A d \in Callers : d # c => call'[d] = call[d]
    BY <1>1, <1>4, <1>6, <1>9
  <1>11. /\ worker' \in [Workers -> WorkerRecord] /\ worker'[w].at = "running"
         /\ \A v \in Workers : v # w => worker'[v] = worker[v]
    <2>1. RunningWorker \in WorkerRecord /\ RunningWorker.at = "running"
      BY DEF RunningWorker, NoWorker, WorkerRecord
    <2>2. worker' = [worker EXCEPT ![w] = RunningWorker]
      BY DEF Move
    <2>. QED
      BY <1>1, <2>1, <2>2
  <1>12. /\ WorkersAt("moving")' = WorkersAt("moving") \ {w}
         /\ \A v \in WorkersAt("moving") \ {w} : worker'[v] = worker[v]
    BY <1>11 DEF WorkersAt
  <1>13. \A d \in Callers : InRing(d)' = InRing(d)
    BY <1>2 DEF InRing
  <1>14. \A d \in Callers : d # c => InHands(d)' = InHands(d)
    <2>1. ASSUME NEW d \in Callers, d # c, NEW j
          PROVE  j \in InHands(d)' <=> j \in InHands(d)
      BY <1>3, <1>12, <2>1 DEF InHands
    <2>. QED
      BY <2>1
  <1>15. InHands(c)' = InHands(c) \ {k}
    <2>1. ASSUME NEW v \in WorkersAt("moving"), worker[v].task.caller = c,
                 worker[v].task.chunk = k
          PROVE  v = w
      <3>1. worker[v].task \in Task
        BY <1>1 DEF WorkersAt, WorkerRecord
      <3>2. worker[v].task = t
        BY <2>1, <3>1 DEF Task
      <3>. QED
        BY <1>1, <1>2, <1>3, <3>2 DEF TasksAreDistinct
    <2>2. ASSUME NEW j
          PROVE  j \in InHands(c)' <=> j \in InHands(c) /\ j # k
      BY <1>3, <1>12, <2>1 DEF InHands
    <2>. QED
      BY <2>2
  <1>16. TasksAreDistinct'
    BY <1>1, <1>2, <1>12 DEF TasksAreDistinct
  <1>17. CallsOK'
    BY <1>1, <1>9, <1>10, <1>13, <1>14, <1>15 DEF CallsOK
  <1>18. CallsAreInside'
    BY <1>1, <1>2, <1>4, <1>9 DEF CallsAreInside
  <1>19. PoolShape'
    BY <1>1, <1>2, <1>10, <1>11 DEF PoolShape
  <1>. QED
    BY <1>16, <1>17, <1>18, <1>19 DEF PoolInv

\* A sleeper wakes although nobody signalled.
LEMMA SpuriousWakeKeeps ==
    ASSUME PoolInv, SpuriousWake
    PROVE  PoolInv'
  <1>1. /\ worker \in [Workers -> WorkerRecord] /\ call \in [Callers -> CallRecord]
        /\ TasksAreDistinct /\ CallsOK /\ CallsAreInside
    BY DEF PoolInv, PoolShape
  <1>2. CASE /\ \E w \in WorkersAt("for_items") :
                   worker' = [worker EXCEPT ![w].at = "running"]
             /\ UNCHANGED <<pool, stop, tasks, call, calls>>
    <2>1. /\ worker' \in [Workers -> WorkerRecord]
          /\ \A v \in Workers :
                \/ worker'[v] = worker[v]
                \/ worker[v].at = "for_items" /\ worker'[v].at = "running"
      BY <1>1, <1>2, WakingWorkers
    <2>2. /\ TasksAreDistinct'
          /\ \A d \in Callers : InRing(d)' = InRing(d) /\ InHands(d)' = InHands(d)
      BY <1>1, <1>2, <2>1, TasksStay
    <2>. QED
      BY <1>1, <1>2, <2>1, <2>2 DEF PoolInv, PoolShape, CallsOK, CallsAreInside
  <1>3. CASE /\ \E c \in Callers :
                   /\ call[c].at \in {"for_space", "for_chunks"}
                   /\ call' = [call EXCEPT ![c].at = "running"]
             /\ UNCHANGED <<pool, stop, tasks, worker, calls>>
    <2>1. /\ call' \in [Callers -> CallRecord]
          /\ \A d \in Callers :
                \/ call'[d] = call[d]
                \/ /\ call[d].at \in {"for_space", "for_chunks"}
                   /\ call'[d].at = "running"
                   /\ call'[d].total = call[d].total /\ call'[d].queued = call[d].queued
                   /\ call'[d].pending = call[d].pending
                   /\ call'[d].failed = call[d].failed /\ call'[d].moved = call[d].moved
      BY <1>1, <1>3, WakingCallers
    <2>2. /\ TasksAreDistinct'
          /\ \A d \in Callers : InRing(d)' = InRing(d) /\ InHands(d)' = InHands(d)
      BY <1>1, <1>3, TasksStay
    <2>3. ASSUME NEW d \in Callers PROVE CallOK(call'[d], InRing(d), InHands(d))
      <3>1. /\ call[d] \in CallRecord /\ call'[d] \in CallRecord
            /\ CallOK(call[d], InRing(d), InHands(d))
        BY <1>1, <2>1 DEF CallsOK
      <3>2. CASE call'[d] = call[d]
        BY <3>1, <3>2
      <3>3. CASE call'[d] # call[d]
        <4>1. /\ call[d].at # "idle" /\ call'[d].at # "idle" /\ call'[d].at # "for_space"
              /\ call'[d].total = call[d].total /\ call'[d].queued = call[d].queued
              /\ call'[d].pending = call[d].pending
              /\ call'[d].failed = call[d].failed /\ call'[d].moved = call[d].moved
          BY <2>1, <3>3
        <4>. QED
          BY <3>1, <4>1, MovesAlong
      <3>. QED
        BY <3>2, <3>3
    <2>4. CallsOK'
      BY <2>2, <2>3 DEF CallsOK
    <2>5. CallsAreInside'
      <3>1. \A d \in Callers : call[d].at = "idle" => call'[d].at = "idle"
        BY <2>1
      <3>. QED
        BY <1>1, <1>3, <3>1 DEF CallsAreInside
    <2>6. PoolShape'
      BY <1>3, <2>1 DEF PoolInv, PoolShape
    <2>. QED
      BY <2>2, <2>4, <2>5, <2>6 DEF PoolInv
  <1>. QED
    BY <1>2, <1>3 DEF SpuriousWake

\* While no call is inside, threads come and go and nothing else changes.
LEMMA LifeKeeps ==
    ASSUME PoolInv, \A c \in Callers : call[c].at = "idle",
           worker' \in [Workers -> WorkerRecord],
           \A w \in Workers : worker[w].at # "moving" => worker'[w].at # "moving",
           UNCHANGED <<tasks, call, calls>>,
           pool' \in {"down", "starting", "up", "stopping"}, stop' \in BOOLEAN
    PROVE  PoolInv'
  <1>1. WorkersAt("moving") = {}
    BY IdleIsEmpty
  <1>2. \A w \in Workers : worker[w].at # "moving" /\ worker'[w].at # "moving"
    BY <1>1 DEF WorkersAt
  <1>3. TasksAreDistinct /\ CallsOK
    BY DEF PoolInv
  <1>4. /\ TasksAreDistinct'
        /\ \A c \in Callers : InRing(c)' = InRing(c) /\ InHands(c)' = InHands(c)
    BY <1>2, <1>3, TasksStay
  <1>5. PoolShape'
    BY DEF PoolInv, PoolShape
  <1>. QED
    BY <1>3, <1>4, <1>5 DEF PoolInv, CallsOK, CallsAreInside

\* The pool is set up, gets its threads, is told to stop, and is destroyed.
LEMMA InitializeKeeps == PoolInv /\ Initialize => PoolInv'
  <1>. SUFFICES ASSUME PoolInv, Initialize PROVE PoolInv'
    OBVIOUS
  <1>1. /\ \A c \in Callers : call[c].at = "idle"
        /\ pool' = "starting" /\ UNCHANGED <<tasks, worker, call, calls>>
        /\ worker \in [Workers -> WorkerRecord]
    BY DEF PoolInv, PoolShape, CallsAreInside, Initialize
  <1>2. stop' \in BOOLEAN
    BY Zenon DEF Initialize
  <1>. QED
    BY <1>1, <1>2, LifeKeeps

\* The pool is told to stop, by a shutdown or by a start that failed.
LEMMA StopKeeps ==
    ASSUME PoolInv, \A c \in Callers : call[c].at = "idle", pool' = "stopping",
           stop' = TRUE, WakeAllWorkers, UNCHANGED <<tasks, call, calls>>
    PROVE  PoolInv'
  <1>1. worker \in [Workers -> WorkerRecord]
    BY DEF PoolInv, PoolShape
  <1>2. /\ worker' \in [Workers -> WorkerRecord]
        /\ \A v \in Workers :
              \/ worker'[v] = worker[v]
              \/ worker[v].at = "for_items" /\ worker'[v].at = "running"
    BY <1>1, WakingWorkers
  <1>3. stop' \in BOOLEAN
    BY Zenon
  <1>4. \A v \in Workers : worker[v].at # "moving" => worker'[v].at # "moving"
    BY <1>2
  <1>. QED
    BY <1>2, <1>3, <1>4, LifeKeeps

\* The next thread is created, or none is and the others are stopped.
LEMMA CreateThreadKeeps == PoolInv /\ CreateThread => PoolInv'
  <1>. SUFFICES ASSUME PoolInv, CreateThread PROVE PoolInv'
    OBVIOUS
  <1>1. \A c \in Callers : call[c].at = "idle"
    BY DEF PoolInv, CallsAreInside, CreateThread
  <1>2. worker \in [Workers -> WorkerRecord] /\ stop \in BOOLEAN
    BY DEF PoolInv, PoolShape
  <1>3. UNCHANGED <<tasks, call, calls>>
    BY DEF CreateThread
  <1>4. \/ pool' = "stopping" /\ stop' = TRUE /\ WakeAllWorkers
        \/ \E w : /\ pool' \in {"up", "starting"}
                  /\ worker' = [worker EXCEPT ![w] = RunningWorker]
                  /\ UNCHANGED stop
    <2> DEFINE w == Threads + 1 - Cardinality(WorkersAt("none"))
    <2>1. \/ /\ pool' = IF w = Threads THEN "up" ELSE "starting"
             /\ worker' = [worker EXCEPT ![w] = RunningWorker]
             /\ UNCHANGED stop
          \/ pool' = "stopping" /\ stop' = TRUE /\ WakeAllWorkers
      BY DEF CreateThread
    <2>. HIDE DEF w
    <2>. QED
      BY <2>1
  <1>5. CASE pool' = "stopping" /\ stop' = TRUE /\ WakeAllWorkers
    BY <1>1, <1>3, <1>5, StopKeeps
  <1>6. CASE \E w : /\ pool' \in {"up", "starting"}
                    /\ worker' = [worker EXCEPT ![w] = RunningWorker]
                    /\ UNCHANGED stop
    <2>1. PICK w : /\ pool' \in {"up", "starting"}
                   /\ worker' = [worker EXCEPT ![w] = RunningWorker]
                   /\ UNCHANGED stop
      BY <1>6
    <2>2. RunningWorker \in WorkerRecord /\ RunningWorker.at = "running"
      BY DEF RunningWorker, NoWorker, WorkerRecord
    <2>3. /\ worker' \in [Workers -> WorkerRecord]
          /\ \A v \in Workers : worker[v].at # "moving" => worker'[v].at # "moving"
      BY <1>2, <2>1, <2>2
    <2>. QED
      BY <1>1, <1>2, <1>3, <2>1, <2>3, LifeKeeps
  <1>. QED
    BY <1>4, <1>5, <1>6

\* Every thread was joined; the ring, empty already, is cleared.
LEMMA DestroyKeeps == PoolInv /\ Destroy => PoolInv'
  <1>. SUFFICES ASSUME PoolInv, Destroy PROVE PoolInv'
    OBVIOUS
  <1>1. \A c \in Callers : call[c].at = "idle"
    BY DEF PoolInv, CallsAreInside, Destroy
  <1>2. tasks = <<>>
    BY <1>1, IdleIsEmpty
  <1>3. NoWorker \in WorkerRecord /\ NoWorker.at = "none"
    BY DEF NoWorker, WorkerRecord
  <1>4. stop' \in BOOLEAN
    BY Zenon DEF Destroy
  <1>5. /\ pool' = "down" /\ UNCHANGED <<tasks, call, calls>>
        /\ worker' = [w \in Workers |-> NoWorker]
    BY <1>2 DEF Destroy
  <1>. QED
    BY <1>1, <1>3, <1>4, <1>5, LifeKeeps

\* The steps of calls under way, which FileReader's system takes too.
LEMMA TransferringKeeps == PoolInv /\ Transferring => PoolInv'
  BY EnqueueKeeps, CollectKeeps, PopKeeps, MoveKeeps, SpuriousWakeKeeps DEF Transferring

\* The library shuts down with no call inside.
LEMMA CleanupKeeps == PoolInv /\ Cleanup => PoolInv'
  BY StopKeeps DEF Cleanup

\* Any caller begins a call of any length.
LEMMA BeginsKeep == PoolInv /\ Begin => PoolInv'
  <1>. SUFFICES ASSUME PoolInv, Begin PROVE PoolInv'
    OBVIOUS
  <1>1. calls' \in 0..MaxCalls
    BY TransferAssumption DEF PoolInv, PoolShape, Begin
  <1>. QED
    BY <1>1, BeginKeeps DEF Begin

\* The invariant is about the pool's variables only.
LEMMA PoolStutters == PoolInv /\ UNCHANGED poolVars => PoolInv'
  <1>. SUFFICES ASSUME PoolInv, UNCHANGED poolVars PROVE PoolInv'
    OBVIOUS
  <1>1. UNCHANGED <<pool, stop, tasks, worker, call, calls>>
    BY DEF poolVars
  <1>2. TasksAreDistinct /\ CallsOK
    BY DEF PoolInv
  <1>3. /\ TasksAreDistinct'
        /\ \A c \in Callers : InRing(c)' = InRing(c) /\ InHands(c)' = InHands(c)
    BY <1>1, <1>2, TasksStay
  <1>. QED
    BY <1>1, <1>2, <1>3 DEF PoolInv, PoolShape, CallsOK, CallsAreInside

\* The invariant is inductive.
LEMMA PoolNextKeeps == PoolInv /\ [Next]_poolVars => PoolInv'
  BY BeginsKeep, TransferringKeeps, InitializeKeeps, CreateThreadKeeps, CleanupKeeps,
     DestroyKeeps, PoolStutters DEF Next

\* What the invariant says of waits and of results.
LEMMA PoolInvMeans == PoolInv => TypeOK /\ WaitsOutliveTheirTasks /\ TransfersAreWhole
  <1>. SUFFICES ASSUME PoolInv PROVE TypeOK /\ WaitsOutliveTheirTasks /\ TransfersAreWhole
    OBVIOUS
  <1>1. TypeOK
    BY ShapeIsType DEF PoolInv
  <1>2. \A c \in Callers : CallOK(call[c], InRing(c), InHands(c))
    BY DEF PoolInv, CallsOK
  <1>3. WaitsOutliveTheirTasks
    BY <1>2 DEF CallOK, WaitsOutliveTheirTasks
  <1>4. TransfersAreWhole
    BY <1>2 DEF CallOK, TransfersAreWhole
  <1>. QED
    BY <1>1, <1>3, <1>4

\* The invariant of the pool holds throughout.
LEMMA PoolAlways == Spec => []PoolInv
  BY PoolInitInv, PoolNextKeeps, PTL DEF Spec

\* A thread never touches the wait, on the caller's stack, of a call that has
\* returned, and pending counts what the call will still hear of
\* (xfer_file_transfer destroys its wait as soon as it reads pending = 0).
THEOREM WaitsAreSafe == Spec => []WaitsOutliveTheirTasks
  BY PoolAlways, PoolInvMeans, PTL

\* A transfer returns true if and only if all of its chunks were moved, however
\* threads and failures interleave (xfer_file_worker's failed flag).
THEOREM ResultsAreWhole == Spec => []TransfersAreWhole
  BY PoolAlways, PoolInvMeans, PTL

\* The ring never holds more tasks than its capacity, pending never goes below
\* zero, and every variable keeps its type.
THEOREM PoolTypeCorrect == Spec => []TypeOK
  BY PoolAlways, PoolInvMeans, PTL

-----------------------------------------------------------------------------
(* No signal is lost.                                                       *)

Running == WorkersAt("running")
Filling == {c \in Callers : call[c].at = "running" /\ call[c].queued < call[c].total}

\* SleepersAreNotNeeded, in its two halves.
ItemsAreAwaited ==
    WorkersAt("for_items") # {} => Len(tasks) <= Cardinality(Running)
SpaceIsAwaited ==
    (\E c \in Callers : call[c].at = "for_space") =>
        QueueCap - Len(tasks) <= Cardinality(Filling)

\* The property is the two halves together.
LEMMA TwoHalves == SleepersAreNotNeeded <=> ItemsAreAwaited /\ SpaceIsAwaited
  BY DEF SleepersAreNotNeeded, ItemsAreAwaited, SpaceIsAwaited, Running, Filling

\* Both sets are finite.
LEMMA AwakeAreFinite ==
    /\ IsFiniteSet(Running) /\ Cardinality(Running) \in Nat
    /\ IsFiniteSet(Filling) /\ Cardinality(Filling) \in Nat
    /\ IsFiniteSet(Running') /\ Cardinality(Running') \in Nat
    /\ IsFiniteSet(Filling') /\ Cardinality(Filling') \in Nat
  <1>1. IsFiniteSet(Workers) /\ IsFiniteSet(Callers)
    BY FS_Interval, TransferAssumption DEF Workers
  <1>2. /\ Running \in SUBSET Workers /\ Filling \in SUBSET Callers
        /\ Running' \in SUBSET Workers /\ Filling' \in SUBSET Callers
    BY DEF Running, Filling, WorkersAt
  <1>. QED
    BY <1>1, <1>2, FS_Subset, FS_CardinalityType

\* While nobody takes from the ring or adds to it, the threads awake and the
\* callers awake may only become more.
LEMMA NobodyFallsAsleep ==
    ASSUME UNCHANGED tasks,
           \A w \in Workers :
              /\ worker[w].at = "running" => worker'[w].at = "running"
              /\ worker'[w].at = "for_items" => worker[w].at = "for_items",
           \A c \in Callers :
              /\ c \in Filling => c \in Filling'
              /\ call'[c].at = "for_space" => call[c].at = "for_space",
           ItemsAreAwaited, SpaceIsAwaited, PoolInv
    PROVE  ItemsAreAwaited' /\ SpaceIsAwaited'
  <1>1. Running \in SUBSET Running' /\ Filling \in SUBSET Filling'
    BY DEF Running, WorkersAt, Filling
  <1>2. /\ Cardinality(Running) <= Cardinality(Running')
        /\ Cardinality(Filling) <= Cardinality(Filling')
    BY <1>1, AwakeAreFinite, FS_Subset
  <1>3. Len(tasks) \in Nat /\ QueueCap \in Nat /\ Len(tasks') = Len(tasks)
    BY TransferAssumption DEF PoolInv, PoolShape
  <1>4. ItemsAreAwaited'
    BY <1>2, <1>3, AwakeAreFinite DEF ItemsAreAwaited, WorkersAt
  <1>5. SpaceIsAwaited'
    BY <1>2, <1>3, AwakeAreFinite DEF SpaceIsAwaited
  <1>. QED
    BY <1>4, <1>5

\* The same for a step that only moves one caller.
LEMMA BeginSleepers ==
    ASSUME PoolInv, ItemsAreAwaited, SpaceIsAwaited,
           NEW c \in Callers, NEW n \in 0..MaxChunks, BeginTransfer(c, n)
    PROVE  ItemsAreAwaited' /\ SpaceIsAwaited'
  <1>1. call \in [Callers -> CallRecord] /\ call[c].at = "idle"
        /\ UNCHANGED <<tasks, worker>>
    BY DEF BeginTransfer, PoolInv, PoolShape
  <1>2. PICK a \in {"idle", "running"} : call' = [call EXCEPT ![c] = Begun(a, n)]
    BY DEF BeginTransfer, Begun
  <1> DEFINE s == Begun(a, n)
  <1>3. s \in CallRecord /\ s.at = a
    BY BegunFields
  <1>4. call' = [call EXCEPT ![c] = s]
    BY <1>2
  <1>. HIDE DEF s
  <1>5. call'[c] = s /\ \A d \in Callers : d # c => call'[d] = call[d]
    BY <1>1, <1>4
  <1>6. \A d \in Callers : /\ d \in Filling => d \in Filling'
                           /\ call'[d].at = "for_space" => call[d].at = "for_space"
    BY <1>1, <1>3, <1>5 DEF Filling
  <1>. QED
    BY <1>1, <1>6, NobodyFallsAsleep

\* A task more in the ring has a thread more awake, if any slept.
LEMMA EnqueueSleepers ==
    ASSUME PoolInv, ItemsAreAwaited, SpaceIsAwaited, NEW c \in Callers, Enqueue(c)
    PROVE  ItemsAreAwaited' /\ SpaceIsAwaited'
  <1>1. /\ worker \in [Workers -> WorkerRecord] /\ call \in [Callers -> CallRecord]
        /\ tasks \in Seq(Task) /\ Len(tasks) \in Nat /\ Len(tasks) <= QueueCap
        /\ QueueCap \in Nat
        /\ call[c].at = "running" /\ call[c].queued < call[c].total
        /\ call[c].queued \in Nat /\ call[c].total \in Nat
    BY TransferAssumption DEF Enqueue, PoolInv, PoolShape, CallRecord
  <1>2. CASE /\ Len(tasks) = QueueCap
             /\ call' = [call EXCEPT ![c].at = "for_space"]
             /\ UNCHANGED <<tasks, worker>>
    <2>1. ItemsAreAwaited'
      BY <1>2 DEF ItemsAreAwaited, Running, WorkersAt
    <2>2. Len(tasks') = QueueCap
      BY <1>2
    <2>3. SpaceIsAwaited'
      BY <1>1, <2>2, AwakeAreFinite DEF SpaceIsAwaited
    <2>. QED
      BY <2>1, <2>3
  <1>3. CASE /\ Len(tasks) < QueueCap
             /\ tasks' = Append(tasks, [caller |-> c, chunk |-> call[c].queued + 1])
             /\ call' = [call EXCEPT ![c].queued = @ + 1]
             /\ WakeOneWorker
    <2>1. Len(tasks') = Len(tasks) + 1
      BY <1>1, <1>3
    <2>2. ItemsAreAwaited'
      <3>1. CASE WorkersAt("for_items") = {}
        <4>1. UNCHANGED worker
          BY <1>3, <3>1 DEF WakeOneWorker
        <4>. QED
          BY <3>1, <4>1 DEF ItemsAreAwaited, WorkersAt
      <3>2. CASE WorkersAt("for_items") # {}
        <4>1. PICK w \in WorkersAt("for_items") : worker' = [worker EXCEPT ![w].at = "running"]
          BY <1>3, <3>2 DEF WakeOneWorker
        <4>2. /\ w \in Workers /\ worker[w].at = "for_items" /\ worker'[w].at = "running"
              /\ \A v \in Workers : v # w => worker'[v] = worker[v]
          BY <1>1, <4>1 DEF WorkersAt, WorkerRecord
        <4>3. Running' = Running \union {w} /\ w \notin Running
          BY <4>2 DEF Running, WorkersAt
        <4>4. Cardinality(Running') = Cardinality(Running) + 1
          BY <4>3, AwakeAreFinite, FS_AddElement
        <4>5. Len(tasks) <= Cardinality(Running)
          BY <3>2 DEF ItemsAreAwaited
        <4>. QED
          BY <1>1, <2>1, <4>4, <4>5, AwakeAreFinite DEF ItemsAreAwaited
      <3>. QED
        BY <3>1, <3>2
    <2>3. /\ call'[c].at = "running" /\ call'[c].total = call[c].total
          /\ \A d \in Callers : d # c => call'[d] = call[d]
      BY <1>1, <1>3 DEF CallRecord
    <2>4. c \in Filling
      BY <1>1 DEF Filling
    <2>5. Filling \ {c} \in SUBSET Filling'
      BY <2>3 DEF Filling
    <2>6. Cardinality(Filling) - 1 <= Cardinality(Filling')
      <3>1. /\ IsFiniteSet(Filling \ {c})
            /\ Cardinality(Filling \ {c}) = Cardinality(Filling) - 1
        BY <2>4, AwakeAreFinite, FS_RemoveElement
      <3>. QED
        BY <2>5, <3>1, AwakeAreFinite, FS_Subset
    <2>7. (\E d \in Callers : call'[d].at = "for_space") =>
              \E d \in Callers : call[d].at = "for_space"
      BY <2>3
    <2>8. SpaceIsAwaited'
      BY <1>1, <2>1, <2>6, <2>7, AwakeAreFinite DEF SpaceIsAwaited
    <2>. QED
      BY <2>2, <2>8
  <1>. QED
    BY <1>2, <1>3 DEF Enqueue

\* A caller that has queued all of its chunks is not needed for space.
LEMMA CollectSleepers ==
    ASSUME PoolInv, ItemsAreAwaited, SpaceIsAwaited, NEW c \in Callers, Collect(c)
    PROVE  ItemsAreAwaited' /\ SpaceIsAwaited'
  <1>1. /\ call \in [Callers -> CallRecord] /\ UNCHANGED <<tasks, worker>>
        /\ call[c].queued = call[c].total /\ call[c].total \in Nat
    BY DEF Collect, PoolInv, PoolShape, CallRecord
  <1>2. /\ call'[c].at \in {"for_chunks", "idle"}
        /\ \A d \in Callers : d # c => call'[d] = call[d]
    <2>1. CASE call' = [call EXCEPT ![c].at = "for_chunks"]
      BY <1>1, <2>1 DEF CallRecord
    <2>2. CASE call' = [call EXCEPT ![c].at = "idle", ![c].ok = ~call[c].failed]
      BY <1>1, <2>2 DEF CallRecord
    <2>. QED
      BY <2>1, <2>2 DEF Collect
  <1>3. \A d \in Callers : /\ d \in Filling => d \in Filling'
                           /\ call'[d].at = "for_space" => call[d].at = "for_space"
    BY <1>1, <1>2 DEF Filling
  <1>. QED
    BY <1>1, <1>3, NobodyFallsAsleep

\* A task less needs a thread less, and its place wakes a caller, if any slept.
LEMMA PopSleepers ==
    ASSUME PoolInv, ItemsAreAwaited, SpaceIsAwaited, NEW w \in Workers, Pop(w)
    PROVE  ItemsAreAwaited' /\ SpaceIsAwaited'
  <1>1. /\ worker \in [Workers -> WorkerRecord] /\ call \in [Callers -> CallRecord]
        /\ tasks \in Seq(Task) /\ Len(tasks) \in Nat /\ Len(tasks) <= QueueCap
        /\ QueueCap \in Nat /\ worker[w].at = "running" /\ CallsOK
    BY TransferAssumption DEF Pop, PoolInv, PoolShape
  <1>2. CASE /\ tasks = <<>>
             /\ UNCHANGED <<tasks, call>>
    <2>1. Len(tasks') = 0
      BY <1>2
    <2>2. ItemsAreAwaited'
      BY <2>1, AwakeAreFinite DEF ItemsAreAwaited
    <2>3. SpaceIsAwaited'
      BY <1>2 DEF SpaceIsAwaited, Filling
    <2>. QED
      BY <2>2, <2>3
  <1>3. CASE /\ tasks # <<>>
             /\ worker' = [worker EXCEPT ![w] = [at |-> "moving", task |-> Head(tasks)]]
             /\ tasks' = Tail(tasks)
             /\ WakeOneProducer
    <2>1. Len(tasks') = Len(tasks) - 1 /\ Len(tasks) > 0
      BY <1>1, <1>3
    <2>2. worker'[w].at = "moving" /\ \A v \in Workers : v # w => worker'[v] = worker[v]
      BY <1>1, <1>3
    <2>3. /\ w \in Running /\ Running' = Running \ {w}
          /\ WorkersAt("for_items")' = WorkersAt("for_items")
      BY <1>1, <2>2 DEF Running, WorkersAt
    <2>4. Cardinality(Running') = Cardinality(Running) - 1
      BY <2>3, AwakeAreFinite, FS_RemoveElement
    <2>5. ItemsAreAwaited'
      BY <1>1, <2>1, <2>3, <2>4, AwakeAreFinite DEF ItemsAreAwaited
    <2>6. SpaceIsAwaited'
      <3>1. CASE \A c \in Callers : call[c].at # "for_space"
        <4>1. UNCHANGED call
          BY <1>3, <3>1 DEF WakeOneProducer
        <4>. QED
          BY <3>1, <4>1 DEF SpaceIsAwaited
      <3>2. CASE \E c \in Callers : call[c].at = "for_space"
        <4>1. PICK c \in Callers : /\ call[c].at = "for_space"
                                   /\ call' = [call EXCEPT ![c].at = "running"]
          BY <1>3, <3>2 DEF WakeOneProducer
        <4>2. call[c].queued < call[c].total
          BY <1>1, <4>1 DEF CallsOK, CallOK
        <4>3. /\ call'[c].at = "running" /\ call'[c].queued = call[c].queued
              /\ call'[c].total = call[c].total
              /\ \A d \in Callers : d # c => call'[d] = call[d]
          BY <1>1, <4>1 DEF CallRecord
        <4>4. Filling' = Filling \union {c} /\ c \notin Filling
          BY <4>1, <4>2, <4>3 DEF Filling
        <4>5. Cardinality(Filling') = Cardinality(Filling) + 1
          BY <4>4, AwakeAreFinite, FS_AddElement
        <4>6. QueueCap - Len(tasks) <= Cardinality(Filling)
          BY <3>2 DEF SpaceIsAwaited
        <4>. QED
          BY <1>1, <2>1, <4>5, <4>6, AwakeAreFinite DEF SpaceIsAwaited
      <3>. QED
        BY <3>1, <3>2
    <2>. QED
      BY <2>5, <2>6
  <1>. QED
    BY <1>2, <1>3 DEF Pop

\* A thread that has moved its chunk is awake for the next one.
LEMMA MoveSleepers ==
    ASSUME PoolInv, ItemsAreAwaited, SpaceIsAwaited, NEW w \in Workers, Move(w)
    PROVE  ItemsAreAwaited' /\ SpaceIsAwaited'
  <1>1. /\ worker \in [Workers -> WorkerRecord] /\ call \in [Callers -> CallRecord]
        /\ worker[w].at = "moving" /\ UNCHANGED tasks
        /\ worker' = [worker EXCEPT ![w] = RunningWorker]
    BY DEF Move, PoolInv, PoolShape
  <1>2. PICK t \in Task, ok \in BOOLEAN :
           call' = [call EXCEPT ![t.caller] = Counted(@, t.chunk, ok)]
    BY <1>1 DEF Move, WorkerRecord
  <1> DEFINE c == t.caller
             s == Counted(call[c], t.chunk, ok)
  <1>3. c \in Callers /\ call[c] \in CallRecord
    BY <1>1 DEF Task
  <1>4. /\ s.total = call[c].total /\ s.queued = call[c].queued
        /\ s.at = call[c].at \/ s.at = "running"
    BY <1>3 DEF Counted, CallRecord
  <1>5. call' = [call EXCEPT ![c] = s]
    BY <1>2
  <1>. HIDE DEF s, c
  <1>6. call'[c] = s /\ \A d \in Callers : d # c => call'[d] = call[d]
    BY <1>1, <1>3, <1>5
  <1>7. \A d \in Callers : /\ d \in Filling => d \in Filling'
                           /\ call'[d].at = "for_space" => call[d].at = "for_space"
    BY <1>3, <1>4, <1>6 DEF Filling
  <1>8. \A v \in Workers : /\ worker[v].at = "running" => worker'[v].at = "running"
                           /\ worker'[v].at = "for_items" => worker[v].at = "for_items"
    <2>1. RunningWorker.at = "running"
      BY DEF RunningWorker, NoWorker
    <2>. QED
      BY <1>1, <2>1
  <1>. QED
    BY <1>1, <1>7, <1>8, NobodyFallsAsleep

\* A wake nobody asked for only adds to those awake.
LEMMA SpuriousSleepers ==
    ASSUME PoolInv, ItemsAreAwaited, SpaceIsAwaited, SpuriousWake
    PROVE  ItemsAreAwaited' /\ SpaceIsAwaited'
  <1>1. /\ worker \in [Workers -> WorkerRecord] /\ call \in [Callers -> CallRecord]
        /\ UNCHANGED tasks
    BY DEF SpuriousWake, PoolInv, PoolShape
  <1>2. CASE /\ \E w \in WorkersAt("for_items") :
                   worker' = [worker EXCEPT ![w].at = "running"]
             /\ UNCHANGED call
    <2>1. \A v \in Workers :
             \/ worker'[v] = worker[v]
             \/ worker[v].at = "for_items" /\ worker'[v].at = "running"
      BY <1>1, <1>2, WakingWorkers
    <2>2. \A v \in Workers : /\ worker[v].at = "running" => worker'[v].at = "running"
                             /\ worker'[v].at = "for_items" => worker[v].at = "for_items"
      BY <2>1
    <2>3. \A d \in Callers : /\ d \in Filling => d \in Filling'
                             /\ call'[d].at = "for_space" => call[d].at = "for_space"
      BY <1>2 DEF Filling
    <2>. QED
      BY <1>1, <2>2, <2>3, NobodyFallsAsleep
  <1>3. CASE /\ \E c \in Callers :
                   /\ call[c].at \in {"for_space", "for_chunks"}
                   /\ call' = [call EXCEPT ![c].at = "running"]
             /\ UNCHANGED worker
    <2>1. \A c \in Callers :
             \/ call'[c] = call[c]
             \/ /\ call[c].at \in {"for_space", "for_chunks"}
                /\ call'[c].at = "running"
                /\ call'[c].total = call[c].total /\ call'[c].queued = call[c].queued
      BY <1>1, <1>3, WakingCallers
    <2>2. \A d \in Callers : /\ d \in Filling => d \in Filling'
                             /\ call'[d].at = "for_space" => call[d].at = "for_space"
      BY <2>1 DEF Filling
    <2>. QED
      BY <1>1, <1>3, <2>2, NobodyFallsAsleep
  <1>. QED
    BY <1>2, <1>3 DEF SpuriousWake

\* Where no call is inside, the ring is empty and no caller sleeps.
NobodyIsInside == \A c \in Callers : call[c].at = "idle"

\* There is then nothing to wait for.
LEMMA NobodyInside == PoolInv /\ NobodyIsInside => ItemsAreAwaited /\ SpaceIsAwaited
  <1>. SUFFICES ASSUME PoolInv, NobodyIsInside PROVE ItemsAreAwaited /\ SpaceIsAwaited
    OBVIOUS
  <1>1. Len(tasks) = 0
    BY IdleIsEmpty DEF NobodyIsInside
  <1>2. ItemsAreAwaited
    BY <1>1, AwakeAreFinite DEF ItemsAreAwaited
  <1>3. SpaceIsAwaited
    BY DEF SpaceIsAwaited, NobodyIsInside
  <1>. QED
    BY <1>2, <1>3

\* The pool comes and goes while nobody is inside.
LEMMA LifeSleepers ==
    ASSUME PoolInv, PoolInv', Initialize \/ CreateThread \/ Cleanup \/ Destroy
    PROVE  ItemsAreAwaited' /\ SpaceIsAwaited'
  <1>1. (\A c \in Callers : call[c].at = "idle") /\ UNCHANGED call
    <2>1. CASE Cleanup
      BY <2>1 DEF Cleanup
    <2>2. CASE Initialize
      BY <2>2 DEF Initialize, PoolInv, CallsAreInside
    <2>3. CASE CreateThread
      BY <2>3 DEF CreateThread, PoolInv, CallsAreInside
    <2>4. CASE Destroy
      BY <2>4 DEF Destroy, PoolInv, CallsAreInside
    <2>. QED
      BY <2>1, <2>2, <2>3, <2>4
  <1>2. NobodyIsInside'
    BY <1>1 DEF NobodyIsInside
  <1>. QED
    BY <1>2, NobodyInside, PTL

\* Nobody sleeps at first.
LEMMA SleepersInit == PoolInit => ItemsAreAwaited /\ SpaceIsAwaited
  <1>. SUFFICES ASSUME PoolInit PROVE ItemsAreAwaited /\ SpaceIsAwaited
    OBVIOUS
  <1>1. Len(tasks) = 0 /\ \A c \in Callers : call[c].at = "idle"
    BY DEF PoolInit, NoCall
  <1>. QED
    BY <1>1, AwakeAreFinite DEF ItemsAreAwaited, SpaceIsAwaited

\* Both halves are inductive, beside the invariant of the pool.
LEMMA SleepersNext ==
    PoolInv /\ PoolInv' /\ ItemsAreAwaited /\ SpaceIsAwaited /\ [Next]_poolVars =>
        ItemsAreAwaited' /\ SpaceIsAwaited'
  <1>. SUFFICES ASSUME PoolInv, PoolInv', ItemsAreAwaited, SpaceIsAwaited, [Next]_poolVars
                PROVE  ItemsAreAwaited' /\ SpaceIsAwaited'
    OBVIOUS
  <1>1. CASE Begin
    BY <1>1, BeginSleepers DEF Begin
  <1>2. CASE Transferring
    BY <1>2, EnqueueSleepers, CollectSleepers, PopSleepers, MoveSleepers, SpuriousSleepers
    DEF Transferring
  <1>3. CASE Initialize \/ CreateThread \/ Cleanup \/ Destroy
    BY <1>3, LifeSleepers
  <1>4. CASE UNCHANGED poolVars
    BY <1>4 DEF poolVars, ItemsAreAwaited, SpaceIsAwaited, Running, Filling, WorkersAt
  <1>. QED
    BY <1>1, <1>2, <1>3, <1>4 DEF Next

\* The single signals of has_items and has_space lose no task and no free place,
\* whatever the numbers of threads and callers and the capacity of the ring
\* (xfer_file_task_push, xfer_file_task_pop).
THEOREM SignalsAreNotLost == Spec => []SleepersAreNotNeeded
  <1>1. PoolInit => PoolInv /\ ItemsAreAwaited /\ SpaceIsAwaited
    BY PoolInitInv, SleepersInit
  <1>2. PoolInv /\ ItemsAreAwaited /\ SpaceIsAwaited /\ [Next]_poolVars =>
           PoolInv' /\ ItemsAreAwaited' /\ SpaceIsAwaited'
    BY PoolNextKeeps, SleepersNext
  <1>3. PoolInv /\ ItemsAreAwaited /\ SpaceIsAwaited => SleepersAreNotNeeded
    BY TwoHalves
  <1>. QED
    BY <1>1, <1>2, <1>3, PTL DEF Spec

-----------------------------------------------------------------------------
(* The invariant of the ring of windows.                                    *)

SlotRecord == [buffer : BOOLEAN, offset : 0..Window, stream : Streams \union {None},
               event : [Queues -> Completion] \union {None},
               releasing : BOOLEAN, copies : [Queues -> Completion]]

ReadRecord == [at : {"idle", "loop", "next", "transfer", "copy", "cleanup"},
               left : 0..MaxSize, stream : Streams \union {None},
               queue : Queues \union {None}, write : BOOLEAN,
               lo : 0..Window, n : 0..Window, slot : 0..ReaderSlots]

CopyRecord == [slot : Slots, lo : 0..Window, n : 1..Window]

\* ReaderTypeOK without the pool, with its sets of records named.
ReaderShape ==
    /\ slots \in [Slots -> SlotRecord] /\ active \in 0..ReaderSlots
    /\ rd \in ReadRecord /\ inflight \in [Queues -> Seq(CopyRecord)]

\* What waits for completion w waits for the i-th copy of queue q.
Covers(w, q, i) == w[q].wholeQueue \/ i <= w[q].ahead

\* What the ring, in a state given by ss, a and r, owes to copy c, the i-th
\* that queue q has still to do.  A window that the reader is about to leave or
\* to clean up has an event already; the part the reader works at lies behind
\* all copies of its window.
CopyOK(ss, a, r, q, i, c) ==
    LET slot == ss[c.slot] IN
    /\ slot.buffer
    /\ c.lo + c.n <= slot.offset
    /\ Covers(slot.copies, q, i)
    /\ slot.event # None => Covers(slot.event, q, i)
    /\ c.slot # a => slot.event # None
    /\ r.at = "next" => slot.event # None
    /\ r.at = "cleanup" /\ c.slot >= r.slot => slot.event # None
    /\ r.at \in {"transfer", "copy"} /\ c.slot = a => c.lo + c.n <= r.lo

CopiesOK == \A q \in Queues : \A i \in 1..Len(inflight[q]) :
                CopyOK(slots, active, rd, q, i, inflight[q][i])

\* Where the reader is, and what it has in hand there.
ReaderOK ==
    /\ active # 0 => slots[active].buffer
    /\ rd.at = "cleanup" => rd.slot # 0
    /\ rd.at # "transfer" => call[Reader].at = "idle"
    /\ rd.at \in {"transfer", "copy"} =>
          /\ active # 0 /\ slots[active].event = None
          /\ rd.n # 0 /\ rd.n <= rd.left /\ rd.lo + rd.n = slots[active].offset

RingInv == PoolInv /\ ReaderShape /\ ReaderOK /\ CopiesOK

-----------------------------------------------------------------------------
(* Windows, completions and the records of the reader.                      *)

\* None is no completion.
LEMMA NoneIsNoCompletion == None \notin [Queues -> Completion] /\ None \notin Streams
  BY ReaderAssumption DEF Completion

\* The device does a copy: what waited for a later one waits for one less.
LEMMA OneLessWaits ==
    ASSUME NEW w \in [Queues -> Completion], NEW q \in Queues
    PROVE  /\ OneLess(w, q) \in [Queues -> Completion]
           /\ \A p \in Queues : OneLess(w, q)[p].wholeQueue = w[p].wholeQueue
           /\ \A p \in Queues : p # q => OneLess(w, q)[p] = w[p]
           /\ w[q].ahead = 0 => OneLess(w, q)[q].ahead = 0
           /\ w[q].ahead # 0 => OneLess(w, q)[q].ahead = w[q].ahead - 1
  <1> DEFINE k == IF w[q].ahead = 0 THEN 0 ELSE w[q].ahead - 1
             v == [w[q] EXCEPT !.ahead = k]
  <1>1. w[q] \in Completion /\ w[q].ahead \in Nat
    BY DEF Completion
  <1>2. k \in Nat
    BY <1>1
  <1>3. v \in Completion /\ v.wholeQueue = w[q].wholeQueue /\ v.ahead = k
    <2>. HIDE DEF k
    <2>. QED
      BY <1>1, <1>2 DEF Completion
  <1>4. OneLess(w, q) = [w EXCEPT ![q] = v]
    BY DEF OneLess
  <1>. HIDE DEF v
  <1>5. /\ OneLess(w, q) \in [Queues -> Completion] /\ OneLess(w, q)[q] = v
        /\ \A p \in Queues : p # q => OneLess(w, q)[p] = w[p]
    BY <1>3, <1>4
  <1>. QED
    BY <1>3, <1>5

\* A completion that has finished covers no copy the device has still to do.
LEMMA FinishedCoversNone ==
    ASSUME ReaderShape, NEW w \in [Queues -> Completion], Drained(w),
           NEW q \in Queues, NEW i \in 1..Len(inflight[q])
    PROVE  ~Covers(w, q, i)
  <1>1. inflight[q] \in Seq(CopyRecord) /\ inflight[q] # <<>>
    BY DEF ReaderShape
  <1>2. ~w[q].wholeQueue /\ w[q].ahead = 0
    BY <1>1 DEF Drained
  <1>. QED
    BY <1>2 DEF Covers

\* The forms in which a window is written.
LEMMA GivesEvent ==
    ASSUME NEW r \in SlotRecord, NEW e \in [Queues -> Completion] \union {None}, NEW s,
           s = [r EXCEPT !.event = e]
    PROVE  /\ s \in SlotRecord /\ s.buffer = r.buffer /\ s.offset = r.offset
           /\ s.copies = r.copies /\ s.event = e
  <1>1. /\ s.buffer = r.buffer /\ s.offset = r.offset /\ s.copies = r.copies
        /\ s.event = e
    BY DEF SlotRecord
  <1>2. s \in SlotRecord
    BY DEF SlotRecord
  <1>. QED
    BY <1>1, <1>2

\* hostbuf_file_reader_next takes a window.
LEMMA TakesWindow ==
    ASSUME NEW r \in SlotRecord, NEW st \in Streams \union {None}, NEW s,
           s = [r EXCEPT !.buffer = TRUE, !.offset = 0, !.stream = st, !.event = None]
    PROVE  /\ s \in SlotRecord /\ s.buffer /\ s.offset = 0 /\ s.event = None
           /\ s.copies = r.copies
  <1>1. s.buffer /\ s.offset = 0 /\ s.event = None /\ s.copies = r.copies
    BY DEF SlotRecord
  <1>2. 0 \in 0..Window
    BY ReaderAssumption, TransferAssumption
  <1>3. s \in SlotRecord
    BY <1>2 DEF SlotRecord
  <1>. QED
    BY <1>1, <1>3

\* A part is put in a window.
LEMMA FillsWindow ==
    ASSUME NEW r \in SlotRecord, NEW o \in 0..Window, NEW s, s = [r EXCEPT !.offset = o]
    PROVE  /\ s \in SlotRecord /\ s.buffer = r.buffer /\ s.offset = o
           /\ s.event = r.event /\ s.copies = r.copies
  BY DEF SlotRecord

\* A copy is noted in the record of a window's buffer.
LEMMA OwesCopy ==
    ASSUME NEW r \in SlotRecord, NEW w \in [Queues -> Completion], NEW s,
           s = [r EXCEPT !.copies = w]
    PROVE  /\ s \in SlotRecord /\ s.buffer = r.buffer /\ s.offset = r.offset
           /\ s.event = r.event /\ s.copies = w
  BY DEF SlotRecord

\* A window could not be freed.
LEMMA RefusesCopies ==
    ASSUME NEW r \in SlotRecord, NEW s, s = [r EXCEPT !.event = None, !.releasing = TRUE]
    PROVE  /\ s \in SlotRecord /\ s.buffer = r.buffer /\ s.offset = r.offset
           /\ s.event = None /\ s.copies = r.copies
  BY DEF SlotRecord

\* A window never used.
LEMMA EmptySlotType ==
    /\ EmptySlot \in SlotRecord /\ ~EmptySlot.buffer /\ EmptySlot.offset = 0
    /\ EmptySlot.event = None
  <1>1. NoWait \in Completion
    BY DEF NoWait, Completion
  <1>2. [q \in Queues |-> NoWait] \in [Queues -> Completion]
    BY <1>1
  <1>3. 0 \in 0..Window
    BY ReaderAssumption, TransferAssumption
  <1>. QED
    BY <1>2, <1>3 DEF EmptySlot, SlotRecord

\* The reader between two calls.
LEMMA IdleReaderType ==
    /\ IdleReader \in ReadRecord /\ IdleReader.at = "idle"
  BY ReaderAssumption, TransferAssumption DEF IdleReader, ReadRecord

\* The reader goes to another place of hostbuf_file_transfer.
LEMMA ReaderMoves ==
    ASSUME NEW r \in ReadRecord, NEW s,
           NEW a \in {"idle", "loop", "next", "transfer", "copy", "cleanup"},
           s = [r EXCEPT !.at = a]
    PROVE  /\ s \in ReadRecord /\ s.at = a /\ s.left = r.left /\ s.lo = r.lo /\ s.n = r.n
           /\ s.slot = r.slot /\ s.queue = r.queue /\ s.stream = r.stream
  BY DEF ReadRecord

\* The reader goes on to the next part.
LEMMA AdvancedType ==
    ASSUME rd \in ReadRecord, rd.n <= rd.left
    PROVE  Advanced \in ReadRecord /\ Advanced.at = "loop"
  <1>1. rd.left - rd.n \in 0..MaxSize /\ 0 \in 0..Window
    BY ReaderAssumption, TransferAssumption DEF ReadRecord
  <1>. QED
    BY <1>1 DEF Advanced, ReadRecord

-----------------------------------------------------------------------------
(* One lemma per action of the ring.                                        *)

\* The reader goes on, or returns, and everything else stays.
LEMMA ReaderLeaves ==
    ASSUME RingInv, UNCHANGED <<poolVars, slots, active, inflight>>, rd.at # "transfer",
           rd' \in ReadRecord, rd'.at \in {"idle", "loop"}
    PROVE  RingInv'
  <1>1. PoolInv'
    BY PoolStutters DEF RingInv
  <1>2. ReaderShape'
    BY DEF RingInv, ReaderShape
  <1>3. UNCHANGED call
    BY DEF poolVars
  <1>4. ReaderOK'
    BY <1>3 DEF RingInv, ReaderOK
  <1>5. CopiesOK'
    BY DEF RingInv, CopiesOK, CopyOK
  <1>. QED
    BY <1>1, <1>2, <1>4, <1>5 DEF RingInv

\* An in-flight copy as the invariant knows it.
LEMMA CopyHas ==
    ASSUME RingInv, NEW q \in Queues, NEW i \in 1..Len(inflight[q])
    PROVE  /\ inflight[q][i] \in CopyRecord /\ inflight[q][i].slot \in Slots
           /\ slots[inflight[q][i].slot] \in SlotRecord
           /\ CopyOK(slots, active, rd, q, i, inflight[q][i])
           /\ slots[inflight[q][i].slot].offset # 0
  <1>1. inflight[q] \in Seq(CopyRecord) /\ slots \in [Slots -> SlotRecord]
    BY DEF RingInv, ReaderShape
  <1>2. inflight[q][i] \in CopyRecord /\ inflight[q][i].slot \in Slots
    <2> DEFINE c == inflight[q][i]
    <2>1. c \in CopyRecord
      BY <1>1
    <2>. HIDE DEF c
    <2>2. c.slot \in Slots
      BY <2>1 DEF CopyRecord
    <2>. QED
      BY <2>1, <2>2 DEF c
  <1>3. CopyOK(slots, active, rd, q, i, inflight[q][i])
    BY DEF RingInv, CopiesOK
  <1>4. slots[inflight[q][i].slot].offset # 0
    <2> DEFINE c == inflight[q][i]
    <2>1. c.lo \in 0..Window /\ c.n \in 1..Window
      BY <1>2 DEF CopyRecord
    <2>2. c.lo + c.n <= slots[c.slot].offset
      BY <1>3 DEF CopyOK
    <2>. HIDE DEF c
    <2>3. slots[c.slot].offset # 0
      BY <2>1, <2>2
    <2>. QED
      BY <2>3 DEF c
  <1>. QED
    BY <1>1, <1>2, <1>3, <1>4

\* After hostbuf_file_reader_retire_active every copy under way has an event.
LEMMA Retires ==
    ASSUME RingInv, RetireActive
    PROVE  /\ slots' \in [Slots -> SlotRecord]
           /\ \A s \in Slots :
                 /\ slots'[s].buffer = slots[s].buffer
                 /\ slots'[s].offset = slots[s].offset
                 /\ slots'[s].copies = slots[s].copies
                 /\ slots'[s].event \in {slots[s].event, slots[s].copies}
           /\ \A q \in Queues : \A i \in 1..Len(inflight[q]) :
                 slots'[inflight[q][i].slot].event # None
  <1>1. slots \in [Slots -> SlotRecord] /\ active \in 0..ReaderSlots /\ ReaderSlots \in Nat
    BY ReaderAssumption DEF RingInv, ReaderShape
  <1>2. CASE NeedsEvent
    <2> DEFINE s == [slots[active] EXCEPT !.event = slots[active].copies]
    <2>1. active \in Slots /\ slots[active] \in SlotRecord
      BY <1>1, <1>2 DEF NeedsEvent, Slots
    <2>2. /\ slots[active].copies \in [Queues -> Completion]
          /\ slots[active].copies # None
      BY <2>1, NoneIsNoCompletion DEF SlotRecord
    <2>3. /\ s \in SlotRecord /\ s.buffer = slots[active].buffer
          /\ s.offset = slots[active].offset /\ s.copies = slots[active].copies
          /\ s.event = slots[active].copies
      BY <2>1, <2>2, GivesEvent
    <2>4. slots' = [slots EXCEPT ![active] = s]
      BY <1>2 DEF RetireActive
    <2>. HIDE DEF s
    <2>5. /\ slots' \in [Slots -> SlotRecord] /\ slots'[active] = s
          /\ \A t \in Slots : t # active => slots'[t] = slots[t]
      BY <1>1, <2>1, <2>3, <2>4
    <2>6. ASSUME NEW q \in Queues, NEW i \in 1..Len(inflight[q])
          PROVE  slots'[inflight[q][i].slot].event # None
      BY <2>2, <2>3, <2>5, <2>6, CopyHas DEF CopyOK
    <2>. QED
      BY <2>3, <2>5, <2>6
  <1>3. CASE ~NeedsEvent
    <2>1. slots' = slots
      BY <1>3 DEF RetireActive
    <2>2. ASSUME NEW q \in Queues, NEW i \in 1..Len(inflight[q])
          PROVE  slots'[inflight[q][i].slot].event # None
      <3>1. inflight[q][i].slot # active => slots[inflight[q][i].slot].event # None
        BY CopyHas DEF CopyOK
      <3>2. inflight[q][i].slot \in Slots /\ slots[inflight[q][i].slot].offset # 0
        BY CopyHas
      <3>3. inflight[q][i].slot # 0
        BY <3>2 DEF Slots
      <3>. QED
        BY <1>3, <2>1, <3>1, <3>2, <3>3 DEF NeedsEvent
    <2>. QED
      BY <1>1, <2>1, <2>2
  <1>. QED
    BY <1>2, <1>3

\* Retired, the window may be left, or the ring cleaned up.
LEMMA RetiredKeeps ==
    ASSUME RingInv, RetireActive, UNCHANGED <<poolVars, active, inflight>>,
           rd.at # "transfer", rd' \in ReadRecord,
           rd'.at \in {"next", "cleanup"}, rd'.at = "cleanup" => rd'.slot # 0
    PROVE  RingInv'
  <1>1. /\ slots' \in [Slots -> SlotRecord]
        /\ \A s \in Slots :
              /\ slots'[s].buffer = slots[s].buffer
              /\ slots'[s].offset = slots[s].offset
              /\ slots'[s].copies = slots[s].copies
              /\ slots'[s].event \in {slots[s].event, slots[s].copies}
        /\ \A q \in Queues : \A i \in 1..Len(inflight[q]) :
              slots'[inflight[q][i].slot].event # None
    BY Retires
  <1>2. PoolInv'
    BY PoolStutters DEF RingInv
  <1>3. ReaderShape'
    BY <1>1 DEF RingInv, ReaderShape
  <1>4. ReaderOK'
    <2>1. UNCHANGED call
      BY DEF poolVars
    <2>2. active # 0 => active \in Slots
      BY ReaderAssumption DEF RingInv, ReaderShape, Slots
    <2>. QED
      BY <1>1, <2>1, <2>2 DEF RingInv, ReaderOK
  <1>5. CopiesOK'
    <2>1. ASSUME NEW q \in Queues, NEW i \in 1..Len(inflight[q])
          PROVE  CopyOK(slots', active', rd', q, i, inflight[q][i])
      <3> DEFINE c == inflight[q][i]
      <3>1. c \in CopyRecord /\ c.slot \in Slots /\ CopyOK(slots, active, rd, q, i, c)
        BY CopyHas
      <3>2. Covers(slots'[c.slot].event, q, i)
        <4>1. CASE slots'[c.slot].event = slots[c.slot].event
          BY <1>1, <3>1, <4>1 DEF CopyOK
        <4>2. CASE slots'[c.slot].event = slots[c.slot].copies
          BY <3>1, <4>2 DEF CopyOK
        <4>. QED
          BY <1>1, <3>1, <4>1, <4>2
      <3>3. slots'[c.slot].event # None
        BY <1>1
      <3>. HIDE DEF c
      <3>4. /\ slots'[c.slot].buffer /\ c.lo + c.n <= slots'[c.slot].offset
            /\ Covers(slots'[c.slot].copies, q, i)
        BY <1>1, <3>1 DEF CopyOK
      <3>5. rd'.at \notin {"transfer", "copy"}
        OBVIOUS
      <3>6. CopyOK(slots', active', rd', q, i, c)
        BY <3>2, <3>3, <3>4, <3>5 DEF CopyOK
      <3>. QED
        BY <3>6 DEF c
    <2>. QED
      BY <2>1 DEF CopiesOK
  <1>. QED
    BY <1>2, <1>3, <1>4, <1>5 DEF RingInv

\* hostbuf_file_transfer is called.
LEMMA StartTransferKeeps == RingInv /\ StartTransfer => RingInv'
  <1>. SUFFICES ASSUME RingInv, StartTransfer PROVE RingInv'
    OBVIOUS
  <1>1. PICK n \in 1..MaxSize, s \in Streams, q \in Queues, w \in BOOLEAN :
           rd' = [IdleReader EXCEPT !.at = "loop", !.left = n, !.write = w,
                                    !.stream = s, !.queue = q]
    BY DEF StartTransfer
  <1>2. n \in 0..MaxSize
    BY ReaderAssumption
  <1>3. rd' \in ReadRecord /\ rd'.at = "loop"
    BY <1>1, <1>2, IdleReaderType DEF ReadRecord
  <1>4. rd.at # "transfer" /\ UNCHANGED <<poolVars, slots, active, inflight>>
    BY DEF StartTransfer
  <1>. QED
    BY <1>3, <1>4, ReaderLeaves

\* The active window is full, retired or another stream's.
LEMMA ChangeWindowKeeps == RingInv /\ ChangeWindow => RingInv'
  <1>. SUFFICES ASSUME RingInv, ChangeWindow PROVE RingInv'
    OBVIOUS
  <1>1. rd.at # "transfer" /\ UNCHANGED <<poolVars, active, inflight>> /\ rd \in ReadRecord
    BY DEF ChangeWindow, RingInv, ReaderShape
  <1>2. CASE RetireActive /\ rd' = [rd EXCEPT !.at = "next"]
    <2>1. rd' \in ReadRecord /\ rd'.at = "next"
      BY <1>1, <1>2, ReaderMoves
    <2>. QED
      BY <1>1, <1>2, <2>1, RetiredKeeps
  <1>3. CASE RetireFails /\ ReaderReturns
    BY <1>1, <1>3, IdleReaderType, ReaderLeaves DEF RetireFails, ReaderReturns
  <1>. QED
    BY <1>2, <1>3 DEF ChangeWindow

\* hostbuf_file_reader_cleanup_checked is called.
LEMMA StartCleanupKeeps == RingInv /\ StartCleanup => RingInv'
  <1>. SUFFICES ASSUME RingInv, StartCleanup PROVE RingInv'
    OBVIOUS
  <1>1. /\ rd.at = "idle" /\ UNCHANGED <<poolVars, active, inflight>>
        /\ rd \in ReadRecord
    BY DEF StartCleanup, RingInv, ReaderShape
  <1>2. CASE RetireActive /\ rd' = [IdleReader EXCEPT !.at = "cleanup", !.slot = 1]
    <2>1. 1 \in 0..ReaderSlots
      BY ReaderAssumption
    <2>2. rd' \in ReadRecord /\ rd'.at = "cleanup" /\ rd'.slot = 1
      BY <1>2, <2>1, IdleReaderType DEF ReadRecord
    <2>. QED
      BY <1>1, <1>2, <2>2, RetiredKeeps
  <1>3. CASE RetireFails /\ UNCHANGED rd
    BY <1>1, <1>3, ReaderLeaves DEF RetireFails
  <1>. QED
    BY <1>2, <1>3 DEF StartCleanup

\* Nothing is left to transfer.
LEMMA TransferDoneKeeps == RingInv /\ TransferDone => RingInv'
  BY IdleReaderType, ReaderLeaves DEF TransferDone, ReaderReturns

\* A synchronous copy is done when the call returns.
LEMMA CopySyncKeeps == RingInv /\ CopySync => RingInv'
  <1>. SUFFICES ASSUME RingInv, CopySync PROVE RingInv'
    OBVIOUS
  <1>1. /\ rd.at = "copy" /\ UNCHANGED <<poolVars, slots, active, inflight>>
        /\ rd' \in {Advanced, IdleReader} /\ rd \in ReadRecord /\ rd.n <= rd.left
    BY DEF CopySync, ReaderReturns, RingInv, ReaderShape, ReaderOK
  <1>2. rd' \in ReadRecord /\ rd'.at \in {"idle", "loop"}
    BY <1>1, AdvancedType, IdleReaderType
  <1>. QED
    BY <1>1, <1>2, ReaderLeaves

\* No copy the device has still to do comes out of window s.
FreeWindow(s) == \A q \in Queues : \A i \in 1..Len(inflight[q]) : inflight[q][i].slot # s

\* Why a window is free.
LEMMA WhyFree ==
    ASSUME RingInv, NEW s \in Slots,
           \/ ~slots[s].buffer
           \/ Drained(slots[s].copies)
           \/ slots[s].event # None /\ Drained(slots[s].event)
           \/ slots[s].event = None /\ rd.at = "next"
           \/ slots[s].event = None /\ rd.at = "cleanup" /\ rd.slot = s
    PROVE  FreeWindow(s)
  <1>1. ReaderShape /\ slots[s] \in SlotRecord
    BY DEF RingInv, ReaderShape
  <1>2. /\ slots[s].copies \in [Queues -> Completion]
        /\ slots[s].event # None => slots[s].event \in [Queues -> Completion]
    BY <1>1 DEF SlotRecord
  <1>3. ASSUME NEW q \in Queues, NEW i \in 1..Len(inflight[q]), inflight[q][i].slot = s
        PROVE  FALSE
    <2>1. CopyOK(slots, active, rd, q, i, inflight[q][i])
      BY CopyHas
    <2>2. /\ slots[s].buffer /\ Covers(slots[s].copies, q, i)
          /\ slots[s].event # None => Covers(slots[s].event, q, i)
          /\ rd.at = "next" => slots[s].event # None
          /\ rd.at = "cleanup" /\ s >= rd.slot => slots[s].event # None
      BY <1>3, <2>1 DEF CopyOK
    <2>3. s >= s
      BY DEF Slots
    <2>. QED
      BY <1>1, <1>2, <2>2, <2>3, FinishedCoversNone
  <1>. QED
    BY <1>3 DEF FreeWindow

\* A free window may become anything.
LEMMA FreeWindowChanges ==
    ASSUME RingInv, NEW s \in Slots, FreeWindow(s), NEW x \in SlotRecord,
           slots' = [slots EXCEPT ![s] = x],
           rd' \in ReadRecord, active' \in 0..ReaderSlots,
           active' # 0 => slots'[active'].buffer,
           UNCHANGED <<poolVars, inflight>>, rd.at # "transfer",
           \/ rd.at = "next" /\ rd'.at = "loop"
           \/ /\ rd.at = "cleanup" /\ rd.slot = s
              /\ rd'.at = "idle" \/ (rd'.at = "cleanup" /\ rd'.slot = s + 1)
              /\ active' = active \/ active = s
    PROVE  RingInv'
  <1>1. PoolInv'
    BY PoolStutters DEF RingInv
  <1>2. /\ slots \in [Slots -> SlotRecord] /\ inflight \in [Queues -> Seq(CopyRecord)]
        /\ rd.at # "transfer" => call[Reader].at = "idle"
    BY DEF RingInv, ReaderShape, ReaderOK
  <1>3. /\ slots' \in [Slots -> SlotRecord]
        /\ \A t \in Slots : t # s => slots'[t] = slots[t]
    BY <1>2
  <1>4. ReaderShape'
    BY <1>2, <1>3 DEF ReaderShape
  <1>5. ReaderOK'
    <2>1. UNCHANGED call /\ s + 1 # 0
      BY DEF poolVars, Slots
    <2>. QED
      BY <1>2, <2>1 DEF ReaderOK
  <1>6. ASSUME NEW q \in Queues, NEW i \in 1..Len(inflight[q])
        PROVE  CopyOK(slots', active', rd', q, i, inflight[q][i])
    <2> DEFINE c == inflight[q][i]
    <2>1. c.slot \in Slots /\ c.slot # s /\ CopyOK(slots, active, rd, q, i, c)
      BY CopyHas DEF FreeWindow
    <2>. SUFFICES CopyOK(slots', active', rd', q, i, c)
      OBVIOUS
    <2>. HIDE DEF c
    <2>2. slots'[c.slot] = slots[c.slot]
      BY <1>3, <2>1
    <2>3. c.slot \in Int /\ s \in Int
      BY <2>1 DEF Slots
    <2>4. CASE rd.at = "next" /\ rd'.at = "loop"
      BY <2>1, <2>2, <2>4 DEF CopyOK
    <2>5. CASE /\ rd.at = "cleanup" /\ rd.slot = s
               /\ rd'.at = "idle" \/ (rd'.at = "cleanup" /\ rd'.slot = s + 1)
               /\ active' = active \/ active = s
      <3>1. rd'.at = "cleanup" /\ c.slot >= rd'.slot => slots[c.slot].event # None
        BY <2>1, <2>3, <2>5 DEF CopyOK
      <3>2. c.slot # active' => slots[c.slot].event # None
        BY <2>1, <2>5 DEF CopyOK
      <3>3. rd'.at \notin {"transfer", "copy", "next"}
        BY <2>5
      <3>. QED
        BY <2>1, <2>2, <3>1, <3>2, <3>3 DEF CopyOK
    <2>. QED
      BY <2>4, <2>5
  <1>7. CopiesOK'
    BY <1>6 DEF CopiesOK
  <1>. QED
    BY <1>1, <1>4, <1>5, <1>7 DEF RingInv

\* The next window is taken once its event is done: no copy reads it any more.
LEMMA NextWindowKeeps == RingInv /\ NextWindow => RingInv'
  <1>. SUFFICES ASSUME RingInv, NextWindow PROVE RingInv'
    OBVIOUS
  <1> DEFINE s == (active % ReaderSlots) + 1
             waits == slots[s].buffer /\ slots[s].event # None
  <1>1. /\ rd.at = "next" /\ UNCHANGED <<poolVars, inflight>>
        /\ rd \in ReadRecord /\ active \in 0..ReaderSlots
        /\ slots \in [Slots -> SlotRecord] /\ ReaderSlots \in Nat \ {0}
    BY ReaderAssumption DEF NextWindow, RingInv, ReaderShape
  <1>2. s \in Slots
    BY <1>1 DEF Slots
  <1>3. CASE /\ waits => Drained(slots[s].event)
             /\ slots' = [slots EXCEPT ![s].buffer = TRUE, ![s].offset = 0,
                                       ![s].stream = rd.stream, ![s].event = None]
             /\ active' = s
             /\ rd' = [rd EXCEPT !.at = "loop"]
    <2>1. FreeWindow(s)
      BY <1>1, <1>2, <1>3, WhyFree
    <2> DEFINE x == [slots[s] EXCEPT !.buffer = TRUE, !.offset = 0,
                                     !.stream = rd.stream, !.event = None]
    <2>2. slots' = [slots EXCEPT ![s] = x] /\ active' = s
      BY <1>3
    <2>3. slots[s] \in SlotRecord /\ rd.stream \in Streams \union {None}
      BY <1>1, <1>2 DEF ReadRecord
    <2>4. x \in SlotRecord /\ x.buffer
      BY <2>3, TakesWindow
    <2>5. rd' \in ReadRecord /\ rd'.at = "loop"
      BY <1>1, <1>3, ReaderMoves
    <2>. HIDE DEF x, s
    <2>6. slots'[s] = x /\ active' \in 0..ReaderSlots
      BY <1>1, <1>2, <2>2 DEF Slots
    <2>. QED
      BY <1>1, <1>2, <2>1, <2>2, <2>4, <2>5, <2>6, FreeWindowChanges
  <1>4. CASE ReaderReturns /\ UNCHANGED <<slots, active>>
    BY <1>1, <1>4, IdleReaderType, ReaderLeaves DEF ReaderReturns
  <1>. QED
    BY <1>3, <1>4 DEF NextWindow

\* A window is freed when nothing reads it, or stays allocated.
LEMMA CleanupSlotKeeps == RingInv /\ CleanupSlot => RingInv'
  <1>. SUFFICES ASSUME RingInv, CleanupSlot PROVE RingInv'
    OBVIOUS
  <1> DEFINE s == rd.slot
             slot == slots[s]
             waits == slot.buffer /\ slot.event # None
  <1>1. /\ rd.at = "cleanup" /\ UNCHANGED <<poolVars, inflight>>
        /\ rd \in ReadRecord /\ active \in 0..ReaderSlots /\ s # 0
        /\ slots \in [Slots -> SlotRecord] /\ ReaderSlots \in Nat
        /\ active # 0 => slots[active].buffer
        /\ rd' = IF s = ReaderSlots THEN IdleReader ELSE [rd EXCEPT !.slot = s + 1]
    BY ReaderAssumption DEF CleanupSlot, RingInv, ReaderShape, ReaderOK
  <1>2. s \in Slots /\ (active # 0 => active \in Slots)
    BY <1>1 DEF Slots, ReadRecord
  <1>3. /\ rd' \in ReadRecord
        /\ rd'.at = "idle" \/ (rd'.at = "cleanup" /\ rd'.slot = s + 1)
    <2>1. CASE s = ReaderSlots
      BY <1>1, <2>1, IdleReaderType
    <2>2. CASE s # ReaderSlots
      <3>1. s + 1 \in 0..ReaderSlots
        BY <1>1, <1>2, <2>2 DEF Slots
      <3>2. rd' = [rd EXCEPT !.slot = s + 1]
        BY <1>1, <2>2
      <3>. QED
        BY <1>1, <3>1, <3>2 DEF ReadRecord
    <2>. QED
      BY <2>1, <2>2
  <1>4. CASE /\ waits => Drained(slot.event)
             /\ slot.buffer => Drained(slot.copies)
             /\ slots' = [slots EXCEPT ![s] = EmptySlot]
             /\ active' = IF active = s THEN 0 ELSE active
    <2>1. FreeWindow(s)
      BY <1>2, <1>4, WhyFree
    <2>2. active' \in 0..ReaderSlots /\ (active' = active \/ active = s)
      BY <1>1, <1>4
    <2>3. active' # 0 => slots'[active'].buffer
      BY <1>1, <1>2, <1>4
    <2>. HIDE DEF s
    <2>. QED
      BY <1>1, <1>2, <1>3, <1>4, <2>1, <2>2, <2>3, EmptySlotType, FreeWindowChanges DEF s
  <1>5. CASE /\ slot.buffer
             /\ waits => Drained(slot.event)
             /\ slots' = [slots EXCEPT ![s].event = None, ![s].releasing = TRUE]
             /\ UNCHANGED active
    <2>1. FreeWindow(s)
      BY <1>1, <1>2, <1>5, WhyFree
    <2> DEFINE x == [slots[s] EXCEPT !.event = None, !.releasing = TRUE]
    <2>2. slots' = [slots EXCEPT ![s] = x]
      BY <1>5
    <2>3. x \in SlotRecord /\ x.buffer = slots[s].buffer
      BY <1>1, <1>2, RefusesCopies
    <2>. HIDE DEF x
    <2>4. active' # 0 => slots'[active'].buffer
      BY <1>1, <1>2, <1>5, <2>2, <2>3
    <2>. QED
      BY <1>1, <1>2, <1>3, <1>5, <2>1, <2>2, <2>3, <2>4, FreeWindowChanges
  <1>6. CASE waits /\ UNCHANGED <<slots, active>>
    <2>1. PoolInv' /\ ReaderShape'
      BY <1>1, <1>3, <1>6, PoolStutters DEF RingInv, ReaderShape
    <2>2. ReaderOK'
      <3>1. UNCHANGED call /\ s + 1 # 0
        BY <1>1, <1>2 DEF poolVars, Slots
      <3>. QED
        BY <1>1, <1>3, <1>6, <3>1 DEF RingInv, ReaderOK
    <2>3. ASSUME NEW q \in Queues, NEW i \in 1..Len(inflight[q])
          PROVE  CopyOK(slots, active, rd', q, i, inflight[q][i])
      <3> DEFINE c == inflight[q][i]
      <3>1. c.slot \in Int /\ s \in Int /\ CopyOK(slots, active, rd, q, i, c)
        BY <1>2, CopyHas DEF Slots
      <3>. HIDE DEF c
      <3>2. rd'.at = "cleanup" /\ c.slot >= rd'.slot => c.slot >= rd.slot
        BY <1>3, <3>1
      <3>3. rd'.at \notin {"transfer", "copy", "next"}
        BY <1>3
      <3>4. CopyOK(slots, active, rd', q, i, c)
        BY <1>1, <3>1, <3>2, <3>3 DEF CopyOK
      <3>. QED
        BY <3>4 DEF c
    <2>4. CopiesOK'
      BY <1>1, <1>6, <2>3 DEF CopiesOK
    <2>. QED
      BY <2>1, <2>2, <2>4 DEF RingInv
  <1>. QED
    BY <1>4, <1>5, <1>6 DEF CleanupSlot

\* The next part is put in the active window.
LEMMA UseWindowKeeps == RingInv /\ UseWindow => RingInv'
  <1>. SUFFICES ASSUME RingInv, UseWindow PROVE RingInv'
    OBVIOUS
  <1> DEFINE lo == slots[active].offset
             n == IF rd.left < Window - lo THEN rd.left ELSE Window - lo
             x == [slots[active] EXCEPT !.offset = lo + n]
  <1>1. /\ PoolInv /\ rd.at = "loop" /\ rd.left # 0 /\ ~NeedsWindow
        /\ UNCHANGED <<calls, active, inflight>>
        /\ rd \in ReadRecord /\ active \in 0..ReaderSlots
        /\ slots \in [Slots -> SlotRecord] /\ inflight \in [Queues -> Seq(CopyRecord)]
        /\ Window \in Nat /\ Window <= MaxChunks /\ MaxChunks \in Nat /\ LeadIn <= Window
        /\ ReaderSlots \in Nat /\ LeadIn \in Nat /\ MaxSize \in Nat
    BY ReaderAssumption, TransferAssumption DEF UseWindow, RingInv, ReaderShape
  <1>2. /\ active # 0 /\ active \in Slots /\ slots[active] \in SlotRecord
        /\ slots[active].event = None
        /\ lo + rd.left < Window \/ lo < LeadIn
        /\ lo \in Nat /\ lo <= Window /\ rd.left \in Nat /\ rd.left <= MaxSize
    <2>1. active # 0 /\ slots[active].event = None
      BY <1>1 DEF NeedsWindow
    <2>2. active \in Slots /\ slots[active] \in SlotRecord
      BY <1>1, <2>1 DEF Slots
    <2>3. lo \in Nat /\ lo <= Window
      BY <1>1, <2>2 DEF SlotRecord
    <2>4. rd.left \in Nat /\ rd.left <= MaxSize
      BY <1>1 DEF ReadRecord
    <2>5. ~(lo + rd.left >= Window /\ lo >= LeadIn)
      BY <1>1, <2>1 DEF NeedsWindow
    <2>. HIDE DEF lo
    <2>6. lo + rd.left < Window \/ lo < LeadIn
      BY <1>1, <2>3, <2>4, <2>5
    <2>. QED
      BY <2>1, <2>2, <2>3, <2>4, <2>6
  <1>3. /\ n \in 1..Window /\ n <= rd.left /\ lo + n \in 0..Window /\ n \in 0..MaxChunks
    <2>. HIDE DEF lo
    <2>. QED
      BY <1>1, <1>2
  <1>4. slots' = [slots EXCEPT ![active] = x]
    BY DEF UseWindow
  <1>5. \/ /\ BeginTransfer(Reader, n)
           /\ rd' = [rd EXCEPT !.at = "transfer", !.lo = lo, !.n = n]
        \/ ReaderReturns /\ UNCHANGED <<pool, stop, tasks, worker, call>>
    BY DEF UseWindow
  <1>. HIDE DEF n
  <1>6. /\ x \in SlotRecord /\ x.buffer = slots[active].buffer /\ x.offset = lo + n
        /\ x.event = None /\ x.copies = slots[active].copies
    <2>1. x = [slots[active] EXCEPT !.offset = lo + n]
      OBVIOUS
    <2>. HIDE DEF x, lo
    <2>. QED
      BY <1>2, <1>3, <2>1, FillsWindow
  <1>. HIDE DEF x
  <1>7. /\ slots' \in [Slots -> SlotRecord] /\ slots'[active] = x
        /\ \A s \in Slots : s # active => slots'[s] = slots[s]
    BY <1>1, <1>2, <1>4, <1>6
  <1>8. slots[active].buffer
    BY <1>2 DEF RingInv, ReaderOK
  <1>9. ASSUME NEW q \in Queues, NEW i \in 1..Len(inflight[q]),
               rd'.at \in {"idle", "transfer"}, rd'.at = "transfer" => rd'.lo = lo
        PROVE  CopyOK(slots', active', rd', q, i, inflight[q][i])
    <2> DEFINE c == inflight[q][i]
    <2>1. c \in CopyRecord /\ c.slot \in Slots /\ CopyOK(slots, active, rd, q, i, c)
      BY CopyHas
    <2>. SUFFICES CopyOK(slots', active', rd', q, i, c)
      OBVIOUS
    <2>. HIDE DEF c
    <2>2. CASE c.slot # active
      BY <1>1, <1>7, <1>9, <2>1, <2>2 DEF CopyOK
    <2>3. CASE c.slot = active
      <3>1. c.lo \in Nat /\ c.n \in Nat
        BY <2>1 DEF CopyRecord
      <3>2. /\ slots[active].buffer /\ Covers(slots[active].copies, q, i)
            /\ c.lo + c.n <= lo
        BY <2>1, <2>3 DEF CopyOK
      <3>. HIDE DEF lo
      <3>3. c.lo + c.n <= lo + n
        BY <1>2, <1>3, <3>1, <3>2
      <3>. QED
        BY <1>1, <1>6, <1>7, <1>9, <2>3, <3>2, <3>3 DEF CopyOK
    <2>. QED
      BY <2>2, <2>3
  <1>10. ASSUME rd'.at \in {"idle", "transfer"}, rd'.at = "transfer" => rd'.lo = lo
         PROVE  CopiesOK'
    BY <1>1, <1>9, <1>10 DEF CopiesOK
  <1>11. CASE /\ BeginTransfer(Reader, n)
              /\ rd' = [rd EXCEPT !.at = "transfer", !.lo = lo, !.n = n]
    <2>1. PoolInv'
      <3>1. Reader \in Callers /\ calls' \in 0..MaxCalls
        BY <1>1, ReaderAssumption DEF PoolInv, PoolShape
      <3>. QED
        BY <1>1, <1>3, <1>11, <3>1, BeginKeeps
    <2>2. /\ rd' \in ReadRecord /\ rd'.at = "transfer" /\ rd'.lo = lo /\ rd'.n = n
          /\ rd'.left = rd.left
      <3>1. lo \in 0..Window /\ n \in 0..Window
        BY <1>1, <1>2, <1>3
      <3>. HIDE DEF lo
      <3>. QED
        BY <1>1, <1>11, <3>1 DEF ReadRecord
    <2>3. ReaderShape'
      BY <1>1, <1>7, <2>2 DEF ReaderShape
    <2>4. ReaderOK'
      <3>1. n # 0 /\ n <= rd.left
        BY <1>3
      <3>. HIDE DEF lo
      <3>2. slots'[active'].buffer /\ slots'[active'].event = None
            /\ slots'[active'].offset = rd'.lo + rd'.n
        BY <1>1, <1>6, <1>7, <1>8, <2>2
      <3>. QED
        BY <1>1, <1>2, <2>2, <3>1, <3>2 DEF ReaderOK
    <2>. QED
      BY <1>10, <2>1, <2>2, <2>3, <2>4 DEF RingInv
  <1>12. CASE ReaderReturns /\ UNCHANGED <<pool, stop, tasks, worker, call>>
    <2>1. PoolInv'
      BY <1>1, <1>12, PoolStutters DEF poolVars
    <2>2. rd' \in ReadRecord /\ rd'.at = "idle"
      BY <1>12, IdleReaderType DEF ReaderReturns
    <2>3. ReaderShape'
      BY <1>1, <1>7, <2>2 DEF ReaderShape
    <2>4. ReaderOK'
      BY <1>1, <1>6, <1>7, <1>8, <1>12, <2>2 DEF RingInv, ReaderOK
    <2>. QED
      BY <1>10, <2>1, <2>2, <2>3, <2>4 DEF RingInv
  <1>. QED
    BY <1>5, <1>11, <1>12

\* What the pool has done for the reader is known; its frame is gone.
LEMMA FileDonePool == PoolInv /\ FileDone => PoolInv' /\ call'[Reader].at = "idle"
  <1>. SUFFICES ASSUME PoolInv, FileDone PROVE PoolInv' /\ call'[Reader].at = "idle"
    OBVIOUS
  <1>1. /\ call \in [Callers -> CallRecord] /\ Reader \in Callers
        /\ call[Reader].at = "idle" /\ call' = [call EXCEPT ![Reader] = NoCall]
        /\ UNCHANGED <<pool, stop, tasks, worker, calls>>
        /\ TasksAreDistinct /\ CallsOK /\ CallsAreInside
    BY ReaderAssumption DEF PoolInv, PoolShape, FileDone
  <1>2. /\ NoCall \in CallRecord /\ NoCall.queued = 0 /\ NoCall.pending = NoCall.total
        /\ NoCall.moved = {} /\ ~NoCall.failed /\ NoCall.at = "idle" /\ NoCall.total = 0
    BY TransferAssumption DEF NoCall, CallRecord
  <1>3. /\ call' \in [Callers -> CallRecord] /\ call'[Reader] = NoCall
        /\ \A d \in Callers : d # Reader => call'[d] = call[d]
    BY <1>1, <1>2
  <1>4. /\ TasksAreDistinct'
        /\ \A d \in Callers : InRing(d)' = InRing(d) /\ InHands(d)' = InHands(d)
    BY <1>1, TasksStay
  <1>5. CallsOK'
    <2>1. InRing(Reader) = {} /\ InHands(Reader) = {}
      BY <1>1 DEF CallsOK, CallOK
    <2>2. CallOK(NoCall, {}, {})
      BY <1>2, BeginsEmpty
    <2>. QED
      BY <1>1, <1>3, <1>4, <2>1, <2>2 DEF CallsOK
  <1>6. CallsAreInside'
    BY <1>1, <1>2, <1>3 DEF CallsAreInside
  <1>7. PoolShape'
    BY <1>1, <1>3 DEF PoolInv, PoolShape
  <1>. QED
    BY <1>2, <1>3, <1>4, <1>5, <1>6, <1>7 DEF PoolInv

\* The part was read or written, or could not be.
LEMMA FileDoneKeeps == RingInv /\ FileDone => RingInv'
  <1>. SUFFICES ASSUME RingInv, FileDone PROVE RingInv'
    OBVIOUS
  <1>1. /\ rd.at = "transfer" /\ UNCHANGED <<slots, active, inflight>>
        /\ rd \in ReadRecord /\ ReaderShape /\ ReaderOK /\ rd.n <= rd.left
        /\ rd' \in {IdleReader, Advanced, [rd EXCEPT !.at = "copy"]}
    BY DEF RingInv, ReaderShape, ReaderOK, FileDone
  <1>2. PoolInv' /\ call'[Reader].at = "idle"
    BY FileDonePool DEF RingInv
  <1>3. /\ rd' \in ReadRecord /\ rd'.at \in {"idle", "loop", "copy"}
        /\ rd'.at = "copy" => rd'.lo = rd.lo /\ rd'.n = rd.n /\ rd'.left = rd.left
    <2>1. CASE rd' = IdleReader
      BY <2>1, IdleReaderType
    <2>2. CASE rd' = Advanced
      BY <1>1, <2>2, AdvancedType
    <2>3. CASE rd' = [rd EXCEPT !.at = "copy"]
      BY <1>1, <2>3, ReaderMoves
    <2>. QED
      BY <1>1, <2>1, <2>2, <2>3
  <1>4. ReaderShape'
    BY <1>1, <1>3 DEF ReaderShape
  <1>5. ReaderOK'
    BY <1>1, <1>2, <1>3 DEF ReaderOK
  <1>6. CopiesOK'
    BY <1>1, <1>3 DEF RingInv, CopiesOK, CopyOK
  <1>. QED
    BY <1>2, <1>4, <1>5, <1>6 DEF RingInv

\* A copy out of the active window was submitted, or may have been.
LEMMA CopySubmitted ==
    ASSUME RingInv, rd.at = "copy", NEW q \in Queues, NEW w \in [Queues -> Completion],
           \A p \in Queues : p # q => w[p] = slots[active].copies[p],
           \A i \in 1..(Len(inflight[q]) + 1) : Covers(w, q, i),
           slots' = [slots EXCEPT ![active] = [@ EXCEPT !.copies = w]],
           \/ inflight' = inflight
           \/ inflight' = [inflight EXCEPT ![q] =
                              Append(@, [slot |-> active, lo |-> rd.lo, n |-> rd.n])],
           rd' \in ReadRecord, rd'.at \in {"idle", "loop"}, UNCHANGED <<poolVars, active>>
    PROVE  RingInv'
  <1> DEFINE new == [slot |-> active, lo |-> rd.lo, n |-> rd.n]
             x == [slots[active] EXCEPT !.copies = w]
  <1>1. /\ slots \in [Slots -> SlotRecord] /\ inflight \in [Queues -> Seq(CopyRecord)]
        /\ rd \in ReadRecord /\ active \in 0..ReaderSlots /\ ReaderSlots \in Nat
        /\ active # 0 /\ slots[active].event = None /\ slots[active].buffer
        /\ rd.n # 0 /\ rd.lo + rd.n = slots[active].offset
        /\ call[Reader].at = "idle"
    BY ReaderAssumption DEF RingInv, ReaderShape, ReaderOK
  <1>2. active \in Slots /\ slots[active] \in SlotRecord
    BY <1>1 DEF Slots
  <1>3. /\ x \in SlotRecord /\ x.buffer = slots[active].buffer
        /\ x.offset = slots[active].offset /\ x.event = None /\ x.copies = w
    <2>1. x = [slots[active] EXCEPT !.copies = w]
      OBVIOUS
    <2>. HIDE DEF x
    <2>2. /\ x \in SlotRecord /\ x.buffer = slots[active].buffer
          /\ x.offset = slots[active].offset /\ x.event = slots[active].event
          /\ x.copies = w
      BY <1>2, <2>1, OwesCopy
    <2>. QED
      BY <1>1, <2>2
  <1>4. slots' = [slots EXCEPT ![active] = x]
    OBVIOUS
  <1>. HIDE DEF x
  <1>5. /\ slots' \in [Slots -> SlotRecord] /\ slots'[active] = x
        /\ \A s \in Slots : s # active => slots'[s] = slots[s]
    BY <1>1, <1>2, <1>3, <1>4
  <1>6. new \in CopyRecord /\ new.slot = active /\ new.lo = rd.lo /\ new.n = rd.n
    <2>1. rd.lo \in 0..Window /\ rd.n \in 0..Window
      BY <1>1 DEF ReadRecord
    <2>2. Window \in Nat
      BY ReaderAssumption, TransferAssumption
    <2>3. rd.n \in 1..Window
      BY <1>1, <2>1, <2>2
    <2>. QED
      BY <1>2, <2>1, <2>3 DEF CopyRecord
  <1>. HIDE DEF new
  <1>7. inflight' = inflight \/ inflight' = [inflight EXCEPT ![q] = Append(@, new)]
    BY DEF new
  <1>8. /\ inflight' \in [Queues -> Seq(CopyRecord)]
        /\ \A p \in Queues : p # q => inflight'[p] = inflight[p]
        /\ inflight'[q] = inflight[q] \/ inflight'[q] = Append(inflight[q], new)
    <2>1. Append(inflight[q], new) \in Seq(CopyRecord)
      BY <1>1, <1>6
    <2>. QED
      BY <1>1, <1>7, <2>1
  <1>9. PoolInv'
    BY PoolStutters DEF RingInv
  <1>10. ReaderShape'
    BY <1>1, <1>5, <1>8 DEF ReaderShape
  <1>11. ReaderOK'
    BY <1>1, <1>3, <1>5 DEF ReaderOK, poolVars
  <1>12. ASSUME NEW p \in Queues, NEW i \in 1..Len(inflight[p])
         PROVE  CopyOK(slots', active', rd', p, i, inflight[p][i])
    <2> DEFINE c == inflight[p][i]
    <2>1. c.slot \in Slots /\ CopyOK(slots, active, rd, p, i, c)
      BY CopyHas
    <2>. SUFFICES CopyOK(slots', active', rd', p, i, c)
      OBVIOUS
    <2>2. Covers(slots[active].copies, p, i) => Covers(w, p, i)
      <3>1. CASE p = q
        <4>1. i \in 1..(Len(inflight[q]) + 1)
          BY <1>1, <3>1
        <4>. QED
          BY <3>1, <4>1
      <3>2. CASE p # q
        BY <3>2 DEF Covers
      <3>. QED
        BY <3>1, <3>2
    <2>. HIDE DEF c
    <2>3. CASE c.slot # active
      BY <1>5, <2>1, <2>3 DEF CopyOK
    <2>4. CASE c.slot = active
      BY <1>1, <1>3, <1>5, <2>1, <2>2, <2>4 DEF CopyOK
    <2>. QED
      BY <2>3, <2>4
  <1>13. CopyOK(slots', active', rd', q, Len(inflight[q]) + 1, new)
    <2>1. Len(inflight[q]) + 1 \in 1..(Len(inflight[q]) + 1)
      BY <1>1
    <2>2. Covers(w, q, Len(inflight[q]) + 1)
      BY <2>1
    <2>3. /\ new.lo + new.n = slots[active].offset /\ slots[active].offset \in Nat
      BY <1>1, <1>2, <1>6 DEF SlotRecord
    <2>. QED
      BY <1>1, <1>3, <1>5, <1>6, <2>2, <2>3 DEF CopyOK
  <1>14. CopiesOK'
    <2>1. ASSUME NEW p \in Queues, NEW i \in 1..Len(inflight'[p])
          PROVE  CopyOK(slots', active', rd', p, i, inflight'[p][i])
      <3>1. CASE inflight'[p] = inflight[p]
        BY <1>12, <2>1, <3>1
      <3>2. CASE p = q /\ inflight'[q] = Append(inflight[q], new)
        <4>1. /\ inflight[q] \in Seq(CopyRecord) /\ Len(inflight[q]) \in Nat
              /\ Len(inflight'[q]) = Len(inflight[q]) + 1
              /\ inflight'[q][Len(inflight[q]) + 1] = new
              /\ \A j \in 1..Len(inflight[q]) : inflight'[q][j] = inflight[q][j]
          BY <1>1, <1>6, <3>2
        <4>2. i \in 1..Len(inflight[q]) \/ i = Len(inflight[q]) + 1
          BY <2>1, <3>2, <4>1
        <4>3. CASE i \in 1..Len(inflight[q])
          BY <1>12, <3>2, <4>1, <4>3
        <4>4. CASE i = Len(inflight[q]) + 1
          BY <1>13, <3>2, <4>1, <4>4
        <4>. QED
          BY <4>2, <4>3, <4>4
      <3>. QED
        BY <1>8, <3>1, <3>2
    <2>. QED
      BY <2>1 DEF CopiesOK
  <1>. QED
    BY <1>9, <1>10, <1>11, <1>14 DEF RingInv

\* A copy is submitted, or throws in submission, or is refused.
LEMMA CopyAsyncKeeps == RingInv /\ CopyAsync => RingInv'
  <1>. SUFFICES ASSUME RingInv, CopyAsync PROVE RingInv'
    OBVIOUS
  <1> DEFINE q == rd.queue
             new == [slot |-> active, lo |-> rd.lo, n |-> rd.n]
             submitted == [inflight EXCEPT ![q] = Append(@, new)]
             v == slots[active].copies
  <1>1. /\ rd.at = "copy" /\ q \in Queues /\ UNCHANGED <<poolVars, active>>
        /\ slots \in [Slots -> SlotRecord] /\ inflight \in [Queues -> Seq(CopyRecord)]
        /\ rd \in ReadRecord /\ rd.n <= rd.left /\ active \in Slots
    <2>1. active \in 1..ReaderSlots
      BY ReaderAssumption DEF CopyAsync, RingInv, ReaderShape, ReaderOK
    <2>. QED
      BY <2>1, ReaderAssumption DEF CopyAsync, RingInv, ReaderShape, ReaderOK, Slots
  <1>2. v \in [Queues -> Completion]
    BY <1>1 DEF SlotRecord
  <1>3. /\ Advanced \in ReadRecord /\ Advanced.at = "loop"
        /\ IdleReader \in ReadRecord /\ IdleReader.at = "idle"
    BY <1>1, AdvancedType, IdleReaderType
  <1>4. CASE /\ slots' = [slots EXCEPT ![active].copies[q] =
                             [wholeQueue |-> FALSE, ahead |-> Len(submitted[q])]]
             /\ inflight' = submitted
             /\ rd' = Advanced
    <2> DEFINE k == Len(submitted[q])
               e == [wholeQueue |-> FALSE, ahead |-> k]
               w == [v EXCEPT ![q] = e]
    <2>1. k = Len(inflight[q]) + 1 /\ k \in Nat
      BY <1>1
    <2>2. slots' = [slots EXCEPT ![active] = [@ EXCEPT !.copies = w]]
      BY <1>4
    <2>. HIDE DEF k
    <2>3. e \in Completion /\ e.ahead = k
      BY <2>1 DEF Completion
    <2>. HIDE DEF e
    <2>4. /\ w \in [Queues -> Completion] /\ w[q] = e
          /\ \A p \in Queues : p # q => w[p] = v[p]
      BY <1>1, <1>2, <2>3
    <2>. HIDE DEF w
    <2>5. \A i \in 1..(Len(inflight[q]) + 1) : Covers(w, q, i)
      BY <1>1, <2>1, <2>3, <2>4 DEF Covers
    <2>6. rd' \in ReadRecord /\ rd'.at \in {"idle", "loop"}
      BY <1>3, <1>4
    <2>7. inflight' = submitted
      BY <1>4
    <2>. QED
      BY <1>1, <2>2, <2>4, <2>5, <2>6, <2>7, CopySubmitted
  <1>5. CASE /\ slots' = [slots EXCEPT ![active].copies[q].wholeQueue = TRUE]
             /\ inflight' \in {inflight, submitted}
             /\ rd' = IdleReader
    <2> DEFINE e == [v[q] EXCEPT !.wholeQueue = TRUE]
               w == [v EXCEPT ![q] = e]
    <2>1. slots' = [slots EXCEPT ![active] = [@ EXCEPT !.copies = w]]
      BY <1>5
    <2>2. e \in Completion /\ e.wholeQueue
      <3>1. v[q] \in Completion
        BY <1>1, <1>2
      <3>. QED
        BY <3>1 DEF Completion
    <2>. HIDE DEF e
    <2>3. /\ w \in [Queues -> Completion] /\ w[q] = e
          /\ \A p \in Queues : p # q => w[p] = v[p]
      BY <1>1, <1>2, <2>2
    <2>. HIDE DEF w
    <2>4. \A i \in 1..(Len(inflight[q]) + 1) : Covers(w, q, i)
      BY <2>2, <2>3 DEF Covers
    <2>5. inflight' = inflight \/ inflight' = submitted
      BY <1>5
    <2>6. rd' \in ReadRecord /\ rd'.at \in {"idle", "loop"}
      BY <1>3, <1>5
    <2>7. CASE inflight' = inflight
      BY <1>1, <2>1, <2>3, <2>4, <2>6, <2>7, CopySubmitted
    <2>8. CASE inflight' = submitted
      BY <1>1, <2>1, <2>3, <2>4, <2>6, <2>8, CopySubmitted
    <2>. QED
      BY <2>5, <2>7, <2>8
  <1>6. CASE rd' = IdleReader /\ UNCHANGED <<slots, inflight>>
    BY <1>1, <1>3, <1>6, ReaderLeaves
  <1>. QED
    BY <1>4, <1>5, <1>6 DEF CopyAsync, ReaderReturns

\* The device does the oldest copy of queue q.
LEMMA CompleteKeeps ==
    ASSUME RingInv, NEW q \in Queues, Complete(q)
    PROVE  RingInv'
  <1>1. /\ slots \in [Slots -> SlotRecord] /\ inflight \in [Queues -> Seq(CopyRecord)]
        /\ inflight[q] # <<>> /\ UNCHANGED <<poolVars, active, rd>>
        /\ inflight' = [inflight EXCEPT ![q] = Tail(@)]
        /\ rd \in ReadRecord /\ active \in 0..ReaderSlots
    BY DEF Complete, RingInv, ReaderShape
  <1>2. /\ inflight' \in [Queues -> Seq(CopyRecord)]
        /\ \A p \in Queues : p # q => inflight'[p] = inflight[p]
        /\ Len(inflight'[q]) = Len(inflight[q]) - 1 /\ Len(inflight[q]) \in Nat
        /\ \A i \in 1..Len(inflight'[q]) : /\ i + 1 \in 1..Len(inflight[q])
                                           /\ inflight'[q][i] = inflight[q][i + 1]
    BY <1>1
  <1>3. ASSUME NEW s \in Slots
        PROVE  /\ slots'[s] \in SlotRecord /\ slots'[s].buffer = slots[s].buffer
               /\ slots'[s].offset = slots[s].offset
               /\ slots'[s].copies = OneLess(slots[s].copies, q)
               /\ slots[s].copies \in [Queues -> Completion]
               /\ slots[s].event = None => slots'[s].event = None
               /\ slots[s].event # None =>
                     /\ slots[s].event \in [Queues -> Completion]
                     /\ slots'[s].event = OneLess(slots[s].event, q)
                     /\ slots'[s].event # None
    <2> DEFINE w == OneLess(slots[s].copies, q)
               e == IF slots[s].event = None THEN None ELSE OneLess(slots[s].event, q)
               x == [slots[s] EXCEPT !.copies = w, !.event = e]
    <2>1. slots'[s] = x
      BY DEF Complete
    <2>2. /\ slots[s] \in SlotRecord
          /\ slots[s].copies \in [Queues -> Completion]
          /\ slots[s].event # None => slots[s].event \in [Queues -> Completion]
      BY <1>1 DEF SlotRecord
    <2>3. w \in [Queues -> Completion]
      BY <2>2, OneLessWaits
    <2>4. slots[s].event # None => e \in [Queues -> Completion]
      BY <2>2, OneLessWaits
    <2>5. e \in [Queues -> Completion] \union {None} /\ (slots[s].event # None => e # None)
      BY <2>4, NoneIsNoCompletion
    <2>6. x = [slots[s] EXCEPT !.copies = w, !.event = e]
      OBVIOUS
    <2>7. e = IF slots[s].event = None THEN None ELSE OneLess(slots[s].event, q)
      OBVIOUS
    <2>8. w = OneLess(slots[s].copies, q)
      OBVIOUS
    <2>. HIDE DEF x, e, w
    <2>9. /\ x \in SlotRecord /\ x.buffer = slots[s].buffer
          /\ x.offset = slots[s].offset /\ x.event = e /\ x.copies = w
      <3>1. PICK r \in SlotRecord : r = slots[s]
        BY <2>2
      <3>2. x = [r EXCEPT !.copies = w, !.event = e]
        BY <2>6, <3>1
      <3>3. /\ x \in SlotRecord /\ x.buffer = r.buffer
            /\ x.offset = r.offset /\ x.event = e /\ x.copies = w
        <4>1. e \in [Queues -> Completion] \union {None}
          BY <2>5
        <4>. QED
          BY <2>3, <3>2, <4>1 DEF SlotRecord
      <3>. QED
        BY <3>1, <3>3
    <2>. QED
      BY <2>1, <2>2, <2>5, <2>7, <2>8, <2>9
  <1>4. slots' \in [Slots -> SlotRecord]
    <2>1. slots' = [s \in Slots |-> slots'[s]]
      BY DEF Complete
    <2>. QED
      BY <1>3, <2>1
  <1>5. PoolInv'
    BY <1>1, PoolStutters DEF RingInv
  <1>6. ReaderShape'
    BY <1>1, <1>2, <1>4 DEF ReaderShape
  <1>7. ReaderOK'
    <2>1. UNCHANGED call
      BY <1>1 DEF poolVars
    <2>2. active # 0 => active \in Slots
      BY <1>1, ReaderAssumption DEF Slots
    <2>. QED
      BY <1>1, <1>3, <2>1, <2>2 DEF RingInv, ReaderOK
  \* What covered a copy covers it still, at its new place.
  <1>8. ASSUME NEW w \in [Queues -> Completion], NEW p \in Queues,
               NEW i \in 1..Len(inflight'[p]), NEW j \in Nat,
               j = IF p = q THEN i + 1 ELSE i, Covers(w, p, j)
        PROVE  Covers(OneLess(w, q), p, i)
    <2>1. w[p].ahead \in Nat /\ i \in Nat /\ i >= 1
      BY DEF Completion
    <2>2. CASE p # q
      BY <1>8, <2>2, OneLessWaits DEF Covers
    <2>3. CASE p = q
      <3>1. w[q].wholeQueue \/ i + 1 <= w[q].ahead
        BY <1>8, <2>3 DEF Covers
      <3>2. /\ OneLess(w, q)[q].wholeQueue = w[q].wholeQueue
            /\ w[q].ahead # 0 => OneLess(w, q)[q].ahead = w[q].ahead - 1
        BY OneLessWaits
      <3>3. w[q].wholeQueue \/ i <= OneLess(w, q)[q].ahead
        BY <2>1, <2>3, <3>1, <3>2
      <3>. QED
        BY <2>3, <3>2, <3>3 DEF Covers
    <2>. QED
      BY <2>2, <2>3
  <1>9. ASSUME NEW p \in Queues, NEW i \in 1..Len(inflight'[p])
        PROVE  CopyOK(slots', active', rd', p, i, inflight'[p][i])
    <2> DEFINE j == IF p = q THEN i + 1 ELSE i
               c == inflight[p][j]
    <2>1. j \in 1..Len(inflight[p]) /\ j \in Nat /\ inflight'[p][i] = inflight[p][j]
      <3>1. CASE p = q
        BY <1>2, <3>1
      <3>2. CASE p # q
        BY <1>2, <3>2
      <3>. QED
        BY <3>1, <3>2
    <2>2. j = IF p = q THEN i + 1 ELSE i
      OBVIOUS
    <2>. HIDE DEF j
    <2>3. c.slot \in Slots /\ CopyOK(slots, active, rd, p, j, c)
      BY <2>1, CopyHas
    <2>4. inflight'[p][i] = c
      BY <2>1
    <2>. HIDE DEF c
    <2>5. /\ Covers(slots'[c.slot].copies, p, i)
          /\ slots'[c.slot].event # None => Covers(slots'[c.slot].event, p, i)
          /\ slots[c.slot].event # None <=> slots'[c.slot].event # None
      <3>1. Covers(slots'[c.slot].copies, p, i)
        BY <1>3, <1>8, <2>1, <2>2, <2>3 DEF CopyOK
      <3>2. slots[c.slot].event # None => Covers(slots'[c.slot].event, p, i)
        BY <1>3, <1>8, <2>1, <2>2, <2>3 DEF CopyOK
      <3>. QED
        BY <1>3, <2>3, <3>1, <3>2
    <2>6. CopyOK(slots', active', rd', p, i, c)
      BY <1>1, <1>3, <2>3, <2>5 DEF CopyOK
    <2>. QED
      BY <2>4, <2>6
  <1>10. CopiesOK'
    BY <1>9 DEF CopiesOK
  <1>. QED
    BY <1>5, <1>6, <1>7, <1>10 DEF RingInv

\* A thread, a signal or another caller does not begin a transfer for one that
\* is outside.
LEMMA IdleStaysIdle ==
    ASSUME PoolInv, Transferring, NEW d \in Callers, call[d].at = "idle"
    PROVE  call'[d].at = "idle"
  <1>1. call \in [Callers -> CallRecord] /\ worker \in [Workers -> WorkerRecord]
    BY DEF PoolInv, PoolShape
  <1>2. ASSUME NEW c \in Callers, Enqueue(c) PROVE call'[d] = call[d]
    BY <1>1, <1>2 DEF Enqueue
  <1>3. ASSUME NEW c \in Callers, Collect(c) PROVE call'[d] = call[d]
    BY <1>1, <1>3 DEF Collect
  <1>4. ASSUME NEW w \in Workers, Pop(w) PROVE call'[d] = call[d]
    <2>1. CASE UNCHANGED call
      BY <2>1
    <2>2. CASE WakeOneProducer
      BY <1>1, <2>2, WakingCallers
    <2>. QED
      BY <1>4, <2>1, <2>2 DEF Pop
  <1>5. ASSUME NEW w \in Workers, Move(w) PROVE call'[d] = call[d]
    <2>1. w \in WorkersAt("moving") /\ worker[w].task \in Task
      BY <1>1, <1>5 DEF Move, WorkersAt, WorkerRecord
    <2>2. worker[w].task.caller # d
      <3>1. InHands(d) = {}
        BY DEF PoolInv, CallsOK, CallOK
      <3>. QED
        BY <2>1, <3>1 DEF InHands
    <2>3. PICK t \in Task, ok \in BOOLEAN :
             t = worker[w].task /\ call' = [call EXCEPT ![t.caller] = Counted(@, t.chunk, ok)]
      BY <1>5, <2>1 DEF Move
    <2>. QED
      BY <1>1, <2>2, <2>3
  <1>6. ASSUME SpuriousWake PROVE call'[d] = call[d]
    BY <1>1, <1>6, WakingCallers DEF SpuriousWake
  <1>. QED
    BY <1>2, <1>3, <1>4, <1>5, <1>6 DEF Transferring

\* The pool works while the ring waits, or goes up and down around it.
LEMMA PoolStepKeeps ==
    ASSUME RingInv, PoolInv', UNCHANGED ringVars,
           call[Reader].at = "idle" => call'[Reader].at = "idle"
    PROVE  RingInv'
  <1>1. UNCHANGED <<slots, active, rd, inflight>>
    BY DEF ringVars
  <1>2. ReaderShape' /\ ReaderOK' /\ CopiesOK'
    BY <1>1 DEF RingInv, ReaderShape, ReaderOK, CopiesOK
  <1>. QED
    BY <1>2 DEF RingInv

\* The pool works at a part of the reader's.
LEMMA TransfersKeepRing ==
    RingInv /\ Transferring /\ UNCHANGED ringVars => RingInv'
  <1>. SUFFICES ASSUME RingInv, Transferring, UNCHANGED ringVars PROVE RingInv'
    OBVIOUS
  <1>1. PoolInv'
    BY TransferringKeeps DEF RingInv
  <1>2. call[Reader].at = "idle" => call'[Reader].at = "idle"
    BY IdleStaysIdle, ReaderAssumption DEF RingInv
  <1>. QED
    BY <1>1, <1>2, PoolStepKeeps

\* The pool goes up or down while the reader is outside.
LEMMA PoolLifeKeeps == RingInv /\ PoolLife => RingInv'
  <1>. SUFFICES ASSUME RingInv, PoolLife PROVE RingInv'
    OBVIOUS
  <1>1. /\ UNCHANGED ringVars
        /\ Initialize \/ CreateThread \/ Destroy \/ Cleanup
    BY DEF PoolLife
  <1>2. PoolInv'
    BY <1>1, InitializeKeeps, CreateThreadKeeps, DestroyKeeps, CleanupKeeps DEF RingInv
  <1>3. UNCHANGED call
    BY <1>1 DEF Initialize, CreateThread, Destroy, Cleanup
  <1>. QED
    BY <1>1, <1>2, <1>3, PoolStepKeeps

\* Before the first call no window is allocated and no copy submitted.
LEMMA RingInitInv == Init => RingInv
  <1>. SUFFICES ASSUME Init PROVE RingInv
    OBVIOUS
  <1>1. PoolInv
    BY PoolInitInv DEF Init
  <1>2. /\ slots = [s \in Slots |-> EmptySlot] /\ active = 0 /\ rd = IdleReader
        /\ inflight = [q \in Queues |-> <<>>]
        /\ call = [c \in Callers |-> NoCall] /\ NoCall.at = "idle"
    BY DEF Init, PoolInit, NoCall
  <1>3. ReaderShape
    <2>1. <<>> \in Seq(CopyRecord)
      OBVIOUS
    <2>. QED
      BY <1>2, <2>1, EmptySlotType, IdleReaderType, ReaderAssumption DEF ReaderShape
  <1>4. ReaderOK
    BY <1>2, IdleReaderType, ReaderAssumption DEF ReaderOK
  <1>5. CopiesOK
    BY <1>2 DEF CopiesOK
  <1>. QED
    BY <1>1, <1>3, <1>4, <1>5 DEF RingInv

\* The invariant of the ring is inductive.
LEMMA RingNextKeeps == RingInv /\ [RNext]_vars => RingInv'
  <1>. SUFFICES ASSUME RingInv, [RNext]_vars PROVE RingInv'
    OBVIOUS
  <1>1. CASE RingNext
    BY <1>1, StartTransferKeeps, ChangeWindowKeeps, NextWindowKeeps, UseWindowKeeps,
       FileDoneKeeps, CopySyncKeeps, CopyAsyncKeeps, TransferDoneKeeps,
       StartCleanupKeeps, CleanupSlotKeeps, CompleteKeeps
    DEF RingNext
  <1>2. CASE Transferring /\ UNCHANGED ringVars
    BY <1>2, TransfersKeepRing
  <1>3. CASE PoolLife
    BY <1>3, PoolLifeKeeps
  <1>4. CASE UNCHANGED vars
    <2>1. UNCHANGED poolVars /\ UNCHANGED ringVars /\ UNCHANGED call
      BY <1>4 DEF vars, poolVars
    <2>2. PoolInv'
      BY <2>1, PoolStutters DEF RingInv
    <2>. QED
      BY <2>1, <2>2, PoolStepKeeps
  <1>. QED
    BY <1>1, <1>2, <1>3, <1>4 DEF RNext

\* What the invariant says of windows and copies.
LEMMA RingInvMeans ==
    RingInv => ReaderTypeOK /\ WindowsAreStable /\ CopiesAreFenced
  <1>. SUFFICES ASSUME RingInv PROVE ReaderTypeOK /\ WindowsAreStable /\ CopiesAreFenced
    OBVIOUS
  <1>1. ReaderTypeOK
    BY PoolInvMeans DEF RingInv, ReaderShape, ReaderTypeOK, SlotRecord, ReadRecord, CopyRecord
  <1>2. WindowsAreStable
    <2>1. rd.at # "transfer" => InRing(Reader) \union InHands(Reader) = {}
      BY ReaderAssumption DEF RingInv, ReaderOK, PoolInv, CallsOK, CallOK
    <2>2. ASSUME rd.at \in {"transfer", "copy"}, NEW q \in Queues,
                 NEW i \in 1..Len(inflight[q]), inflight[q][i].slot = active
          PROVE  inflight[q][i].lo + inflight[q][i].n <= rd.lo
      BY <2>2, CopyHas DEF CopyOK
    <2>. QED
      BY <2>1, <2>2 DEF WindowsAreStable
  <1>3. CopiesAreFenced
    <2>1. ASSUME NEW q \in Queues, NEW i \in 1..Len(inflight[q])
          PROVE  CopyOK(slots, active, rd, q, i, inflight[q][i])
      BY CopyHas
    <2>. QED
      BY <2>1 DEF CopiesAreFenced, CopyOK, Covers
  <1>. QED
    BY <1>1, <1>2, <1>3

\* The invariant of the ring holds throughout.
LEMMA RingAlways == RSpec => []RingInv
  BY RingInitInv, RingNextKeeps, PTL DEF RSpec

\* No part of a window is written while a copy out of it is still to be done, and
\* the pool writes to a window only while the reader waits for it
\* (hostbuf_file_transfer).
THEOREM WindowsStayStable == RSpec => []WindowsAreStable
  BY RingAlways, RingInvMeans, PTL

\* Every copy still to be done comes out of memory that is still allocated and is
\* covered by what its window's owner would wait for, through every failure to
\* record, to wait, to submit and to free (xpu_memcpy_host_to_device,
\* hostbuf_file_reader_next, hostbuf_file_reader_cleanup_checked).
THEOREM CopiesStayFenced == RSpec => []CopiesAreFenced
  BY RingAlways, RingInvMeans, PTL

\* The reader's own calls of the pool outlive their tasks and are whole too: it
\* is one of the pool's callers, and its frame goes when its call has returned.
THEOREM ReadsAreWhole == RSpec => [](WaitsOutliveTheirTasks /\ TransfersAreWhole)
  <1>1. RingInv => WaitsOutliveTheirTasks /\ TransfersAreWhole
    BY PoolInvMeans DEF RingInv
  <1>. QED
    BY <1>1, RingAlways, PTL

\* No part reaches beyond the end of its window, and every variable keeps its type.
THEOREM ReaderTypeCorrect == RSpec => []ReaderTypeOK
  BY RingAlways, RingInvMeans, PTL
=============================================================================
