--------------------------- MODULE VbarWorkProofs ---------------------------
(***************************************************************************)
(* The proofs that submitted work keeps the memory under it, that the      *)
(* memory in use is counted, that leased pages hold their contents and     *)
(* that the state keeps its types, for every number of VBARs, pages,       *)
(* threads, queues and operators.                                          *)
(*                                                                         *)
(* Between the submission of an operator and its end its pages are kept by *)
(* a range that still remembers the queue, and then by a token or the mark *)
(* of an unknown consumer on each page (Protects).  A reclaim that does    *)
(* not wait compares those with a frontier the device has passed           *)
(* (SeesFrontier); one that waits frees only what it had frozen before     *)
(* (Drains), and vbar_free drains once more after it has seen that nobody  *)
(* owns a page any more (Closes).                                          *)
(*                                                                         *)
(* The counters are sums over the pages (Usage), which a commit changes on *)
(* many pages and every other step on one.                                 *)
(*                                                                         *)
(* A leased page has its contents because every page is Honest: what the   *)
(* application knows of it is true, in every step of the driver but those  *)
(* that take a second failure.                                             *)
(*                                                                         *)
(* With these the state keeps its types, of which the priority list takes  *)
(* most of the work: it has each VBAR that exists exactly once.            *)
(***************************************************************************)
EXTENDS VbarProofs, LibraryTheorems

-----------------------------------------------------------------------------
(* What keeps the memory under submitted work.                               *)

\* The call of thread t is about to put on record the work of o's queue.
Promised(t, pcs, o) == call[t].pc \in pcs /\ call[t].token.queue = o.queue

\* A range of thread t holds page p for operator o: it remembers that the queue of
\* o has unregistered work, and a token taken since then is not older than o.
Covers(t, o, p) ==
    \/ /\ p \in RangePages(lease[t]) /\ o.queue \in lease[t].queues
       /\ Promised(t, {"register", "unpin"}, o) => o.n <= call[t].token.upto
    \/ /\ p \in RangePages(hold[t]) /\ o.queue \in hold[t].queues
       /\ Promised(t, {"release"}, o) => o.n <= call[t].token.upto

\* The page is known to be in use by o.
Protects(o, p) ==
    \/ \E t \in Threads : Covers(t, o, p)
    \/ page[p].unknown
    \/ page[p].tokens[o.queue] >= o.n

WorkOK ==
    /\ WorkIsBacked
    /\ async => \A o \in inflight : \A p \in o.pages : Protects(o, p)

\* Whoever gives a range back names the one queue that uses it, or none.
NamesQueue(t) ==
    /\ call[t].pc = "unpin" /\ call[t].token.queue # NoQueue =>
          lease[t].queues \subseteq {call[t].token.queue}
    /\ call[t].pc = "release" /\ call[t].token.queue # NoQueue =>
          hold[t].queues \subseteq {call[t].token.queue}

\* The frontier of a reclaim has really been passed.
SeesFrontier(t) ==
    call[t].kind = "retired" /\ call[t].pc # "snapshot" =>
       /\ \A q \in Queues : call[t].frontier[q] \in Nat /\ call[t].frontier[q] <= submitted[q]
       /\ \A o \in inflight : o.n > call[t].frontier[o.queue]

\* The thread waits for the work on the pages it has frozen before it frees them.
Drains(t) ==
    \A k \in call[t].candidates : StillFrozen(k) =>
       \A o \in inflight : k.page \in o.pages => call[t].pc = "sync" /\ o \in call[t].waits

\* A VBAR that is being freed is nobody else's, but for a reclaim of its pages;
\* after the second drain nobody uses its pages either.
Closes(t) ==
    /\ call[t].kind = "free" =>
          /\ vbar[call[t].vbar].state = "closing"
          /\ \A u \in Threads \ {t} : call[u].vbar = call[t].vbar => call[u].kind = "model"
    /\ call[t].pc \in {"redrain", "recheck", "teardown"} =>
          \A p \in Pages : p[1] = call[t].vbar =>
             /\ page[p].pin = 0 /\ ~Held(page[p])
             /\ \A o \in inflight : p \in o.pages => call[t].pc = "redrain" /\ o \in call[t].waits

ThreadWork(t) == NamesQueue(t) /\ SeesFrontier(t) /\ Drains(t) /\ Closes(t)

WorkInv == VbarInv /\ WorkOK /\ \A t \in Threads : ThreadWork(t)

-----------------------------------------------------------------------------
(* What one step may do to a page, to the device, and to the calls.          *)

Owned(r) == r.pin > 0 \/ Held(r)

\* A range of a thread owns its pages.
LEMMA RangesOwn ==
    ASSUME VbarInv, VbarAssumption, NEW t \in Threads, NEW p \in Pages,
           p \in RangePages(lease[t]) \/ p \in RangePages(hold[t])
    PROVE  Owned(page[p]) /\ (p \in RangePages(lease[t]) => page[p].pin > 0) /\ IsMapped(page[p])
<1>1. IsPage(page[p]) /\ PinsOK /\ IsFiniteSet(Threads)
  BY DEF VbarInv, TypesOK, PagesOK, VbarAssumption
<1>2. ASSUME NEW S \in SUBSET Threads, t \in S PROVE Cardinality(S) \in Nat /\ Cardinality(S) > 0
  <2>1. IsFiniteSet(S)
    BY <1>1, FS_Subset
  <2> QED
    BY <1>2, <2>1, FS_CardinalityType, FS_EmptySet
<1>3. Cardinality(Leasers(p)) \in Nat /\ Cardinality(Faulters(p)) \in Nat
  <2>1. Leasers(p) \subseteq Threads /\ Faulters(p) \subseteq Threads
    BY DEF Leasers, Faulters
  <2> QED
    BY <1>1, <2>1, FS_Subset, FS_CardinalityType
<1>4. p \in RangePages(lease[t]) => page[p].pin > 0
  <2>1. p \in RangePages(lease[t]) => t \in Leasers(p) /\ Leasers(p) \subseteq Threads
    BY DEF Leasers
  <2> QED
    BY <1>1, <1>2, <1>3, <2>1 DEF PinsOK
<1>5. p \in RangePages(hold[t]) => Held(page[p])
  <2>1. Outer(p) \subseteq Threads /\ Inner(p) \subseteq Threads
    BY DEF Outer, Inner
  <2>2. p \in RangePages(hold[t]) => t \in Outer(p) \/ t \in Inner(p)
    BY DEF Outer, Inner, Outside, Inside
  <2> QED
    BY <1>1, <1>2, <2>1, <2>2 DEF PinsOK, Held
<1> QED
  BY <1>1, <1>4, <1>5 DEF Owned, PinsOK

\* No other work is submitted than on pages somebody owns, and after what was
\* submitted before.
NewWork ==
    /\ \A q \in Queues : submitted'[q] \in Nat /\ submitted'[q] >= submitted[q]
    /\ \A o \in inflight' : o \notin inflight =>
          o.n > submitted[o.queue] /\ \A p \in o.pages : p \in Pages /\ Owned(page[p]) /\ IsMapped(page[p])

\* Every step keeps to that.
LEMMA NewWorkStep ==
    ASSUME VbarInv, VbarAssumption, [Next]_vars
    PROVE  NewWork
<1>1. DeviceOK /\ RangesOK /\ DeviceOK'
  BY VbarStep DEF VbarInv, TypesOK
<1>2. ASSUME inflight' \subseteq inflight, submitted' = submitted PROVE NewWork
  BY <1>1, <1>2 DEF NewWork, DeviceOK
<1>3. CASE ListNext \/ LimitNext \/ Quiet \/ UNCHANGED vars \/ \E o \in inflight : Finish(o)
  BY <1>2, <1>3 DEF ListNext, LimitNext, Allocate, Prioritize, Deprioritize, CopyAcquire, CopyRelease,
     SetLimit, Quiet, vars, device, Finish
<1>4. ASSUME NEW t \in Threads, ReclaimNext(t) \/ FaultNext(t) \/ FreeNext(t) PROVE NewWork
  <2>1. CASE ReclaimNext(t)
    BY <1>2, <2>1 DEF ReclaimNext, Pressure, SetWatermark, FreeMemory, Snapshot, Freeze, Commit,
       Synchronized, SynchronizeFails, device
  <2>2. CASE FaultNext(t)
    BY <1>2, <2>2 DEF FaultNext, Fault, EnterFault, FaultHit, FaultUnknown, FaultRestore, FaultMiss,
       FaultMap, ReturnFault, device
  <2>3. CASE FreeNext(t)
    BY <1>2, <2>3 DEF FreeNext, Free, CheckFree, BeginTeardown, TeardownPage, EndTeardown, device
  <2> QED
    BY <1>4, <2>1, <2>2, <2>3
<1>5. ASSUME NEW t \in Threads, ConsumerNext(t) PROVE NewWork
  <2>1. ASSUME NEW own \in {"lease", "hold"}, NEW q \in Queues, Submit(t, own, q) PROVE NewWork
    <3> DEFINE R == Lease(own, t)
               new == [queue |-> q, n |-> submitted[q] + 1, pages |-> RangePages(R)]
    <3>1. /\ submitted' = [submitted EXCEPT ![q] = @ + 1]
          /\ inflight' = inflight \cup {new}
      BY <2>1 DEF Submit
    <3>2. \A x \in Queues : submitted'[x] \in Nat /\ submitted'[x] >= submitted[x]
      BY <1>1, <3>1 DEF DeviceOK
    <3>3. RangePages(R) \subseteq Pages /\ (R = lease[t] \/ R = hold[t])
      BY <1>1, <2>1 DEF Lease, RangesOK, IsRange
    <3>4. \A p \in RangePages(R) : p \in Pages /\ Owned(page[p]) /\ IsMapped(page[p])
      BY <3>3, RangesOwn
    <3>5. new.n > submitted[new.queue] /\ new.pages = RangePages(R)
      BY <1>1 DEF DeviceOK
    <3> HIDE DEF new, R
    <3> QED
      BY <3>1, <3>2, <3>4, <3>5 DEF NewWork
  <2>2. ASSUME NEW pc, NEW q, TakeToken(t, pc, q) PROVE NewWork
    BY <1>2, <2>2 DEF TakeToken, device
  <2>3. CASE Register(t) \/ Unpin(t)
    BY <1>2, <2>3 DEF Register, Unpin, device
  <2>4. CASE Release(t)
    BY <1>2, <2>4 DEF Release, device
  <2>5. ASSUME NEW R, Acquire(t, R) PROVE NewWork
    BY <1>2, <2>5 DEF Acquire, device
  <2> QED
    BY <1>5, <2>1, <2>2, <2>3, <2>4, <2>5 DEF ConsumerNext
<1> QED
  BY <1>3, <1>4, <1>5 DEF Next

\* What a step may do to the owners of a page that is owned by nobody, and to a
\* page that is frozen after it.
PageMay(p) ==
    LET r == page[p]  s == page'[p] IN
    /\ s.evicting /\ s.gen <= r.gen => r.evicting /\ s.gen = r.gen
    /\ r.pin = 0 /\ s.pin # 0 => \E t \in Threads : call[t].kind = "none" /\ call[t].vbar = p[1]
    /\ ~Held(r) /\ Held(s) => vbar[p[1]].state = "live"

\* Every step keeps to that: only a scan freezes, only a fault of its VBAR pins, and
\* only a live VBAR is held.
LEMMA PagesMove ==
    ASSUME VbarInv, VbarAssumption, [Next]_vars, NEW p \in Pages
    PROVE  PageMay(p)
<1> DEFINE r == page[p]
           s == page'[p]
<1>1. TypesOK /\ CallsOK /\ FaultsOK /\ TriesOK /\ PagesOK /\ IsPage(r)
  BY DEF VbarInv, TypesOK, PagesOK
<1>2. ASSUME s = r PROVE PageMay(p)
  BY <1>1, <1>2 DEF PageMay, IsPage
<1>3. ASSUME page' = page PROVE PageMay(p)
  BY <1>2, <1>3
<1>4. ASSUME SameOwners(r, s), Thaws(r, s) PROVE PageMay(p)
  BY <1>1, <1>4 DEF PageMay, SameOwners, Thaws, Held
<1>5. CASE ListNext \/ LimitNext \/ Quiet \/ UNCHANGED vars \/ \E o \in inflight : Finish(o)
  BY <1>3, <1>5 DEF ListNext, LimitNext, Allocate, Prioritize, Deprioritize, CopyAcquire, CopyRelease,
     SetLimit, Quiet, vars, memory, Finish
<1>6. ASSUME NEW t \in Threads, ReclaimNext(t) PROVE PageMay(p)
  <2>1. Acts(t)
    BY <1>1, ThreadActs
  <2>2. CASE Freeze(t)
    <3>1. PICK K \in SUBSET Eligible(call[t]) :
             /\ \A q \in Pages \ K : page'[q] = page[q]
             /\ \A q \in K : FrozenAs(page[q], page'[q])
      BY <1>1, <2>1, <2>2, FreezePages
    <3>2. CASE p \in K
      BY <1>1, <3>1, <3>2 DEF FrozenAs, SameOwners, PageMay, IsPage, Held
    <3> QED
      BY <1>2, <3>1, <3>2
  <2>3. CASE Commit(t)
    BY <1>1, <1>4, <2>1, <2>3, CommitPages
  <2>4. CASE SynchronizeFails(t)
    BY <1>1, <1>4, <2>1, <2>4, SynchronizeFailsPages DEF Steady
  <2>5. CASE Snapshot(t) \/ Synchronized(t)
    BY <1>3, <2>5 DEF Snapshot, Synchronized, memory
  <2>6. ASSUME NEW v, NEW n, Pressure(t, n, v) \/ SetWatermark(t, v, n) \/ FreeMemory(t, v, n)
        PROVE  page' = page
    BY <2>6 DEF Pressure, SetWatermark, FreeMemory, memory
  <2> QED
    BY <1>3, <1>6, <2>2, <2>3, <2>4, <2>5, <2>6 DEF ReclaimNext
<1>7. ASSUME NEW t \in Threads, FaultNext(t) PROVE PageMay(p)
  <2>1. Acts(t)
    BY <1>1, ThreadActs
  <2>2. \/ FaultBegins(t)
        \/ AtPage(t) /\ (FaultPasses(t) \/ FaultRetries(t) \/ FaultStops(t))
        \/ ReturnFault(t)
    BY <1>1, <1>7, FaultKinds
  <2>3. CASE FaultBegins(t)
    BY <1>3, <2>3 DEF FaultBegins
  <2>4. CASE AtPage(t) /\ FaultPasses(t)
    <3>1. p # FaultPage(t) => s = r
      BY <2>4 DEF FaultPasses
    <3>2. CASE p = FaultPage(t)
      <4>1. call[t].kind = "none" /\ call[t].vbar = p[1]
        BY <2>1, <2>4, <3>2, AtPageFacts DEF FaultPage
      <4>2. Thaws(r, s) /\ s.external = r.external /\ s.capture = r.capture
        BY <2>4, <3>2 DEF FaultPasses
      <4> QED
        BY <1>1, <4>1, <4>2 DEF PageMay, Thaws, Held
    <3> QED
      BY <1>2, <3>1, <3>2
  <2>5. CASE AtPage(t) /\ FaultRetries(t)
    <3>1. p # FaultPage(t) => s = r
      BY <2>5 DEF FaultRetries
    <3>2. p = FaultPage(t) => SameOwners(r, s) /\ Thaws(r, s)
      BY <2>5 DEF FaultRetries
    <3> QED
      BY <1>2, <1>4, <3>1, <3>2
  <2>6. CASE FaultStops(t)
    <3>1. /\ Thaws(r, s) /\ s.external = r.external /\ s.capture = r.capture
          /\ s.pin = IF p \in FaultRange(t) /\ r.pin > 0 THEN r.pin - 1 ELSE r.pin
      BY <2>6 DEF FaultStops
    <3>2. r.pin = 0 => s.pin = 0
      BY <3>1
    <3> QED
      BY <1>1, <3>1, <3>2 DEF PageMay, Thaws, Held
  <2>7. CASE ReturnFault(t)
    BY <1>1, <1>4, <2>7, ReturnFaultPages DEF Steady
  <2> QED
    BY <2>2, <2>3, <2>4, <2>5, <2>6, <2>7
<1>8. ASSUME NEW t \in Threads, ConsumerNext(t) PROVE PageMay(p)
  <2>1. Acts(t)
    BY <1>1, ThreadActs
  <2>2. ASSUME NEW own, NEW q, Submit(t, own, q) \/ \E pc : TakeToken(t, pc, q) PROVE page' = page
    BY <2>2 DEF Submit, TakeToken, memory
  <2>3. CASE Register(t)
    BY <1>1, <1>4, <2>1, <2>3, RegisterPages DEF Steady
  <2>4. CASE Unpin(t)
    <3>1. /\ Thaws(r, s) /\ s.external = r.external /\ s.capture = r.capture
          /\ s.pin = IF p \in RangePages(lease[t]) /\ r.pin > 0 THEN r.pin - 1 ELSE r.pin
      BY <1>1, <2>1, <2>4, UnpinPages
    <3>2. r.pin = 0 => s.pin = 0
      BY <3>1
    <3> QED
      BY <1>1, <3>1, <3>2 DEF PageMay, Thaws, Held
  <2>5. CASE Release(t)
    <3>1. /\ Thaws(r, s) /\ (p \notin RangePages(hold[t]) => s = r)
          /\ p \in RangePages(hold[t]) => CountsHold(r, s, hold[t].kind, Holds(r, hold[t].kind) - 1)
      BY <1>1, <2>1, <2>5, ReleasePages
    <3>2. CASE p \in RangePages(hold[t])
      <4>1. Held(r)
        <5>1. Holds(r, hold[t].kind) > 0
          BY <2>5, <3>2 DEF Release
        <5> QED
          BY <1>1, <5>1 DEF Holds, Held
      <4>2. s.pin = r.pin
        BY <3>1, <3>2 DEF CountsHold
      <4> QED
        BY <1>1, <3>1, <4>1, <4>2 DEF PageMay, Thaws
    <3> QED
      BY <1>2, <3>1, <3>2
  <2>6. ASSUME NEW R, Acquire(t, R) PROVE PageMay(p)
    <3>1. /\ Thaws(r, s) /\ (p \notin RangePages(R) => s = r)
          /\ p \in RangePages(R) => CountsHold(r, s, R.kind, Holds(r, R.kind) + 1)
      BY <1>1, <2>1, <2>6, AcquirePages
    <3>2. CASE p \in RangePages(R)
      <4>1. vbar[p[1]].state = "live"
        BY <2>6, <3>2 DEF Acquire, RangePages
      <4>2. s.pin = r.pin
        BY <3>1, <3>2 DEF CountsHold
      <4> QED
        BY <1>1, <3>1, <4>1, <4>2 DEF PageMay, Thaws
    <3> QED
      BY <1>2, <3>1, <3>2
  <2> QED
    BY <1>3, <1>8, <2>2, <2>3, <2>4, <2>5, <2>6 DEF ConsumerNext
<1>9. ASSUME NEW t \in Threads, FreeNext(t) PROVE PageMay(p)
  <2>1. Acts(t)
    BY <1>1, ThreadActs
  <2>2. CASE TeardownPage(t)
    <3> DEFINE q == <<call[t].vbar, call[t].at>>
    <3>1. /\ \A o \in Pages \ {q} : page'[o] = page[o]
          /\ SameOwners(page[q], page'[q]) /\ Thaws(page[q], page'[q])
      BY <1>1, <2>1, <2>2, TeardownPages
    <3> HIDE DEF q
    <3> QED
      BY <1>2, <1>4, <3>1
  <2>3. ASSUME NEW v, Free(t, v) PROVE page' = page
    BY <2>3 DEF Free
  <2>4. ASSUME CheckFree(t) \/ BeginTeardown(t) \/ \E refused : EndTeardown(t, refused)
        PROVE  page' = page
    BY <2>4 DEF CheckFree, BeginTeardown, EndTeardown, memory
  <2> QED
    BY <1>3, <1>9, <2>2, <2>3, <2>4 DEF FreeNext
<1> QED
  BY <1>5, <1>6, <1>7, <1>8, <1>9 DEF Next

\* A VBAR that is closing stays so until its teardown has ended.
LEMMA ClosingStays ==
    ASSUME VbarInv, VbarAssumption, [Next]_vars, NEW v \in Vbars, vbar[v].state = "closing"
    PROVE  \/ vbar'[v].state = "closing"
           \/ \E t \in Threads : call[t].vbar = v /\ call[t].pc = "teardown" /\ call'[t] = NoCall
<1>1. TypesOK /\ CallsOK /\ DOMAIN vbar = Vbars /\ \A w \in Vbars : DOMAIN vbar[w] = VbarFields
  BY DEF VbarInv, TypesOK, VbarsOK
<1>2. ASSUME StatesSame PROVE vbar'[v].state = "closing"
  BY <1>2 DEF StatesSame
<1>3. CASE ListNext
  <2>1. PICK w \in Vbars : Allocate(w) \/ Prioritize(w) \/ Deprioritize(w) \/ CopyAcquire(w)
                           \/ CopyRelease(w)
    BY <1>3 DEF ListNext
  <2>2. \/ vbar' = vbar
        \/ vbar[w].state = "none" /\ vbar' = [vbar EXCEPT ![w].state = "live"]
        \/ vbar' = [vbar EXCEPT ![w].watermark = NPages]
        \/ vbar' = [vbar EXCEPT ![w].copies = @ + 1]
        \/ vbar' = [vbar EXCEPT ![w].copies = @ - 1]
    BY <2>1 DEF Allocate, Prioritize, Deprioritize, CopyAcquire, CopyRelease
  <2> QED
    BY <1>1, <2>2 DEF VbarFields
<1>4. CASE LimitNext
  BY <1>1, <1>4, LimitVbars DEF VbarFields
<1>5. CASE Quiet \/ UNCHANGED vars \/ \E o \in inflight : Finish(o)
  BY <1>5 DEF Quiet, vars, memory, Finish
<1>6. ASSUME NEW t \in Threads, ReclaimNext(t) \/ FaultNext(t) \/ ConsumerNext(t)
      PROVE  vbar'[v].state = "closing"
  BY <1>1, <1>2, <1>6, StatesStay
<1>7. ASSUME NEW t \in Threads, FreeNext(t)
      PROVE  \/ vbar'[v].state = "closing"
             \/ call[t].vbar = v /\ call[t].pc = "teardown" /\ call'[t] = NoCall
  <2>1. CASE CheckFree(t) \/ BeginTeardown(t) \/ TeardownPage(t)
    BY <1>1, <1>2, <2>1, StatesStay
  <2>2. ASSUME NEW w \in Vbars, Free(t, w) PROVE vbar'[v].state = "closing"
    BY <1>1, <2>2 DEF Free, VbarFields
  <2>3. ASSUME NEW refused, EndTeardown(t, refused)
        PROVE  \/ vbar'[v].state = "closing"
               \/ call[t].vbar = v /\ call[t].pc = "teardown" /\ call'[t] = NoCall
    <3>1. /\ call[t].pc = "teardown" /\ call' = [call EXCEPT ![t] = NoCall]
          /\ vbar' = vbar \/ vbar' = [vbar EXCEPT ![call[t].vbar].state = "gone"]
      BY <2>3 DEF EndTeardown
    <3>2. call'[t] = NoCall
      BY <1>1, <3>1 DEF TypesOK
    <3>3. v # call[t].vbar => vbar'[v].state = "closing"
      BY <1>1, <3>1
    <3> QED
      BY <3>1, <3>2, <3>3
  <2> QED
    BY <1>7, <2>1, <2>2, <2>3 DEF FreeNext
<1> QED
  BY <1>3, <1>4, <1>5, <1>6, <1>7 DEF Next

-----------------------------------------------------------------------------
(* Calls that promise and remember nothing.                                  *)

Plain(d) == \/ d.pc \in {"idle", "enter", "page", "snapshot"}
            \/ d.pc = "freeze" /\ d.kind # "retired"

\* A call is on the VBAR it was on, or on none, or on one that nobody frees.
StaysOn(c, d) ==
    \/ d.vbar = NoVbar
    \/ d.vbar = c.vbar /\ (c.kind = "model" => d.kind = "model")
    \/ \A u \in Threads : call[u].vbar = d.vbar => call[u].kind # "free"

\* A call that is not in progress is plain.
LEMMA NoCallPlain == Plain(NoCall) /\ NoCall.vbar = NoVbar /\ NoCall.pc = "idle" /\ NoCall.kind = "none"
BY DEF NoCall, Plain

\* A plain call has nothing to rely on.
LEMMA PlainWork ==
    ASSUME CallsOK', NEW t \in Threads, Plain(call'[t])
    PROVE  ThreadWork(t)'
<1> DEFINE d == call'[t]
<1>1. /\ d.candidates # {} => d.pc \in {"sync", "commit"}
      /\ d.kind = "free" <=> d.pc \in Closing
      /\ d.kind = "retired" => d.pc # "sync"
      /\ d.pc \in {"enter", "page", "idle"} => d.kind = "none"
  BY DEF CallsOK, CallOK, Reclaims, Closing
<1>2. d.candidates = {} /\ d.pc \notin Closing \cup Consumes /\ (d.kind = "retired" => d.pc = "snapshot")
  BY <1>1 DEF Plain, Closing, Consumes
<1> HIDE DEF d
<1>3. NamesQueue(t)' /\ SeesFrontier(t)'
  BY <1>2 DEF NamesQueue, SeesFrontier, Consumes, d
<1>4. Drains(t)' /\ Closes(t)'
  BY <1>1, <1>2 DEF Drains, Closes, Closing, d
<1> QED
  BY <1>3, <1>4 DEF ThreadWork

\* A reclaim that stops goes back to a plain call on the same VBAR.
LEMMA StoppedPlain ==
    ASSUME NEW t \in Threads, Acts(t), NEW left,
           call[t].pc \in {"freeze", "sync", "commit", "drain", "redrain"}
    PROVE  LET d == Stopped(call[t], left) IN Plain(d) /\ StaysOn(call[t], d)
<1> DEFINE c == call[t]
           mine == lock = t
<1>1. CallOK(c, mine) /\ mine \in BOOLEAN /\ async \in BOOLEAN
  BY DEF Acts
<1> HIDE DEF mine
<1>2. /\ Stopped(c, left).pc \in {"idle", "enter", "page", "snapshot"}
      /\ \/ c.then = "idle" /\ Stopped(c, left) = NoCall
         \/ /\ c.then # "idle"
            /\ \A f \in {"at", "vbar", "first", "last", "tries"} : Stopped(c, left)[f] = c[f]
  BY ONLY <1>1, StoppedOK, c.pc \in {"freeze", "sync", "commit", "drain", "redrain"}
<1>3. c.then # "idle" => c.kind = "retired"
  BY <1>1 DEF CallOK
<1> QED
  BY <1>2, <1>3, NoCallPlain DEF Plain, StaysOn

\* A reclaim starts as one.
LEMMA ReclaimPlain ==
    ASSUME NEW a, IsCall(a), NEW need, NEW keep, NEW then \in {"idle", "enter", "page"}
    PROVE  LET d == Reclaim(a, need, keep, then) IN
           Plain(d) /\ d.pc \in {"snapshot", then} /\ d.vbar = a.vbar
<1>1. CASE need > 0 /\ async
  <2>1. Reclaim(a, need, keep, then) =
          [a EXCEPT !.pc = "snapshot", !.kind = "retired", !.need = need, !.keep = keep, !.then = then]
    BY <1>1 DEF Reclaim
  <2> QED
    BY <2>1 DEF IsCall, CallFields, Plain
<1>2. CASE ~(need > 0 /\ async)
  <2>1. Reclaim(a, need, keep, then) = [a EXCEPT !.pc = then]
    BY <1>2 DEF Reclaim
  <2> QED
    BY <2>1 DEF IsCall, CallFields, Plain
<1> QED
  BY <1>1, <1>2

-----------------------------------------------------------------------------
(* What one thread's work relies on is disturbed by no other.                *)

\* What call u relies on is still so after the step of another thread.
LEMMA OthersWork ==
    ASSUME WorkInv, VbarAssumption, [Next]_vars, NEW u \in Threads,
           call'[u] = call[u], lease'[u] = lease[u], hold'[u] = hold[u],
           \A x \in Threads : StaysOn(call[x], call'[x])
    PROVE  ThreadWork(u)'
<1> DEFINE c == call[u]
<1>1. /\ VbarInv /\ NewWork /\ CallOK(c, lock = u) /\ ThreadWork(u) /\ DeviceOK
      /\ FrozenOK /\ PagesOK /\ NoVbar \notin Vbars
  BY NewWorkStep DEF WorkInv, VbarInv, CallsOK, TypesOK, VbarAssumption
<1>2. ASSUME NEW p \in Pages, NEW o \in inflight', p \in o.pages, ~Owned(page[p]) PROVE o \in inflight
  BY <1>1, <1>2 DEF NewWork
<1>3. NamesQueue(u)'
  BY <1>1 DEF ThreadWork, NamesQueue
<1>4. SeesFrontier(u)'
  <2> SUFFICES ASSUME c.kind = "retired", c.pc # "snapshot"
               PROVE  /\ \A q \in Queues : c.frontier[q] \in Nat /\ c.frontier[q] <= submitted'[q]
                      /\ \A o \in inflight' : o.n > c.frontier[o.queue]
    BY DEF SeesFrontier
  <2>1. /\ \A q \in Queues : c.frontier[q] \in Nat /\ c.frontier[q] <= submitted[q]
        /\ \A o \in inflight : o.n > c.frontier[o.queue]
    BY <1>1 DEF ThreadWork, SeesFrontier
  <2>2. \A q \in Queues : submitted[q] \in Nat
    BY <1>1 DEF DeviceOK
  <2>3. \A q \in Queues : c.frontier[q] <= submitted'[q]
    BY <1>1, <2>1, <2>2 DEF NewWork
  <2>4. ASSUME NEW o \in inflight', o \notin inflight PROVE o.n > c.frontier[o.queue]
    <3>1. o.queue \in Queues /\ o.n \in Nat
      BY VbarStep, <1>1 DEF VbarInv, TypesOK, DeviceOK, Operators
    <3>2. o.n > submitted[o.queue]
      BY <1>1, <2>4 DEF NewWork
    <3> QED
      BY <2>1, <2>2, <3>1, <3>2
  <2> QED
    BY <2>1, <2>3, <2>4
<1>5. Drains(u)'
  <2> SUFFICES ASSUME NEW k \in c.candidates, StillFrozen(k)', NEW o \in inflight', k.page \in o.pages
               PROVE  c.pc = "sync" /\ o \in c.waits
    BY DEF Drains
  <2>1. k.page \in Pages /\ k.gen <= page[k.page].gen /\ PageMay(k.page)
    <3>1. k.page \in Pages
      BY <1>1 DEF CallOK
    <3> QED
      BY <1>1, <3>1, PagesMove DEF FrozenOK
  <2>2. page[k.page].evicting /\ page[k.page].gen = k.gen
    BY <2>1 DEF StillFrozen, PageMay
  <2>3. StillFrozen(k) /\ ~Owned(page[k.page])
    BY <1>1, <2>1, <2>2 DEF StillFrozen, FrozenOK, Owned
  <2>4. o \in inflight
    BY <1>2, <2>1, <2>3
  <2> QED
    BY <1>1, <2>3, <2>4 DEF ThreadWork, Drains
<1>6. Closes(u)'
  <2>1. CASE c.kind # "free"
    <3>1. c.pc \notin {"redrain", "recheck", "teardown"}
      BY <1>1, <2>1 DEF CallOK, Closing
    <3> QED
      BY <2>1, <3>1 DEF Closes
  <2>2. CASE c.kind = "free"
    <3> DEFINE v == c.vbar
    <3>1. v \in Vbars /\ c # NoCall
      BY <1>1, <2>2, NoCallPlain DEF CallOK
    <3>2. /\ vbar[v].state = "closing"
          /\ \A x \in Threads \ {u} : call[x].vbar = v => call[x].kind = "model"
      BY <1>1, <2>2 DEF ThreadWork, Closes
    <3>3. \A x \in Threads : call[x].vbar = v => call[x].kind \in {"model", "free"} /\ (call[x].pc = "teardown" => x = u)
      <4> SUFFICES ASSUME NEW x \in Threads, call[x].vbar = v, x # u
                   PROVE  call[x].kind = "model" /\ call[x].pc # "teardown"
        BY <2>2
      <4>1. call[x].kind = "model"
        BY <3>2
      <4> QED
        BY <1>1, <4>1 DEF VbarInv, CallsOK, CallOK, Closing
    <3>4. vbar'[v].state = "closing"
      BY <1>1, <3>1, <3>2, <3>3, ClosingStays
    <3>5. ASSUME NEW x \in Threads \ {u}, call'[x].vbar = v PROVE call'[x].kind = "model"
      <4>1. StaysOn(call[x], call'[x])
        OBVIOUS
      <4> QED
        BY <1>1, <2>2, <3>1, <3>2, <3>5, <4>1 DEF StaysOn
    <3>6. ASSUME c.pc \in {"redrain", "recheck", "teardown"}, NEW p \in Pages, p[1] = v
          PROVE  /\ page'[p].pin = 0 /\ ~Held(page'[p])
                 /\ \A o \in inflight' : p \in o.pages => c.pc = "redrain" /\ o \in c.waits
      <4>1. /\ page[p].pin = 0 /\ ~Held(page[p])
            /\ \A o \in inflight : p \in o.pages => c.pc = "redrain" /\ o \in c.waits
        BY <1>1, <3>6 DEF ThreadWork, Closes
      <4>2. PageMay(p)
        BY <1>1, PagesMove
      <4>3. page'[p].pin = 0
        BY <3>3, <3>6, <4>1, <4>2 DEF PageMay
      <4>4. ~Held(page'[p])
        BY <3>2, <3>6, <4>1, <4>2 DEF PageMay
      <4> QED
        BY <1>2, <4>1, <4>3, <4>4 DEF Owned
    <3> QED
      BY <3>4, <3>5, <3>6 DEF Closes
  <2> QED
    BY <2>1, <2>2
<1> QED
  BY <1>3, <1>4, <1>5, <1>6 DEF ThreadWork

-----------------------------------------------------------------------------
(* What the thread that acts knows after its step.                           *)

Fits(t) == StaysOn(call[t], call'[t]) /\ (Plain(call'[t]) \/ ThreadWork(t)')

\* ... and it promises nothing if it is not a consumer.
Moves(t) == /\ StaysOn(call[t], call'[t])
            /\ Plain(call'[t]) \/ (ThreadWork(t)' /\ call'[t].pc \notin Consumes)

\* A reclaim of what was retired freezes no page that submitted work uses: the
\* frontier it has seen is past everything its page was used for.
LEMMA RetiredIsIdle ==
    ASSUME WorkInv, VbarAssumption, NEW t \in Threads, call[t].kind = "retired", call[t].pc = "freeze",
           NEW p \in Eligible(call[t]), NEW o \in inflight
    PROVE  p \notin o.pages
<1> SUFFICES ASSUME p \in o.pages PROVE FALSE
  OBVIOUS
<1> DEFINE c == call[t]
<1>1. /\ p \in Pages /\ Idle(page[p]) /\ RetireComplete(page[p], c.frontier)
  BY DEF Eligible
<1>2. VbarInv /\ async /\ IsPage(page[p]) /\ o.queue \in Queues /\ o.n \in Nat
  BY <1>1 DEF WorkInv, VbarInv, TypesOK, PagesOK, DeviceOK, Operators, CallsOK, CallOK
<1>3. Protects(o, p)
  BY <1>2 DEF WorkInv, WorkOK
<1>4. /\ c.frontier[o.queue] \in Nat /\ o.n > c.frontier[o.queue]
  BY <1>2 DEF WorkInv, ThreadWork, SeesFrontier
<1>5. page[p].tokens[o.queue] \in Nat /\ page[p].tokens[o.queue] <= c.frontier[o.queue]
  BY <1>1, <1>2 DEF IsPage, RetireComplete
<1>6. ASSUME NEW u \in Threads, Covers(u, o, p) PROVE FALSE
  <2>1. Owned(page[p])
    BY <1>1, <1>2, <1>6, RangesOwn DEF Covers
  <2> QED
    BY <1>1, <2>1 DEF Idle, Owned
<1> QED
  BY <1>1, <1>3, <1>4, <1>5, <1>2, <1>6 DEF Protects, RetireComplete

\* A scan takes pages without work (RetiredIsIdle), or waits for it before it commits.
LEMMA ReclaimWork ==
    ASSUME WorkInv, VbarAssumption, [Next]_vars, NEW t \in Threads, ReclaimNext(t)
    PROVE  Moves(t)
<1> DEFINE c == call[t]
           d == call'[t]
<1>1. /\ VbarInv /\ TypesOK /\ CallsOK /\ PagesOK /\ Acts(t) /\ IsCall(c) /\ CallOK(c, lock = t)
      /\ ThreadWork(t) /\ DOMAIN call = Threads /\ DeviceOK
  <2>1. VbarInv /\ TypesOK /\ CallsOK /\ PagesOK /\ ThreadWork(t) /\ DOMAIN call = Threads /\ DeviceOK
    BY DEF WorkInv, VbarInv, TypesOK
  <2>2. Acts(t)
    BY <2>1, ThreadActs
  <2> QED
    BY <2>1, <2>2 DEF Acts, CallOK
<1>2. ASSUME NEW left, d = Stopped(c, left), c.pc \in {"freeze", "sync", "commit", "drain", "redrain"}
      PROVE  Moves(t)
  BY <1>1, <1>2, StoppedPlain DEF Moves, Consumes
<1>3. CASE Snapshot(t)
  <2>1. PICK f \in [Queues -> 0..MaxOps] :
           /\ \A q \in Queues : f[q] <= submitted[q]
           /\ \A o \in inflight : o.n > f[o.queue]
           /\ call' = [call EXCEPT ![t].pc = "freeze", ![t].frontier = f]
    BY <1>3 DEF Snapshot
  <2>2. c.pc = "snapshot" /\ UNCHANGED <<submitted, inflight, vbar, page>>
    BY <1>3 DEF Snapshot, device, memory
  <2>3. c.kind = "retired" /\ c.candidates = {}
    BY <1>1, <2>2 DEF CallOK
  <2>4. d.pc = "freeze" /\ d.frontier = f /\ d.kind = c.kind /\ d.vbar = c.vbar /\ d.candidates = {}
    BY <1>1, <2>1, <2>3 DEF IsCall, CallFields
  <2>5. \A q \in Queues : f[q] \in Nat
    BY VbarAssumption DEF VbarAssumption
  <2>6. NamesQueue(t)' /\ SeesFrontier(t)'
    BY <2>1, <2>2, <2>4, <2>5 DEF NamesQueue, SeesFrontier
  <2>7. Drains(t)' /\ Closes(t)'
    BY <2>3, <2>4 DEF Drains, Closes
  <2> QED
    BY <2>4, <2>6, <2>7 DEF Moves, Consumes, StaysOn, ThreadWork
<1>4. CASE Freeze(t)
  <2>1. PICK K \in SUBSET Eligible(c) :
           /\ K # {} => Froze(t, K)
           /\ K = {} => d = Stopped(c, c.need)
    BY <1>1, <1>4, FreezePages
  <2>2. c.pc = "freeze" /\ UNCHANGED <<submitted, inflight>>
    BY <1>4 DEF Freeze, device
  <2>3. CASE K # {}
    <3>1. /\ d.pc = IF c.kind = "retired" THEN "commit" ELSE "sync"
          /\ d.candidates = {[page |-> p, serial |-> page[p].serial, gen |-> page[p].gen + 1] : p \in K}
          /\ d.waits = IF c.kind = "retired" THEN {} ELSE inflight
          /\ d.kind = c.kind /\ d.vbar = c.vbar /\ d.frontier = c.frontier
      BY <2>1, <2>3 DEF Froze
    <3>2. c.kind # "free"
      BY <1>1, <2>2 DEF CallOK, Closing
    <3>3. NamesQueue(t)' /\ Closes(t)'
      BY <3>1, <3>2 DEF NamesQueue, Closes
    <3>4. SeesFrontier(t)'
      BY <1>1, <2>2, <3>1 DEF ThreadWork, SeesFrontier
    <3>5. Drains(t)'
      <4> SUFFICES ASSUME NEW k \in d.candidates, NEW o \in inflight, k.page \in o.pages
                   PROVE  d.pc = "sync" /\ o \in d.waits
        BY <2>2 DEF Drains
      <4>1. k.page \in K
        BY <3>1
      <4>2. c.kind # "retired"
        BY <2>1, <2>2, <4>1, RetiredIsIdle
      <4> QED
        BY <3>1, <4>2
    <3> QED
      BY <3>1, <3>3, <3>4, <3>5 DEF Moves, Consumes, StaysOn, ThreadWork
  <2> QED
    BY <1>2, <2>1, <2>2, <2>3
<1>5. CASE Commit(t)
  <2>1. PICK freed : call' = [call EXCEPT ![t] =
                       IF Over(freed, c.need) THEN Stopped(c, c.need - freed)
                       ELSE [c EXCEPT !.pc = "freeze", !.need = @ - freed,
                                      !.candidates = {}]]
    BY <1>5 DEF Commit
  <2>2. c.pc = "commit" /\ UNCHANGED <<submitted, inflight>>
    BY <1>5 DEF Commit, device
  <2> DEFINE left == c.need - freed
             e == [c EXCEPT !.pc = "freeze", !.need = left, !.candidates = {}]
  <2>3. d = Stopped(c, left) \/ d = e
    BY <1>1, <2>1
  <2>4. CASE d = e
    <3>1. d.pc = "freeze" /\ d.candidates = {} /\ d.kind = c.kind /\ d.vbar = c.vbar /\ d.frontier = c.frontier
      <4> HIDE DEF left
      <4> QED
        BY <1>1, <2>4 DEF IsCall, CallFields
    <3>2. c.kind # "free"
      BY <1>1, <2>2 DEF CallOK, Closing
    <3>3. NamesQueue(t)' /\ Closes(t)' /\ Drains(t)'
      BY <3>1, <3>2 DEF NamesQueue, Closes, Drains
    <3>4. SeesFrontier(t)'
      BY <1>1, <2>2, <3>1 DEF ThreadWork, SeesFrontier
    <3> QED
      BY <3>1, <3>3, <3>4 DEF Moves, Consumes, StaysOn, ThreadWork
  <2> QED
    BY <1>2, <2>2, <2>3, <2>4
<1>6. CASE Synchronized(t)
  <2> DEFINE pc == CASE c.pc = "sync"    -> "commit"
                     [] c.pc = "drain"   -> "check"
                     [] c.pc = "redrain" -> "recheck"
             e == [c EXCEPT !.waits = {}, !.pc = pc]
  <2>1. d = e /\ c.pc \in {"sync", "drain", "redrain"} /\ c.waits \cap inflight = {}
    BY <1>1, <1>6 DEF Synchronized
  <2>2. UNCHANGED <<submitted, inflight, vbar, page>>
    BY <1>6 DEF Synchronized, device, memory
  <2>3. d.pc = pc /\ d.candidates = c.candidates /\ d.kind = c.kind /\ d.vbar = c.vbar
    <3> HIDE DEF pc
    <3> QED
      BY <1>1, <2>1 DEF IsCall, CallFields
  <2>4. d.pc \in {"commit", "check", "recheck"} /\ (d.pc = "recheck" => c.pc = "redrain")
    BY <2>1, <2>3
  <2> HIDE DEF pc
  <2>5. NamesQueue(t)'
    BY <2>4 DEF NamesQueue
  <2>6. SeesFrontier(t)'
    <3>1. c.kind # "retired"
      BY <1>1, <2>1 DEF CallOK, Reclaims
    <3> QED
      BY <2>3, <3>1 DEF SeesFrontier
  <2>7. Drains(t)'
    <3> SUFFICES ASSUME NEW k \in c.candidates, StillFrozen(k), NEW o \in inflight, k.page \in o.pages
                 PROVE  FALSE
      BY <2>2, <2>3 DEF Drains, StillFrozen, InList
    <3>1. o \in c.waits
      BY <1>1 DEF ThreadWork, Drains
    <3> QED
      BY <2>1, <3>1
  <2>8. Closes(t)'
    <3>1. c.kind = "free" =>
            /\ vbar[c.vbar].state = "closing"
            /\ \A u \in Threads \ {t} : call'[u].vbar = c.vbar => call'[u].kind = "model"
      <4>1. \A u \in Threads \ {t} : call'[u] = call[u]
        BY <1>1, <1>6 DEF Synchronized
      <4> QED
        BY <1>1, <4>1 DEF ThreadWork, Closes
    <3>2. ASSUME d.pc = "recheck", NEW p \in Pages, p[1] = c.vbar
          PROVE  page[p].pin = 0 /\ ~Held(page[p]) /\ \A o \in inflight : p \notin o.pages
      <4>1. /\ page[p].pin = 0 /\ ~Held(page[p])
            /\ \A o \in inflight : p \in o.pages => o \in c.waits
        BY <1>1, <2>4, <3>2 DEF ThreadWork, Closes
      <4> QED
        BY <2>1, <4>1
    <3> QED
      BY <2>2, <2>3, <2>4, <3>1, <3>2 DEF Closes
  <2> QED
    BY <2>3, <2>4, <2>5, <2>6, <2>7, <2>8 DEF Moves, Consumes, StaysOn, ThreadWork
<1>7. CASE SynchronizeFails(t)
  <2>1. d = Stopped(c, c.need) /\ c.pc \in {"sync", "drain", "redrain"}
    BY <1>1, <1>7 DEF SynchronizeFails
  <2> QED
    BY <1>2, <2>1
<1>8. ASSUME NEW need, NEW keep, Pressure(t, need, keep) PROVE Moves(t)
  <2>1. d = IF async THEN Reclaim(NoCall, need, keep, "idle")
            ELSE [NoCall EXCEPT !.pc = "freeze", !.kind = "reference", !.need = need, !.keep = keep]
    BY <1>1, <1>8 DEF Pressure
  <2>2. IsCall(NoCall)
    BY NoCallOK DEF CallOK
  <2>3. CASE async
    BY <2>1, <2>2, <2>3, ReclaimPlain, NoCallPlain DEF Moves, Consumes, StaysOn
  <2>4. CASE ~async
    <3>1. d = [NoCall EXCEPT !.pc = "freeze", !.kind = "reference", !.need = need, !.keep = keep]
      BY <2>1, <2>4
    <3>2. d.pc = "freeze" /\ d.kind = "reference" /\ d.vbar = NoVbar
      BY <2>2, <3>1, NoCallPlain DEF IsCall, CallFields
    <3> QED
      BY <3>2 DEF Moves, Consumes, Plain, StaysOn
  <2> QED
    BY <2>3, <2>4
<1>9. ASSUME NEW v \in Vbars, NEW n, SetWatermark(t, v, n) \/ FreeMemory(t, v, n) PROVE Moves(t)
  <2>1. d = NoCall \/ \E first, last, need : d = FreeRange(v, first, last, need)
    BY <1>1, <1>9 DEF SetWatermark, FreeMemory
  <2>2. Usable(v)
    BY <1>9 DEF SetWatermark, FreeMemory
  <2>3. ASSUME NEW first, NEW last, NEW need
        PROVE  LET e == FreeRange(v, first, last, need) IN
               e.pc = "freeze" /\ e.kind = "model" /\ e.vbar = v
    BY DEF FreeRange, NoCall
  <2> QED
    BY <2>1, <2>2, <2>3, NoCallPlain DEF Moves, Consumes, Plain, StaysOn, Usable
<1> QED
  BY <1>3, <1>4, <1>5, <1>6, <1>7, <1>8, <1>9 DEF ReclaimNext

\* A fault relies on nothing, on its way and when it returns.
LEMMA FaultWork ==
    ASSUME WorkInv, VbarAssumption, NEW t \in Threads, FaultNext(t)
    PROVE  Moves(t)
<1> DEFINE c == call[t]
           d == call'[t]
<1>1. Acts(t) /\ IsCall(c) /\ DOMAIN call = Threads
  <2>1. Acts(t)
    BY ThreadActs DEF WorkInv, VbarInv
  <2> QED
    BY <2>1 DEF Acts, CallOK
<1>2. IsCall(NoCall)
  BY NoCallOK DEF CallOK
<1>3. ASSUME d = NoCall PROVE Moves(t)
  BY <1>3, NoCallPlain DEF Moves, Consumes, StaysOn
<1>4. ASSUME AtPage(t), Plain(d), d.vbar = c.vbar PROVE Moves(t)
  <2>1. c.kind = "none"
    BY <1>1, <1>4 DEF AtPage, Acts, CallOK, Reclaims, Closing
  <2> QED
    BY <1>4, <2>1 DEF Moves, Consumes, StaysOn
<1>5. ASSUME AtPage(t), d = Advanced(c) PROVE Moves(t)
  <2>1. d.pc = "page" /\ d.vbar = c.vbar
    BY <1>1, <1>5 DEF AtPage, Advanced, IsCall, CallFields
  <2> QED
    BY <1>4, <1>5, <2>1 DEF Plain
<1>6. ASSUME AtPage(t), NEW a, IsCall(a), a.vbar = c.vbar, a.pc = "page", Retries(a, d) PROVE Moves(t)
  <2>1. CASE d = a
    BY <1>4, <1>6, <2>1 DEF Plain
  <2>2. ASSUME NEW need, NEW keep, d = Reclaim(a, need, keep, "page") PROVE Moves(t)
    BY <1>4, <1>6, <2>2, ReclaimPlain
  <2> QED
    BY <1>6, <2>1, <2>2 DEF Retries
<1>7. ASSUME NEW v \in Vbars, NEW first, NEW last, NEW deficit, Fault(t, v, first, last, deficit)
      PROVE  Moves(t)
  <2> DEFINE start == [NoCall EXCEPT !.vbar = v, !.first = first, !.last = last]
  <2>1. d = Reclaim(start, deficit, NoVbar, "enter") /\ Usable(v)
    BY <1>1, <1>7 DEF Fault
  <2>2. IsCall(start) /\ start.vbar = v
    BY <1>2 DEF IsCall, CallFields
  <2> HIDE DEF start
  <2>3. Plain(d) /\ d.vbar = v
    BY <2>1, <2>2, ReclaimPlain
  <2> QED
    BY <2>1, <2>3 DEF Moves, Consumes, StaysOn, Usable
<1>8. ASSUME NEW fits, EnterFault(t, fits) PROVE Moves(t)
  <2>1. /\ c.pc = "enter"
        /\ d = NoCall \/ d = [c EXCEPT !.pc = "page", !.at = c.first]
    BY <1>1, <1>8 DEF EnterFault
  <2>2. c.kind = "none"
    BY <1>1, <2>1 DEF Acts, CallOK, Reclaims, Closing
  <2>3. CASE d = [c EXCEPT !.pc = "page", !.at = c.first]
    <3>1. d.pc = "page" /\ d.vbar = c.vbar
      BY <1>1, <2>3 DEF IsCall, CallFields
    <3> QED
      BY <2>2, <3>1 DEF Moves, Consumes, Plain, StaysOn
  <2> QED
    BY <1>3, <2>1, <2>3
<1>9. CASE FaultHit(t)
  BY <1>1, <1>5, <1>9 DEF FaultHit
<1>10. CASE FaultUnknown(t)
  BY <1>1, <1>3, <1>10 DEF FaultUnknown, GiveUp
<1>11. CASE FaultRestore(t)
  <2>1. AtPage(t) /\ (d = Advanced(c) \/ d = NoCall)
    BY <1>1, <1>11 DEF FaultRestore, GiveUp
  <2> QED
    BY <1>3, <1>5, <2>1
<1>12. CASE FaultMiss(t)
  <2> DEFINE a == [c EXCEPT !.tries = 1, !.checked = TRUE]
  <2>1. AtPage(t) /\ Retries(a, d)
    BY <1>1, <1>12 DEF FaultMiss, Retries
  <2>2. IsCall(a) /\ a.vbar = c.vbar /\ a.pc = "page"
    BY <1>1, <2>1 DEF AtPage, IsCall, CallFields
  <2> HIDE DEF a
  <2> QED
    BY <1>6, <2>1, <2>2
<1>13. ASSUME NEW deficit, FaultMap(t, deficit) PROVE Moves(t)
  <2> DEFINE a == [c EXCEPT !.tries = @ + 1]
             After(need) == IF c.tries = 1 THEN Reclaim(a, need, c.vbar, "page")
                            ELSE Reclaim(a, ReclaimFloor, NoVbar, "page")
  <2>1. AtPage(t)
    BY <1>13 DEF FaultMap
  <2>2. \/ \E need : call' = [call EXCEPT ![t] = After(need)]
        \/ call' = [call EXCEPT ![t] = Advanced(@)]
        \/ call' = [call EXCEPT ![t] = NoCall]
    <3>1. CASE deficit > 0
      BY <1>13, <3>1 DEF FaultMap
    <3>2. CASE ~(deficit > 0)
      BY <1>13, <3>2 DEF FaultMap, GiveUp
    <3> QED
      BY <3>1, <3>2
  <2>3. IsCall(a) /\ a.vbar = c.vbar /\ a.pc = "page"
    BY <1>1, <2>1 DEF AtPage, IsCall, CallFields
  <2>4. ASSUME NEW need, call' = [call EXCEPT ![t] = After(need)] PROVE Moves(t)
    <3>1. d = After(need)
      BY <1>1, <2>4
    <3>2. Retries(a, d)
      BY <3>1 DEF Retries
    <3> HIDE DEF a
    <3> QED
      BY <1>6, <2>1, <2>3, <3>2
  <2> HIDE DEF a, After
  <2>5. CASE call' = [call EXCEPT ![t] = Advanced(@)]
    BY <1>1, <1>5, <2>1, <2>5
  <2>6. CASE call' = [call EXCEPT ![t] = NoCall]
    BY <1>1, <1>3, <2>6
  <2> QED
    BY <2>2, <2>4, <2>5, <2>6
<1>14. CASE ReturnFault(t)
  BY <1>1, <1>3, <1>14 DEF ReturnFault
<1> QED
  BY <1>7, <1>8, <1>9, <1>10, <1>11, <1>12, <1>13, <1>14 DEF FaultNext

\* A consumer takes a token of the one queue that still has its work.
LEMMA ConsumerWork ==
    ASSUME WorkInv, VbarAssumption, [Next]_vars, NEW t \in Threads, ConsumerNext(t)
    PROVE  Fits(t)
<1> DEFINE c == call[t]
           d == call'[t]
<1>1. DOMAIN call = Threads
  BY DEF WorkInv, VbarInv, TypesOK
<1>2. ASSUME d = NoCall PROVE Fits(t)
  BY <1>2, NoCallPlain DEF Fits, StaysOn
<1>3. ASSUME NEW own, NEW q, Submit(t, own, q) PROVE d = NoCall
  BY <1>3 DEF Submit
<1>4. CASE Register(t) \/ Unpin(t) \/ Release(t)
  <2>1. call' = [call EXCEPT ![t] = NoCall]
    BY <1>4 DEF Register, Unpin, Release
  <2> QED
    BY <1>1, <1>2, <2>1
<1>5. ASSUME NEW R, Acquire(t, R) PROVE d = NoCall
  BY <1>5 DEF Acquire
<1>6. ASSUME NEW pc \in Consumes, NEW q, TakeToken(t, pc, q) PROVE Fits(t)
  <2>1. /\ c = NoCall /\ call' = [call EXCEPT ![t].pc = pc, ![t].token = TokenOf(q)]
        /\ lease' = lease /\ hold' = hold
    BY <1>6 DEF TakeToken, owners
  <2>2. IsCall(NoCall) /\ NoCall.candidates = {}
    BY NoCallOK DEF CallOK, NoCall
  <2>3. d = [NoCall EXCEPT !.pc = pc, !.token = TokenOf(q)]
    BY <1>1, <2>1
  <2>4. /\ d.pc = pc /\ d.token = TokenOf(q) /\ d.kind = "none" /\ d.vbar = NoVbar
        /\ d.candidates = {}
    BY <2>2, <2>3, NoCallPlain DEF IsCall, CallFields
  <2>5. TokenOf(q).queue = q
    BY DEF TokenOf
  <2>6. NamesQueue(t)'
    <3>1. pc = "unpin" /\ q # NoQueue => lease[t].queues \subseteq {q}
      BY <1>6 DEF TakeToken
    <3>2. pc = "release" /\ q # NoQueue => hold[t].queues \subseteq {q}
      BY <1>6 DEF TakeToken
    <3> QED
      BY <2>1, <2>4, <2>5, <3>1, <3>2 DEF NamesQueue
  <2>7. SeesFrontier(t)' /\ Drains(t)' /\ Closes(t)'
    BY <1>6, <2>4 DEF SeesFrontier, Drains, Closes, Consumes
  <2> QED
    BY <2>4, <2>6, <2>7 DEF Fits, StaysOn, ThreadWork
<1> QED
  BY <1>2, <1>3, <1>4, <1>5, <1>6 DEF ConsumerNext, Consumes

\* vbar_free drains twice, and looks for owners in between.
LEMMA FreeWork ==
    ASSUME WorkInv, VbarAssumption, [Next]_vars, NEW t \in Threads, FreeNext(t)
    PROVE  Moves(t)
<1> DEFINE c == call[t]
           d == call'[t]
<1>1. /\ VbarInv /\ TypesOK /\ CallsOK /\ PagesOK /\ Acts(t) /\ IsCall(c) /\ CallOK(c, lock = t)
      /\ ThreadWork(t) /\ DOMAIN call = Threads /\ Only(t)
  <2>1. VbarInv /\ TypesOK /\ CallsOK /\ PagesOK /\ ThreadWork(t) /\ DOMAIN call = Threads
    BY DEF WorkInv, VbarInv, TypesOK
  <2>2. Acts(t) /\ Only(t)
    BY <2>1, ThreadActs, MineStep DEF Mine
  <2> QED
    BY <2>1, <2>2 DEF Acts, CallOK
<1>2. ASSUME d = NoCall PROVE Moves(t)
  BY <1>2, NoCallPlain DEF Moves, Consumes, StaysOn
<1>3. call'[t].candidates = {} /\ call[t].candidates = {}
  BY <1>1, OthersAtNoPage
<1>4. ASSUME d.kind = "free", d.vbar = c.vbar, c.kind = "free", StatesSame, d.pc \in Closing,
             d.pc \in {"redrain", "recheck", "teardown"} =>
                \A p \in Pages : p[1] = c.vbar =>
                   /\ page'[p].pin = 0 /\ ~Held(page'[p])
                   /\ \A o \in inflight' : p \in o.pages => d.pc = "redrain" /\ o \in d.waits
      PROVE  Moves(t)
  <2>1. c.vbar \in Vbars
    BY <1>1, <1>4 DEF CallOK
  <2>2. /\ vbar'[c.vbar].state = "closing"
        /\ \A u \in Threads \ {t} : call'[u].vbar = c.vbar => call'[u].kind = "model"
    BY <1>1, <1>4, <2>1 DEF ThreadWork, Closes, StatesSame, Only
  <2>3. Closes(t)'
    BY <1>4, <2>2 DEF Closes
  <2>4. NamesQueue(t)' /\ SeesFrontier(t)' /\ Drains(t)'
    BY <1>3, <1>4 DEF NamesQueue, SeesFrontier, Drains, Closing
  <2> QED
    BY <1>4, <2>3, <2>4 DEF Moves, Consumes, Closing, StaysOn, ThreadWork
<1>5. ASSUME NEW v \in Vbars, Free(t, v) PROVE Moves(t)
  <2>1. /\ \A u \in Threads : call[u].vbar = v => call[u].kind = "model"
        /\ vbar' = [vbar EXCEPT ![v].state = "closing"]
        /\ d = [NoCall EXCEPT !.pc = "drain", !.kind = "free", !.vbar = v, !.waits = inflight]
    BY <1>1, <1>5 DEF Free
  <2>2. d.pc = "drain" /\ d.kind = "free" /\ d.vbar = v
    BY <2>1, NoCallOK DEF CallOK, IsCall, CallFields
  <2>3. vbar'[v].state = "closing"
    BY <1>1, <2>1 DEF TypesOK, VbarsOK, VbarFields
  <2>4. Closes(t)'
    BY <1>1, <2>1, <2>2, <2>3 DEF Closes, Only
  <2>5. NamesQueue(t)' /\ SeesFrontier(t)' /\ Drains(t)'
    BY <1>3, <2>2 DEF NamesQueue, SeesFrontier, Drains
  <2> QED
    BY <2>1, <2>2, <2>4, <2>5 DEF Moves, Consumes, StaysOn, ThreadWork
<1>6. CASE CheckFree(t)
  <2> DEFINE e == [c EXCEPT !.pc = "redrain", !.waits = inflight]
  <2>1. /\ c.pc = "check" /\ UNCHANGED <<page, vbar, inflight>>
        /\ \/ d = NoCall
           \/ d = e /\ \A n \in 1..NPages : ~Busy(c.vbar, n)
    BY <1>1, <1>6 DEF CheckFree, memory, device
  <2>2. CASE d = e /\ \A n \in 1..NPages : ~Busy(c.vbar, n)
    <3>1. d.pc = "redrain" /\ d.waits = inflight /\ d.kind = c.kind /\ d.vbar = c.vbar
      BY <1>1, <2>2 DEF IsCall, CallFields
    <3>2. c.kind = "free"
      BY <1>1, <2>1 DEF CallOK, Closing
    <3>3. ASSUME NEW p \in Pages, p[1] = c.vbar PROVE page[p].pin = 0 /\ ~Held(page[p])
      <4>1. p = <<c.vbar, p[2]>> /\ p[2] \in 1..NPages /\ IsPage(page[p])
        BY <1>1, <3>3 DEF Pages, PagesOK
      <4>2. ~Busy(c.vbar, p[2])
        BY <2>2, <4>1
      <4> QED
        BY <4>1, <4>2 DEF Busy, IsPage
    <3> QED
      BY <1>4, <2>1, <3>1, <3>2, <3>3 DEF StatesSame, Closing
  <2> QED
    BY <1>2, <2>1, <2>2
<1>7. CASE BeginTeardown(t)
  <2>1. /\ c.pc = "recheck" /\ UNCHANGED <<page, vbar, inflight>>
        /\ d = [c EXCEPT !.pc = "teardown", !.at = 1]
    BY <1>1, <1>7 DEF BeginTeardown, memory, device
  <2>2. d.pc = "teardown" /\ d.kind = c.kind /\ d.vbar = c.vbar
    BY <1>1, <2>1 DEF IsCall, CallFields
  <2>3. c.kind = "free"
    BY <1>1, <2>1 DEF CallOK, Closing
  <2>4. \A p \in Pages : p[1] = c.vbar =>
           page[p].pin = 0 /\ ~Held(page[p]) /\ \A o \in inflight : p \notin o.pages
    BY <1>1, <2>1 DEF ThreadWork, Closes
  <2> QED
    BY <1>4, <2>1, <2>2, <2>3, <2>4 DEF StatesSame, Closing
<1>8. CASE TeardownPage(t)
  <2> DEFINE q == <<c.vbar, c.at>>
  <2>1. /\ c.pc = "teardown" /\ inflight' = inflight
        /\ d = NoCall \/ d = [c EXCEPT !.at = @ + 1]
    <3>1. call' = [call EXCEPT ![t] = NoCall] \/ call' = [call EXCEPT ![t].at = @ + 1]
      BY <1>8 DEF TeardownPage
    <3> QED
      BY <1>1, <1>8, <3>1 DEF TeardownPage, device
  <2>2. CASE d = [c EXCEPT !.at = @ + 1]
    <3>1. d.pc = "teardown" /\ d.kind = c.kind /\ d.vbar = c.vbar
      BY <1>1, <2>1, <2>2 DEF IsCall, CallFields
    <3>2. c.kind = "free"
      BY <1>1, <2>1 DEF CallOK, Closing
    <3>3. \A p \in Pages : p[1] = c.vbar =>
             page[p].pin = 0 /\ ~Held(page[p]) /\ \A o \in inflight : p \notin o.pages
      BY <1>1, <2>1 DEF ThreadWork, Closes
    <3>4. \A p \in Pages : SameOwners(page[p], page'[p])
      <4>1. /\ \A p \in Pages \ {q} : page'[p] = page[p]
            /\ SameOwners(page[q], page'[q])
        BY <1>1, <1>8, TeardownPages
      <4> HIDE DEF q
      <4> QED
        BY <4>1 DEF SameOwners
    <3>5. StatesSame
      BY <1>1, <1>8, StatesStay
    <3>6. \A p \in Pages : p[1] = c.vbar => page'[p].pin = 0 /\ ~Held(page'[p])
      BY <3>3, <3>4 DEF SameOwners, Held
    <3> QED
      BY <1>4, <2>1, <3>1, <3>2, <3>3, <3>5, <3>6 DEF Closing
  <2> QED
    BY <1>2, <2>1, <2>2
<1>9. ASSUME NEW refused, EndTeardown(t, refused) PROVE d = NoCall
  BY <1>1, <1>9 DEF EndTeardown
<1> QED
  BY <1>2, <1>5, <1>6, <1>7, <1>8, <1>9 DEF FreeNext

\* A thread that moves on fits its call and promises nothing.
LEMMA MovesFits ==
    ASSUME NEW t \in Threads, Moves(t)
    PROVE  Fits(t) /\ call'[t].pc \notin Consumes
<1>1. Plain(call'[t]) => call'[t].pc \notin Consumes
  BY DEF Plain, Consumes
<1> QED
  BY <1>1 DEF Moves, Fits

-----------------------------------------------------------------------------
(* Every step.                                                               *)

\* What the calls of the threads rely on holds after each step.
LEMMA ThreadsWork ==
    ASSUME WorkInv, VbarAssumption, [Next]_vars
    PROVE  \A t \in Threads : ThreadWork(t)'
<1>1. TypesOK /\ CallsOK /\ CallsOK' /\ VbarInv
  BY VbarStep DEF WorkInv, VbarInv
<1>2. ASSUME UNCHANGED <<call, lease, hold>> PROVE \A u \in Threads : ThreadWork(u)'
  <2>1. \A x \in Threads : StaysOn(call[x], call'[x])
    BY <1>2 DEF StaysOn
  <2> QED
    BY <1>2, <2>1, OthersWork
<1>3. CASE ListNext \/ LimitNext \/ Quiet \/ UNCHANGED vars \/ \E o \in inflight : Finish(o)
  BY <1>2, <1>3 DEF ListNext, LimitNext, Allocate, Prioritize, Deprioritize, CopyAcquire, CopyRelease,
     SetLimit, Quiet, vars, owners, Finish
<1>4. ASSUME NEW t \in Threads, ReclaimNext(t) \/ FaultNext(t) \/ ConsumerNext(t) \/ FreeNext(t)
      PROVE  \A u \in Threads : ThreadWork(u)'
  <2>1. Mine(t)
    BY <1>1, <1>4, MineStep
  <2>2. Fits(t)
    BY <1>4, ReclaimWork, FaultWork, ConsumerWork, FreeWork, MovesFits
  <2>3. \A x \in Threads : StaysOn(call[x], call'[x])
    <3>1. \A x \in Threads \ {t} : call'[x] = call[x]
      BY <2>1 DEF Mine, Only
    <3> QED
      BY <2>2, <3>1 DEF Fits, StaysOn
  <2>4. ASSUME NEW u \in Threads \ {t} PROVE ThreadWork(u)'
    <3>1. call'[u] = call[u] /\ lease'[u] = lease[u] /\ hold'[u] = hold[u]
      BY <2>1 DEF Mine, Only
    <3> QED
      BY <2>3, <3>1, OthersWork
  <2>5. ThreadWork(t)'
    BY <1>1, <2>2, PlainWork DEF Fits
  <2> QED
    BY <2>4, <2>5
<1> QED
  BY <1>3, <1>4 DEF Next

\* The pages of work are mapped, and neither a commit nor a teardown touches them.
LEMMA WorkStays ==
    ASSUME WorkInv, VbarAssumption, [Next]_vars, NEW o \in inflight', NEW p \in o.pages
    PROVE  /\ p \in Pages /\ IsPage(page[p]) /\ IsMapped(page[p])
           /\ Keeps(page[p], page'[p])
<1>1. VbarInv /\ TypesOK /\ CallsOK /\ PagesOK /\ NewWork
  BY NewWorkStep DEF WorkInv, VbarInv, TypesOK
<1>2. p \in Pages /\ IsMapped(page[p])
  <2>1. CASE o \in inflight
    BY <1>1, <2>1 DEF WorkInv, WorkOK, WorkIsBacked, TypesOK, DeviceOK, Operators
  <2>2. CASE o \notin inflight
    BY <1>1, <2>2 DEF NewWork
  <2> QED
    BY <2>1, <2>2
<1>3. ASSUME ~Owned(page[p]) PROVE o \in inflight
  BY <1>1, <1>3 DEF NewWork
<1>4. ASSUME NEW t \in Threads, Commits(t, p) PROVE FALSE
  <2>1. PICK k \in call[t].candidates : Current(k) /\ k.page = p
    BY <1>4 DEF Commits, Freed
  <2>2. ~Owned(page[p]) /\ StillFrozen(k)
    BY <2>1 DEF Current, Owned
  <2>3. o \in inflight
    BY <1>3, <2>2
  <2>4. call[t].pc = "sync"
    BY <2>1, <2>2, <2>3 DEF WorkInv, ThreadWork, Drains
  <2> QED
    BY <1>4, <2>4 DEF Commits, Commit
<1>5. ASSUME NEW t \in Threads, TearsDown(t, p) PROVE FALSE
  <2>1. call[t].pc = "teardown" /\ p[1] = call[t].vbar
    BY <1>5 DEF TearsDown, TeardownPage
  <2>2. page[p].pin = 0 /\ ~Held(page[p]) /\ o \notin inflight
    BY <1>2, <2>1 DEF WorkInv, ThreadWork, Closes
  <2> QED
    BY <1>3, <2>2 DEF Owned
<1> QED
  BY <1>1, <1>2, <1>4, <1>5, MappingsStay DEF PagesOK

-----------------------------------------------------------------------------
(* Submitted work stays known.                                               *)

\* A range still covers its work if it is left alone and nothing is promised anew.
LEMMA CoverStays ==
    ASSUME NEW t \in Threads, NEW o, NEW p, Covers(t, o, p),
           lease'[t] = lease[t], hold'[t] = hold[t],
           call'[t] = call[t] \/ call'[t].pc \notin Consumes
    PROVE  Covers(t, o, p)'
BY DEF Covers, Promised, Consumes

\* Nobody's range covers nothing.
LEMMA NoRangeCovers ==
    ASSUME NEW t \in Threads, NEW o, NEW p, Covers(t, o, p)
    PROVE  \/ /\ lease[t] # NoRange /\ p \in RangePages(lease[t]) /\ o.queue \in lease[t].queues
              /\ Promised(t, {"register", "unpin"}, o) => o.n <= call[t].token.upto
           \/ /\ hold[t] # NoRange /\ p \in RangePages(hold[t]) /\ o.queue \in hold[t].queues
              /\ Promised(t, {"release"}, o) => o.n <= call[t].token.upto
BY NoRangeOK DEF Covers

\* What is known of a page stays known.
LEMMA KnownStays ==
    ASSUME WorkInv, VbarAssumption, [Next]_vars, NEW o \in inflight', NEW p \in o.pages,
           page[p].unknown \/ page[p].tokens[o.queue] >= o.n
    PROVE  Protects(o, p)'
<1>1. IsPage(page[p]) /\ Keeps(page[p], page'[p]) /\ p \in Pages
  BY WorkStays
<1>2. PagesOK' /\ DeviceOK'
  BY VbarStep DEF WorkInv, VbarInv, TypesOK
<1>3. IsPage(page'[p]) /\ o.queue \in Queues /\ o.n \in Nat
  BY <1>1, <1>2 DEF PagesOK, DeviceOK, Operators
<1>4. page'[p].unknown \/ page'[p].tokens[o.queue] >= o.n
  BY <1>1, <1>3 DEF Keeps, IsPage
<1> QED
  BY <1>4 DEF Protects

\* A page that a consumer leaves behind knows its work: it is in use for ever, or
\* its token is not older than the consumer's.
LEMMA DependsKnows ==
    ASSUME NEW r, IsPage(r), NEW token \in TokenRecords, async
    PROVE  /\ token.queue = NoQueue /\ r.capture = 0 => Depends(r, token).unknown
           /\ token.queue # NoQueue => Depends(r, token).tokens[token.queue] >= token.upto
<1> DEFINE s == Canceled(r)
<1>1. IsPage(s)
  BY CanceledPage
<1>2. CASE token.queue = NoQueue /\ r.capture = 0
  <2>1. Depends(r, token) = [s EXCEPT !.unknown = TRUE]
    BY <1>2 DEF Depends
  <2> HIDE DEF s
  <2> QED
    BY <1>1, <1>2, <2>1 DEF IsPage, PageFields
<1>3. CASE token.queue # NoQueue
  <2>1. Depends(r, token) = Recorded(s, token)
    BY <1>3 DEF Depends
  <2>2. token.queue \in Queues /\ token.upto \in Nat
    BY <1>3 DEF TokenRecords
  <2> HIDE DEF s
  <2>3. CASE token.upto > s.tokens[token.queue]
    <3> DEFINE T == [s.tokens EXCEPT ![token.queue] = token.upto]
    <3>1. T[token.queue] = token.upto
      BY <1>1, <2>2 DEF IsPage
    <3>2. Recorded(s, token) = [s EXCEPT !.tokens = T]
      BY <1>1, <2>3 DEF IsPage, PageFields, Recorded
    <3> HIDE DEF T
    <3> QED
      BY <1>1, <1>3, <2>1, <2>2, <3>1, <3>2 DEF IsPage, PageFields
  <2>4. CASE ~(token.upto > s.tokens[token.queue])
    BY <1>1, <1>3, <2>1, <2>2, <2>4 DEF Recorded, IsPage
  <2> QED
    BY <2>3, <2>4
<1> QED
  BY <1>2, <1>3

\* Counting pins and holds changes nothing that is known of consumers.
LEMMA WithHoldsKnows ==
    ASSUME NEW r, IsPage(r), NEW kind, NEW n
    PROVE  /\ WithHolds(r, kind, n).unknown = r.unknown /\ WithHolds(r, kind, n).tokens = r.tokens
           /\ [r EXCEPT !.pin = n].unknown = r.unknown /\ [r EXCEPT !.pin = n].tokens = r.tokens
BY DEF WithHolds, IsPage, PageFields

\* Without capture holds no page is held for a capture.
LEMMA NoCaptures ==
    ASSUME VbarInv, VbarAssumption, "capture" \notin HoldKinds, NEW p \in Pages
    PROVE  page[p].capture = 0
<1>1. \A t \in Threads : p \in RangePages(hold[t]) => hold[t].kind = "external"
  BY DEF VbarInv, TypesOK, RangesOK, VbarAssumption
<1>2. Inner(p) = {}
  BY <1>1 DEF Inner, Inside
<1> QED
  BY <1>2, FS_EmptySet DEF VbarInv, PinsOK

\* The work of a thread that submits, or takes a token, is covered by its range.
LEMMA SubmitCovers ==
    ASSUME WorkInv, VbarAssumption, NEW t \in Threads, NEW own \in {"lease", "hold"},
           NEW q \in Queues, Submit(t, own, q), NEW o \in inflight', NEW p \in o.pages,
           o \in inflight => Covers(t, o, p)
    PROVE  Covers(t, o, p)'
<1> DEFINE R == Lease(own, t)
           new == [queue |-> q, n |-> submitted[q] + 1, pages |-> RangePages(R)]
<1>1. /\ inflight' = inflight \cup {new} /\ call'[t] = NoCall
      /\ Used(own, t, R.queues \cup {q})
  BY DEF Submit
<1>2. RangesOK
  BY DEF WorkInv, VbarInv, TypesOK
<1>3. call'[t].pc \notin {"register", "unpin", "release"}
  BY <1>1 DEF NoCall
<1>4. CASE own = "lease"
  <2>1. lease' = [lease EXCEPT ![t].queues = lease[t].queues \cup {q}] /\ hold' = hold /\ R = lease[t]
    BY <1>1, <1>4 DEF Used, Lease
  <2>2. /\ lease'[t].queues = lease[t].queues \cup {q}
        /\ RangePages(lease'[t]) = RangePages(lease[t])
    BY <1>2, <2>1 DEF RangesOK, IsRange, RangeFields, RangePages
  <2>3. CASE o \in inflight
    BY <1>3, <2>1, <2>2, <2>3 DEF Covers, Promised
  <2>4. CASE o \notin inflight
    <3>1. o.queue = q /\ o.pages = RangePages(lease[t])
      BY <1>1, <2>1, <2>4
    <3> QED
      BY <1>3, <2>2, <3>1 DEF Covers, Promised
  <2> QED
    BY <2>3, <2>4
<1>5. CASE own = "hold"
  <2>1. hold' = [hold EXCEPT ![t].queues = hold[t].queues \cup {q}] /\ lease' = lease /\ R = hold[t]
    BY <1>1, <1>5 DEF Used, Lease
  <2>2. /\ hold'[t].queues = hold[t].queues \cup {q}
        /\ RangePages(hold'[t]) = RangePages(hold[t])
    BY <1>2, <2>1 DEF RangesOK, IsRange, RangeFields, RangePages
  <2>3. CASE o \in inflight
    BY <1>3, <2>1, <2>2, <2>3 DEF Covers, Promised
  <2>4. CASE o \notin inflight
    <3>1. o.queue = q /\ o.pages = RangePages(hold[t])
      BY <1>1, <2>1, <2>4
    <3> QED
      BY <1>3, <2>2, <3>1 DEF Covers, Promised
  <2> QED
    BY <2>3, <2>4
<1> QED
  BY <1>4, <1>5

\* A token stands for everything submitted to its queue before.
LEMMA TakeTokenCovers ==
    ASSUME WorkInv, VbarAssumption, NEW t \in Threads, NEW pc, NEW q,
           TakeToken(t, pc, q), NEW o \in inflight, NEW p, Covers(t, o, p)
    PROVE  Covers(t, o, p)'
<1>1. /\ call' = [call EXCEPT ![t].pc = pc, ![t].token = TokenOf(q)] /\ call[t] = NoCall
      /\ lease' = lease /\ hold' = hold
  BY DEF TakeToken, owners
<1>2. IsCall(call[t]) /\ DOMAIN call = Threads /\ DeviceOK
  BY DEF WorkInv, VbarInv, TypesOK, CallsOK, CallOK
<1>3. call'[t].token = TokenOf(q)
  BY <1>1, <1>2 DEF IsCall, CallFields
<1>4. o.queue \in Queues /\ o.queue # NoQueue /\ o.n <= submitted[o.queue]
  BY <1>2 DEF DeviceOK, Operators, VbarAssumption
<1>5. TokenOf(q).queue = o.queue => o.n <= TokenOf(q).upto
  BY <1>4 DEF TokenOf
<1> QED
  BY <1>1, <1>3, <1>5 DEF Covers, Promised

\* A consumer that is registered, unpinned or released leaves its work on record.
LEMMA RegisterProtects ==
    ASSUME WorkInv, VbarAssumption, async, NEW t \in Threads, Register(t),
           NEW o \in inflight, NEW p \in o.pages, Covers(t, o, p)
    PROVE  Protects(o, p)'
<1> DEFINE token == call[t].token
<1>1. /\ VbarInv /\ PagesOK /\ RangesOK /\ DeviceOK /\ DOMAIN call = Threads /\ Acts(t)
      /\ token \in TokenRecords
  <2>1. VbarInv /\ PagesOK /\ RangesOK /\ DeviceOK /\ DOMAIN call = Threads
    BY DEF WorkInv, VbarInv, TypesOK
  <2>2. Acts(t)
    BY <2>1, ThreadActs DEF VbarInv
  <2> QED
    BY <2>1, <2>2 DEF Register, Acts, CallOK, Consumes
<1>2. o.queue \in Queues /\ o.queue # NoQueue /\ o.n \in Nat /\ p \in Pages
  BY <1>1 DEF DeviceOK, Operators, VbarAssumption
<1>3. /\ call[t].pc = "register" /\ call'[t].pc = "idle"
      /\ lease' = [lease EXCEPT ![t].queues = @ \ {token.queue}] /\ hold' = hold
  <2>1. call' = [call EXCEPT ![t] = NoCall]
    BY DEF Register
  <2> QED
    BY <1>1, <2>1, NoCallPlain DEF Register
<1>4. CASE p \in RangePages(hold[t]) /\ o.queue \in hold[t].queues
  BY <1>3, <1>4 DEF Protects, Covers, Promised
<1>5. CASE /\ p \in RangePages(lease[t]) /\ o.queue \in lease[t].queues
           /\ Promised(t, {"register", "unpin"}, o) => o.n <= token.upto
  <2>1. CASE o.queue # token.queue
    <3>1. /\ o.queue \in lease'[t].queues
          /\ RangePages(lease'[t]) = RangePages(lease[t])
      BY <1>1, <1>3, <1>5, <2>1 DEF RangesOK, IsRange, RangeFields, RangePages
    <3> QED
      BY <1>3, <1>5, <3>1 DEF Protects, Covers, Promised
  <2>2. CASE o.queue = token.queue
    <3>1. o.n <= token.upto /\ token.upto \in Nat
      BY <1>1, <1>3, <1>5, <2>2 DEF Promised, TokenRecords
    <3>2. IsMapped(page[p]) /\ page[p].pin > 0 /\ IsPage(page[p])
      BY <1>1, <1>2, <1>5, RangesOwn DEF PagesOK
    <3>3. page'[p] = Depends(page[p], token)
      BY <1>2, <1>5, <3>2 DEF Register
    <3>4. Depends(page[p], token).tokens[token.queue] >= token.upto
      BY <1>1, <1>2, <2>2, <3>2, DependsKnows
    <3>5. IsPage(Depends(page[p], token))
      BY <1>1, <3>2, DependsPage
    <3>6. page'[p].tokens[o.queue] >= o.n
      BY <1>2, <2>2, <3>1, <3>3, <3>4, <3>5 DEF IsPage
    <3> QED
      BY <3>6 DEF Protects
  <2> QED
    BY <2>1, <2>2
<1> QED
  BY <1>4, <1>5 DEF Covers

\* An unpin leaves the token, or an unknown consumer, on every page of the lease.
LEMMA UnpinProtects ==
    ASSUME WorkInv, VbarAssumption, async, "capture" \notin HoldKinds, NEW t \in Threads, Unpin(t),
           NEW o \in inflight, NEW p \in o.pages, Covers(t, o, p)
    PROVE  Protects(o, p)'
<1> DEFINE token == call[t].token
<1>1. /\ VbarInv /\ PagesOK /\ RangesOK /\ DeviceOK /\ DOMAIN call = Threads /\ Acts(t)
      /\ token \in TokenRecords /\ ThreadWork(t)
  <2>1. VbarInv /\ PagesOK /\ RangesOK /\ DeviceOK /\ DOMAIN call = Threads /\ ThreadWork(t)
    BY DEF WorkInv, VbarInv, TypesOK
  <2>2. Acts(t)
    BY <2>1, ThreadActs DEF VbarInv
  <2> QED
    BY <2>1, <2>2 DEF Unpin, Acts, CallOK, Consumes
<1>2. o.queue \in Queues /\ o.queue # NoQueue /\ o.n \in Nat /\ p \in Pages
  BY <1>1 DEF DeviceOK, Operators, VbarAssumption
<1>3. call[t].pc = "unpin" /\ call'[t].pc = "idle" /\ hold' = hold
  <2>1. call' = [call EXCEPT ![t] = NoCall]
    BY DEF Unpin
  <2> QED
    BY <1>1, <2>1, NoCallPlain DEF Unpin
<1>4. CASE p \in RangePages(hold[t]) /\ o.queue \in hold[t].queues
  BY <1>3, <1>4 DEF Protects, Covers, Promised
<1>5. CASE /\ p \in RangePages(lease[t]) /\ o.queue \in lease[t].queues
           /\ Promised(t, {"register", "unpin"}, o) => o.n <= token.upto
  <2> DEFINE d == Depends(page[p], token)
  <2>1. page[p].pin > 0 /\ IsPage(page[p]) /\ page[p].capture = 0
    BY <1>1, <1>2, <1>5, RangesOwn, NoCaptures DEF PagesOK
  <2>2. page'[p] = [d EXCEPT !.pin = d.pin - 1]
    BY <1>2, <1>5, <2>1 DEF Unpin
  <2>3. /\ token.queue = NoQueue => d.unknown
        /\ token.queue # NoQueue => d.tokens[token.queue] >= token.upto
    BY <1>1, <2>1, DependsKnows
  <2>4. IsPage(d)
    BY <1>1, <2>1, DependsPage
  <2> HIDE DEF d
  <2>5. page'[p].unknown = d.unknown /\ page'[p].tokens = d.tokens
    BY <2>2, <2>4, WithHoldsKnows
  <2>6. CASE token.queue = NoQueue
    BY <2>3, <2>5, <2>6 DEF Protects
  <2>7. CASE token.queue # NoQueue
    <3>1. o.queue = token.queue
      BY <1>1, <1>3, <1>5, <2>7 DEF ThreadWork, NamesQueue
    <3>2. o.n <= token.upto /\ token.upto \in Nat
      BY <1>1, <1>3, <1>5, <3>1 DEF Promised, TokenRecords
    <3>3. page'[p].tokens[o.queue] >= o.n
      BY <1>2, <2>3, <2>4, <2>5, <2>7, <3>1, <3>2 DEF IsPage
    <3> QED
      BY <3>3 DEF Protects
  <2> QED
    BY <2>6, <2>7
<1> QED
  BY <1>4, <1>5 DEF Covers

\* So does a release on every page of the hold.
LEMMA ReleaseProtects ==
    ASSUME WorkInv, VbarAssumption, async, NEW t \in Threads, Release(t),
           NEW o \in inflight, NEW p \in o.pages, Covers(t, o, p)
    PROVE  Protects(o, p)'
<1> DEFINE token == call[t].token
<1>1. /\ VbarInv /\ PagesOK /\ RangesOK /\ DeviceOK /\ DOMAIN call = Threads /\ Acts(t)
      /\ token \in TokenRecords /\ ThreadWork(t)
  <2>1. VbarInv /\ PagesOK /\ RangesOK /\ DeviceOK /\ DOMAIN call = Threads /\ ThreadWork(t)
    BY DEF WorkInv, VbarInv, TypesOK
  <2>2. Acts(t)
    BY <2>1, ThreadActs DEF VbarInv
  <2> QED
    BY <2>1, <2>2 DEF Release, Acts, CallOK, Consumes
<1>2. o.queue \in Queues /\ o.queue # NoQueue /\ o.n \in Nat /\ p \in Pages
  BY <1>1 DEF DeviceOK, Operators, VbarAssumption
<1>3. call[t].pc = "release" /\ call'[t].pc = "idle" /\ lease' = lease
  <2>1. call' = [call EXCEPT ![t] = NoCall]
    BY DEF Release
  <2> QED
    BY <1>1, <2>1, NoCallPlain DEF Release
<1>4. CASE p \in RangePages(lease[t]) /\ o.queue \in lease[t].queues
  BY <1>3, <1>4 DEF Protects, Covers, Promised
<1>5. CASE /\ p \in RangePages(hold[t]) /\ o.queue \in hold[t].queues
           /\ Promised(t, {"release"}, o) => o.n <= token.upto
  <2> DEFINE r == page[p]
             lost == [Canceled(r) EXCEPT !.unknown = TRUE]
             d == IF token.queue = NoQueue THEN lost ELSE Depends(r, token)
             n == Holds(r, hold[t].kind) - 1
  <2>1. IsPage(r)
    BY <1>1, <1>2 DEF PagesOK
  <2>2. page'[p] = WithHolds(d, hold[t].kind, n)
    BY <1>2, <1>5 DEF Release
  <2>3. /\ IsPage(d)
        /\ token.queue = NoQueue => d.unknown
        /\ token.queue # NoQueue => d.tokens[token.queue] >= token.upto
    <3>1. IsPage(Canceled(r))
      BY <2>1, CanceledPage
    <3>2. IsPage(lost) /\ lost.unknown
      BY <3>1 DEF IsPage, PageFields
    <3>3. /\ IsPage(Depends(r, token))
          /\ token.queue # NoQueue => Depends(r, token).tokens[token.queue] >= token.upto
      BY <1>1, <2>1, DependsPage, DependsKnows
    <3> HIDE DEF lost
    <3> QED
      BY <3>2, <3>3
  <2> HIDE DEF d, n
  <2>4. page'[p].unknown = d.unknown /\ page'[p].tokens = d.tokens
    BY <2>2, <2>3, WithHoldsKnows
  <2>5. CASE token.queue = NoQueue
    BY <2>3, <2>4, <2>5 DEF Protects
  <2>6. CASE token.queue # NoQueue
    <3>1. o.queue = token.queue
      BY <1>1, <1>3, <1>5, <2>6 DEF ThreadWork, NamesQueue
    <3>2. o.n <= token.upto /\ token.upto \in Nat
      BY <1>1, <1>3, <1>5, <3>1 DEF Promised, TokenRecords
    <3>3. page'[p].tokens[o.queue] >= o.n
      BY <1>2, <2>3, <2>4, <2>6, <3>1, <3>2 DEF IsPage
    <3> QED
      BY <3>3 DEF Protects
  <2> QED
    BY <2>5, <2>6
<1> QED
  BY <1>4, <1>5 DEF Covers

\* All work in flight stays known, as long as nobody holds pages for a capture: an
\* unpin without a token records nothing of a page that is.
LEMMA ProtectsStays ==
    ASSUME WorkInv, VbarAssumption, [Next]_vars, async, "capture" \notin HoldKinds,
           NEW o \in inflight', NEW p \in o.pages
    PROVE  Protects(o, p)'
<1>1. /\ VbarInv /\ TypesOK /\ CallsOK
      /\ o \in inflight => Protects(o, p)
  BY DEF WorkInv, VbarInv, WorkOK
<1>2. ASSUME NEW u \in Threads, Covers(u, o, p)' PROVE Protects(o, p)'
  BY <1>2 DEF Protects
<1>3. ASSUME o \in inflight,
             \A u \in Threads : Covers(u, o, p) => Protects(o, p)'
      PROVE  Protects(o, p)'
  BY <1>1, <1>3, KnownStays DEF Protects
<1>4. ASSUME UNCHANGED <<call, lease, hold>>, o \in inflight PROVE Protects(o, p)'
  BY <1>2, <1>3, <1>4, CoverStays
<1>5. CASE ListNext \/ LimitNext \/ Quiet \/ UNCHANGED vars \/ \E x \in inflight : Finish(x)
  BY <1>4, <1>5 DEF ListNext, LimitNext, Allocate, Prioritize, Deprioritize, CopyAcquire, CopyRelease,
     SetLimit, Quiet, vars, owners, device, Finish
<1>6. ASSUME NEW t \in Threads, Mine(t), NEW u \in Threads \ {t}, Covers(u, o, p) PROVE Protects(o, p)'
  <2>1. call'[u] = call[u] /\ lease'[u] = lease[u] /\ hold'[u] = hold[u]
    BY <1>6 DEF Mine, Only
  <2> QED
    BY <1>2, <1>6, <2>1, CoverStays
<1>7. ASSUME NEW t \in Threads, Mine(t), o \in inflight, Covers(t, o, p) => Protects(o, p)'
      PROVE  Protects(o, p)'
  BY <1>3, <1>6, <1>7
<1>8. ASSUME NEW t \in Threads, ReclaimNext(t) \/ FaultNext(t) \/ FreeNext(t) PROVE Protects(o, p)'
  <2>1. Mine(t) /\ call'[t].pc \notin Consumes /\ Acts(t)
    BY <1>1, <1>8, MineStep, ThreadActs, ReclaimWork, FaultWork, FreeWork, MovesFits
  <2>2. o \in inflight /\ hold' = hold
    BY <1>8 DEF ReclaimNext, FaultNext, FreeNext, Pressure, SetWatermark, FreeMemory, Snapshot, Freeze, Commit,
       Synchronized, SynchronizeFails, Fault, EnterFault, FaultHit, FaultUnknown, FaultRestore, FaultMiss,
       FaultMap, ReturnFault, Free, CheckFree, BeginTeardown, TeardownPage, EndTeardown, owners, device
  <2>3. lease' = lease \/ ReturnFault(t)
    BY <1>8 DEF ReclaimNext, FaultNext, FreeNext, Pressure, SetWatermark, FreeMemory, Snapshot, Freeze, Commit,
       Synchronized, SynchronizeFails, Fault, EnterFault, FaultHit, FaultUnknown, FaultRestore, FaultMiss,
       FaultMap, Free, CheckFree, BeginTeardown, TeardownPage, EndTeardown, owners
  <2>4. ASSUME Covers(t, o, p) PROVE Covers(t, o, p)'
    <3>1. CASE lease' = lease
      BY <2>1, <2>2, <2>4, <3>1, CoverStays
    <3>2. CASE ReturnFault(t)
      <4>1. lease[t] = NoRange
        BY <2>1, <3>2 DEF ReturnFault, Acts, Faulting
      <4>2. p \in RangePages(hold[t]) /\ o.queue \in hold[t].queues
        BY <2>4, <4>1, NoRangeCovers
      <4> QED
        BY <2>1, <2>2, <4>2 DEF Covers, Promised, Consumes
    <3> QED
      BY <2>3, <3>1, <3>2
  <2> QED
    BY <1>2, <1>7, <2>1, <2>2, <2>4
<1>9. ASSUME NEW t \in Threads, ConsumerNext(t) PROVE Protects(o, p)'
  <2>1. Mine(t) /\ DOMAIN call = Threads
    BY <1>1, <1>9, MineStep DEF TypesOK
  <2>2. ASSUME NEW own \in {"lease", "hold"}, NEW q \in Queues, Submit(t, own, q) PROVE Protects(o, p)'
    <3>1. CASE o \in inflight
      BY <1>2, <1>7, <2>1, <2>2, <3>1, SubmitCovers
    <3>2. CASE o \notin inflight
      BY <1>2, <2>2, <3>2, SubmitCovers
    <3> QED
      BY <3>1, <3>2
  <2>3. ASSUME NEW pc, NEW q, TakeToken(t, pc, q) PROVE Protects(o, p)'
    <3>1. o \in inflight
      BY <2>3 DEF TakeToken, device
    <3> QED
      BY <1>2, <1>7, <2>1, <2>3, <3>1, TakeTokenCovers
  <2>4. CASE Register(t)
    <3>1. o \in inflight
      BY <2>4 DEF Register, device
    <3> QED
      BY <1>7, <2>1, <2>4, <3>1, RegisterProtects
  <2>5. CASE Unpin(t)
    <3>1. o \in inflight
      BY <2>5 DEF Unpin, device
    <3> QED
      BY <1>7, <2>1, <2>5, <3>1, UnpinProtects
  <2>6. CASE Release(t)
    <3>1. o \in inflight
      BY <2>6 DEF Release, device
    <3> QED
      BY <1>7, <2>1, <2>6, <3>1, ReleaseProtects
  <2>7. ASSUME NEW R, Acquire(t, R) PROVE Protects(o, p)'
    <3>1. o \in inflight /\ lease' = lease /\ call' = call /\ call[t] = NoCall /\ hold[t] = NoRange
      BY <2>7 DEF Acquire, device
    <3>2. ASSUME Covers(t, o, p) PROVE Covers(t, o, p)'
      <4>1. p \in RangePages(lease[t]) /\ o.queue \in lease[t].queues
        BY <3>1, <3>2, NoRangeCovers
      <4> QED
        BY <3>1, <4>1, NoCallPlain DEF Covers, Promised
    <3> QED
      BY <1>2, <1>7, <2>1, <3>1, <3>2
  <2> QED
    BY <1>9, <2>2, <2>3, <2>4, <2>5, <2>6, <2>7 DEF ConsumerNext
<1> QED
  BY <1>5, <1>8, <1>9 DEF Next

\* Nothing is submitted at first.
LEMMA WorkInit == VbarAssumption /\ Init => WorkInv
<1> SUFFICES ASSUME VbarAssumption, Init PROVE WorkInv
  OBVIOUS
<1>1. VbarInv /\ inflight = {} /\ \A t \in Threads : call[t] = NoCall
  BY VbarInit DEF Init
<1>2. ASSUME NEW t \in Threads PROVE ThreadWork(t)
  <2>1. NoCall.candidates = {}
    BY DEF NoCall
  <2> QED
    BY <1>1, <2>1, NoCallPlain DEF ThreadWork, NamesQueue, SeesFrontier, Drains, Closes
<1> QED
  BY <1>1, <1>2 DEF WorkInv, WorkOK, WorkIsBacked

\* WorkInv is inductive.
LEMMA WorkStep ==
    ASSUME WorkInv, VbarAssumption, [Next]_vars, "capture" \notin HoldKinds
    PROVE  WorkInv'
<1>1. VbarInv' /\ \A t \in Threads : ThreadWork(t)'
  BY VbarStep, ThreadsWork DEF WorkInv
<1>2. WorkIsBacked'
  BY WorkStays DEF WorkIsBacked, Keeps
<1>3. async' = async
  <2>1. CASE ListNext \/ LimitNext \/ Quiet \/ UNCHANGED vars \/ \E x \in inflight : Finish(x)
    BY <2>1 DEF ListNext, LimitNext, Allocate, Prioritize, Deprioritize, CopyAcquire, CopyRelease,
       SetLimit, Quiet, vars, device, Finish
  <2>2. ASSUME NEW t \in Threads, ReclaimNext(t) \/ FaultNext(t) \/ ConsumerNext(t) \/ FreeNext(t)
        PROVE  async' = async
    BY <2>2, MineStep DEF Mine, WorkInv, VbarInv
  <2> QED
    BY <2>1, <2>2 DEF Next
<1>4. async => \A o \in inflight' : \A p \in o.pages : Protects(o, p)'
  BY ProtectsStays
<1> QED
  BY <1>1, <1>2, <1>3, <1>4 DEF WorkInv, WorkOK

\* No operator loses the memory under it, however the scans, commits, faults,
\* unpins, releases and teardowns of any number of threads interleave and whatever
\* the driver refuses: every page that work in flight reads is mapped.  Nobody
\* holds pages for a capture; with such holds it is not true (MCVbarPages).
THEOREM WorkBacked == "capture" \notin HoldKinds => (Spec => []WorkIsBacked)
<1> SUFFICES ASSUME "capture" \notin HoldKinds PROVE Spec => []WorkIsBacked
  OBVIOUS
<1>1. VbarAssumption
  BY VbarAssumption
<1>2. Init => WorkInv
  BY <1>1, WorkInit
<1>3. WorkInv /\ [Next]_vars => WorkInv'
  BY <1>1, WorkStep
<1>4. WorkInv => WorkIsBacked
  BY DEF WorkInv, WorkOK
<1> QED
  BY <1>2, <1>3, <1>4, PTL DEF Spec

-----------------------------------------------------------------------------
(* What is in use is counted.                                                *)

\* What a page counts for in total_vram_usage and in resident_count.
Owns(r) == IF r.handle THEN 1 ELSE 0
Maps(r) == IF IsMapped(r) THEN 1 ELSE 0

OwnsOf(k)    == [p \in Pages |-> Owns(k[p])]
MapsOf(k, v) == [p \in Pages |-> IF p[1] = v THEN Maps(k[p]) ELSE 0]

\* The counters are sums over the pages.
Usage ==
    /\ total = SumFunction(OwnsOf(page))
    /\ \A v \in Vbars : vbar[v].resident = SumFunction(MapsOf(page, v))

\* There are finitely many pages.
LEMMA FinitePages == VbarAssumption => IsFiniteSet(Pages)
<1>1. ASSUME VbarAssumption PROVE IsFiniteSet(Vbars) /\ IsFiniteSet(1..NPages)
  BY <1>1, FS_Interval DEF VbarAssumption
<1> QED
  BY <1>1, FS_Product DEF Pages

\* The values that are summed are ones and zeros.
LEMMA OwnsValues ==
    ASSUME NEW k
    PROVE  /\ DOMAIN OwnsOf(k) = Pages
           /\ \A p \in Pages : OwnsOf(k)[p] = Owns(k[p]) /\ OwnsOf(k)[p] \in {0, 1}
BY DEF OwnsOf, Owns

\* The values that are summed for a VBAR are ones and zeros, too.
LEMMA MapsValues ==
    ASSUME NEW k, NEW v
    PROVE  /\ DOMAIN MapsOf(k, v) = Pages
           /\ \A p \in Pages : /\ MapsOf(k, v)[p] = IF p[1] = v THEN Maps(k[p]) ELSE 0
                               /\ MapsOf(k, v)[p] \in {0, 1}
BY DEF MapsOf, Maps

\* A counted quantity is a number.
LEMMA UseTypes ==
    ASSUME VbarAssumption, NEW k, NEW v
    PROVE  SumFunction(OwnsOf(k)) \in Nat /\ SumFunction(MapsOf(k, v)) \in Nat
<1>1. ASSUME NEW f, DOMAIN f = Pages, \A p \in Pages : f[p] \in {0, 1}
      PROVE  SumFunction(f) \in Nat
  <2>1. \A p \in DOMAIN f : f[p] \in Nat
    BY <1>1
  <2>2. IsFiniteSet(DOMAIN f)
    BY <1>1, FinitePages
  <2> QED
    BY <2>1, <2>2, SumOfNaturals
<1> QED
  BY <1>1, OwnsValues, MapsValues

\* What the sums count.
LEMMA UsageCounts ==
    ASSUME VbarAssumption, Usage
    PROVE  UsageIsCounted
<1>1. ASSUME NEW f, DOMAIN f = Pages, \A p \in Pages : f[p] \in {0, 1}
      PROVE  SumFunction(f) = Cardinality({p \in Pages : f[p] = 1})
  <2>1. IsFiniteSet(DOMAIN f)
    BY <1>1, FinitePages
  <2> QED
    BY <1>1, <2>1, SumCounts
<1>2. {p \in Pages : OwnsOf(page)[p] = 1} = {p \in Pages : page[p].handle}
  BY OwnsValues, MapsValues DEF Owns
<1>3. ASSUME NEW v \in Vbars
      PROVE  {p \in Pages : MapsOf(page, v)[p] = 1}
             = {p \in Pages : p[1] = v /\ IsMapped(page[p])}
  BY OwnsValues, MapsValues DEF Maps
<1>4. total = Cardinality({p \in Pages : page[p].handle})
  BY <1>1, <1>2, OwnsValues, MapsValues DEF Usage
<1>5. ASSUME NEW v \in Vbars
      PROVE  vbar[v].resident = Cardinality({p \in Pages : p[1] = v /\ IsMapped(page[p])})
  <2>1. vbar[v].resident = SumFunction(MapsOf(page, v))
    BY DEF Usage
  <2>2. SumFunction(MapsOf(page, v)) = Cardinality({p \in Pages : MapsOf(page, v)[p] = 1})
    BY <1>1, OwnsValues, MapsValues
  <2> QED
    BY <1>3, <2>1, <2>2
<1> QED
  BY <1>4, <1>5 DEF UsageIsCounted

\* The pages s and r count the same.
SameUse(r, s) == s.handle = r.handle /\ s.mapped = r.mapped

\* Nothing is owned or mapped that was not, and the counters stay.
LEMMA UsageStays ==
    ASSUME Usage, \A p \in Pages : SameUse(page[p], page'[p]),
           total' = total, \A v \in Vbars : vbar'[v].resident = vbar[v].resident
    PROVE  Usage'
<1>1. \A p \in Pages : Owns(page'[p]) = Owns(page[p]) /\ Maps(page'[p]) = Maps(page[p])
  BY DEF SameUse, Owns, Maps, IsMapped
<1>2. OwnsOf(page') = OwnsOf(page)
  BY <1>1 DEF OwnsOf
<1>3. \A v \in Vbars : MapsOf(page', v) = MapsOf(page, v)
  BY <1>1 DEF MapsOf
<1> QED
  BY <1>2, <1>3 DEF Usage

\* One page moves, and the counters with it.
LEMMA UsageMoves ==
    ASSUME VbarAssumption, Usage, NEW a \in Pages, \A p \in Pages \ {a} : SameUse(page[p], page'[p]),
           NEW n \in Int, Owns(page'[a]) = Owns(page[a]) + n, total' = total + n,
           NEW m \in Int, Maps(page'[a]) = Maps(page[a]) + m,
           vbar'[a[1]].resident = vbar[a[1]].resident + m,
           \A v \in Vbars \ {a[1]} : vbar'[v].resident = vbar[v].resident
    PROVE  Usage'
<1>1. \A p \in Pages \ {a} : Owns(page'[p]) = Owns(page[p]) /\ Maps(page'[p]) = Maps(page[p])
  BY DEF SameUse, Owns, Maps, IsMapped
<1>2. IsFiniteSet(Pages)
  BY FinitePages
<1>3. ASSUME NEW f, DOMAIN f = Pages, \A p \in Pages : f[p] \in {0, 1},
             NEW g, DOMAIN g = Pages, \A p \in Pages : g[p] \in {0, 1},
             \A p \in Pages \ {a} : g[p] = f[p]
      PROVE  SumFunction(g) = SumFunction(f) - f[a] + g[a] /\ SumFunction(f) \in Nat
  <2>1. \A p \in DOMAIN f : f[p] \in Int /\ f[p] \in Nat
    BY <1>3
  <2>2. g[a] \in Int /\ a \in DOMAIN f /\ DOMAIN g = DOMAIN f /\ IsFiniteSet(DOMAIN f)
    BY <1>2, <1>3
  <2>3. SumFunction(f) \in Nat
    BY <2>1, <2>2, SumOfNaturals
  <2> QED
    BY <1>3, <2>1, <2>2, <2>3, SumChanges
<1>4. SumFunction(OwnsOf(page')) = SumFunction(OwnsOf(page)) + n
  <2>1. /\ SumFunction(OwnsOf(page')) = SumFunction(OwnsOf(page)) - Owns(page[a]) + Owns(page'[a])
        /\ SumFunction(OwnsOf(page)) \in Nat
    <3>1. \A p \in Pages \ {a} : OwnsOf(page')[p] = OwnsOf(page)[p]
      BY <1>1, OwnsValues, MapsValues
    <3> QED
      BY <1>3, <3>1, OwnsValues, MapsValues
  <2>2. Owns(page[a]) \in Int
    BY DEF Owns
  <2> QED
    BY <2>1, <2>2
<1>5. SumFunction(MapsOf(page', a[1])) = SumFunction(MapsOf(page, a[1])) + m
  <2>1. /\ SumFunction(MapsOf(page', a[1])) = SumFunction(MapsOf(page, a[1])) - Maps(page[a]) + Maps(page'[a])
        /\ SumFunction(MapsOf(page, a[1])) \in Nat
    <3>1. \A p \in Pages \ {a} : MapsOf(page', a[1])[p] = MapsOf(page, a[1])[p]
      BY <1>1, OwnsValues, MapsValues
    <3> QED
      BY <1>3, <3>1, OwnsValues, MapsValues
  <2>2. Maps(page[a]) \in Int
    BY DEF Maps
  <2> QED
    BY <2>1, <2>2
<1>6. ASSUME NEW v \in Vbars \ {a[1]} PROVE MapsOf(page', v) = MapsOf(page, v)
  BY <1>1 DEF MapsOf
<1>7. a[1] \in Vbars
  BY DEF Pages
<1>8. total' = SumFunction(OwnsOf(page'))
  BY <1>4 DEF Usage
<1>9. ASSUME NEW v \in Vbars PROVE vbar'[v].resident = SumFunction(MapsOf(page', v))
  BY <1>5, <1>6, <1>7 DEF Usage
<1> QED
  BY <1>8, <1>9 DEF Usage

\* The pages of P move, and the counters by the sums of what they add.
LEMMA UsageSums ==
    ASSUME VbarAssumption, Usage, NEW P \in SUBSET Pages,
           \A p \in Pages \ P : SameUse(page[p], page'[p]),
           NEW n, NEW m, \A p \in P : /\ n[p] \in Int /\ Owns(page'[p]) = Owns(page[p]) + n[p]
                                      /\ m[p] \in Int /\ Maps(page'[p]) = Maps(page[p]) + m[p],
           total' = total + SumFunction([p \in P |-> n[p]]),
           \A v \in Vbars : vbar'[v].resident =
              vbar[v].resident + SumFunction([p \in {p \in P : p[1] = v} |-> m[p]])
    PROVE  Usage'
<1>1. \A p \in Pages \ P : Owns(page'[p]) = Owns(page[p]) /\ Maps(page'[p]) = Maps(page[p])
  BY DEF SameUse, Owns, Maps, IsMapped
<1>2. IsFiniteSet(Pages)
  BY FinitePages
<1>3. ASSUME NEW f, DOMAIN f = Pages, \A p \in Pages : f[p] \in {0, 1},
             NEW g, DOMAIN g = Pages, NEW U \in SUBSET Pages, NEW d,
             \A p \in Pages \ U : g[p] = f[p],
             \A p \in U : d[p] \in Int /\ g[p] = f[p] + d[p]
      PROVE  SumFunction(g) = SumFunction(f) + SumFunction(Restrict(d, U))
  <2> DEFINE e == [p \in Pages |-> IF p \in U THEN d[p] ELSE 0]
  <2>1. /\ DOMAIN e = Pages /\ \A p \in Pages : e[p] \in Int /\ g[p] = f[p] + e[p] /\ f[p] \in Int
        /\ \A p \in Pages \ U : e[p] = 0
    BY <1>3
  <2>2. Restrict(e, U) = Restrict(d, U)
    BY <1>3 DEF Restrict
  <2> HIDE DEF e
  <2>3. SumFunction(g) = SumFunction(f) + SumFunction(e)
    BY <1>2, <1>3, <2>1, SumOfIncrease
  <2>4. SumFunction(e) = SumFunction(Restrict(e, U))
    BY <1>2, <2>1, SumOfRest
  <2> QED
    BY <2>2, <2>3, <2>4
<1>4. SumFunction(OwnsOf(page')) = SumFunction(OwnsOf(page)) + SumFunction(Restrict(n, P))
  <2>1. /\ \A p \in Pages \ P : OwnsOf(page')[p] = OwnsOf(page)[p]
        /\ \A p \in P : n[p] \in Int /\ OwnsOf(page')[p] = OwnsOf(page)[p] + n[p]
    BY <1>1, OwnsValues, MapsValues
  <2> QED
    BY <1>3, <2>1, OwnsValues, MapsValues
<1>5. ASSUME NEW v \in Vbars
      PROVE  SumFunction(MapsOf(page', v)) = SumFunction(MapsOf(page, v))
                                             + SumFunction(Restrict(m, {p \in P : p[1] = v}))
  <2> DEFINE U == {p \in P : p[1] = v}
  <2>1. /\ \A p \in Pages \ U : MapsOf(page', v)[p] = MapsOf(page, v)[p]
        /\ \A p \in U : m[p] \in Int /\ MapsOf(page', v)[p] = MapsOf(page, v)[p] + m[p]
    BY <1>1, OwnsValues, MapsValues
  <2>2. U \in SUBSET Pages
    OBVIOUS
  <2> HIDE DEF U
  <2>3. SumFunction(MapsOf(page', v)) = SumFunction(MapsOf(page, v)) + SumFunction(Restrict(m, U))
    BY <1>3, <2>1, <2>2, OwnsValues, MapsValues
  <2> QED
    BY <2>3 DEF U
<1>6. total' = SumFunction(OwnsOf(page'))
  BY <1>4 DEF Usage, Restrict
<1>7. ASSUME NEW v \in Vbars PROVE vbar'[v].resident = SumFunction(MapsOf(page', v))
  BY <1>5 DEF Usage, Restrict
<1> QED
  BY <1>6, <1>7 DEF Usage

\* mod1 counts what it gives back.
LEMMA ReleasedUse ==
    ASSUME NEW r, IsPage(r), IsMapped(r), NEW o \in Released(r)
    PROVE  /\ o.total \in Int /\ Owns(o.page) = Owns(r) + o.total
           /\ o.resident \in Int /\ Maps(o.page) = Maps(r) + o.resident
           /\ o.failed \in Nat
<1> DEFINE kept == [r EXCEPT !.evicting = FALSE]
           gone == [kept EXCEPT !.handle = FALSE, !.mapped = "unmapped",
                                !.tokens = NoTokens, !.unknown = FALSE, !.content = FALSE]
           bare == [kept EXCEPT !.mapped = "unmapped", !.unknown = TRUE]
<1>1. \/ \E n \in {0, 1} : o = Outcome(kept, 0, 0, n, "kept")
      \/ o = Outcome(gone, -1, -1, 0, "freed")
      \/ o = Outcome(bare, 0, -1, 2, "kept")
      \/ o = Outcome(Limbo(kept), 0, -1, 3, "kept")
  BY DEF Released
<1>2. DOMAIN kept = PageFields /\ kept.handle = r.handle /\ kept.mapped = r.mapped
  BY DEF IsPage, PageFields
<1>3. r.handle = TRUE /\ r.mapped = "mapped"
  BY DEF IsMapped, IsPage
<1> HIDE DEF kept
<1>4. /\ gone.handle = FALSE /\ bare.handle = TRUE /\ Limbo(kept).handle = TRUE
      /\ bare.mapped = "unmapped" /\ Limbo(kept).mapped = "unknown" /\ gone.mapped = "unmapped"
  BY <1>2, <1>3 DEF PageFields, Limbo
<1> HIDE DEF gone, bare
<1>5. /\ Owns(r) = 1 /\ Owns(kept) = 1 /\ Owns(gone) = 0 /\ Owns(bare) = 1 /\ Owns(Limbo(kept)) = 1
      /\ Maps(r) = 1 /\ Maps(kept) = 1 /\ Maps(gone) = 0 /\ Maps(bare) = 0 /\ Maps(Limbo(kept)) = 0
  BY <1>2, <1>3, <1>4 DEF Owns, Maps, IsMapped
<1>6. CASE \E n \in {0, 1} : o = Outcome(kept, 0, 0, n, "kept")
  BY <1>5, <1>6 DEF Outcome
<1>7. CASE o = Outcome(gone, -1, -1, 0, "freed")
  BY <1>5, <1>7 DEF Outcome
<1>8. CASE o = Outcome(bare, 0, -1, 2, "kept")
  BY <1>5, <1>8 DEF Outcome
<1>9. CASE o = Outcome(Limbo(kept), 0, -1, 3, "kept")
  BY <1>5, <1>9 DEF Outcome
<1> QED
  BY <1>1, <1>6, <1>7, <1>8, <1>9

\* vbar_restore_page_mapping counts the page it maps again, if it is told to.
LEMMA RestoredUse ==
    ASSUME NEW r, IsPage(r), r.handle, ~IsMapped(r), NEW counted \in {0, 1},
           NEW o \in Restored(r, counted)
    PROVE  /\ Owns(o.page) = Owns(r) /\ o.total = 0
           /\ Maps(o.page) = Maps(r) + (IF o.result = "ok" THEN 1 ELSE 0)
           /\ o.resident = IF o.result = "ok" THEN counted ELSE 0
           /\ o.failed \in Nat
<1> DEFINE with == [r EXCEPT !.mapped = "mapped"]
           bare == [r EXCEPT !.mapped = "unmapped"]
<1>1. \/ o = Outcome(with, 0, counted, 0, "ok")
      \/ o = Outcome(bare, 0, 0, 1, "error")
      \/ o = Outcome(Limbo(r), 0, 0, 2, "error")
  BY DEF Restored
<1>2. /\ with.handle = TRUE /\ bare.handle = TRUE /\ Limbo(r).handle = TRUE
      /\ with.mapped = "mapped" /\ bare.mapped = "unmapped" /\ Limbo(r).mapped = "unknown"
  BY DEF IsPage, PageFields, Limbo
<1> HIDE DEF with, bare
<1>3. /\ Owns(r) = 1 /\ Owns(with) = 1 /\ Owns(bare) = 1 /\ Owns(Limbo(r)) = 1
      /\ Maps(r) = 0 /\ Maps(with) = 1 /\ Maps(bare) = 0 /\ Maps(Limbo(r)) = 0
  BY <1>2 DEF Owns, Maps, IsMapped
<1>4. CASE o = Outcome(with, 0, counted, 0, "ok")
  BY <1>3, <1>4 DEF Outcome
<1>5. CASE o = Outcome(bare, 0, 0, 1, "error")
  BY <1>3, <1>5 DEF Outcome
<1>6. CASE o = Outcome(Limbo(r), 0, 0, 2, "error")
  BY <1>3, <1>6 DEF Outcome
<1> QED
  BY <1>1, <1>4, <1>5, <1>6

\* vbar_map_new_page counts a page it has created; the caller counts the mapping.
LEMMA MappedNewUse ==
    ASSUME NEW r, IsPage(r), ~IsMapped(r), NEW o \in MappedNew(r)
    PROVE  /\ o.total \in Int /\ Owns(o.page) = Owns(r) + o.total
           /\ Maps(o.page) = Maps(r) + (IF o.result = "ok" THEN 1 ELSE 0)
           /\ o.failed \in Nat
<1>1. CASE r.handle /\ r.mapped = "unknown"
  <2>1. o = Outcome(r, 0, 0, 0, "error")
    BY <1>1 DEF MappedNew
  <2>2. Owns(r) \in Int /\ Maps(r) \in Int
    BY DEF Owns, Maps
  <2> QED
    BY <2>1, <2>2 DEF Outcome
<1>2. CASE r.handle /\ r.mapped # "unknown"
  <2>1. o \in Restored(r, 0)
    BY <1>2 DEF MappedNew
  <2>2. Owns(r) \in Int
    BY DEF Owns
  <2> QED
    BY <1>2, <2>1, <2>2, RestoredUse
<1>3. CASE ~r.handle
  <2> DEFINE fresh == [r EXCEPT !.handle = TRUE, !.content = FALSE]
             with  == [fresh EXCEPT !.mapped = "mapped"]
  <2>1. \/ o = Outcome(with, 1, 0, 0, "ok")
        \/ o = Outcome(r, 0, 0, 0, "oom")
        \/ \E why \in {"oom", "error"} : \/ o = Outcome(r, 0, 0, 1, why)
                                         \/ o = Outcome(fresh, 1, 0, 2, why)
                                         \/ o = Outcome(Limbo(fresh), 1, 0, 2, why)
    BY <1>3 DEF MappedNew
  <2>2. fresh.handle = TRUE /\ fresh.mapped = r.mapped /\ DOMAIN fresh = PageFields
    BY DEF IsPage, PageFields
  <2>3. r.mapped = "unmapped"
    BY <1>3 DEF IsPage
  <2> HIDE DEF fresh
  <2>4. /\ with.handle = TRUE /\ with.mapped = "mapped"
        /\ Limbo(fresh).handle = TRUE /\ Limbo(fresh).mapped = "unknown"
    BY <2>2 DEF PageFields, Limbo
  <2> HIDE DEF with
  <2>5. /\ Owns(r) = 0 /\ Owns(with) = 1 /\ Owns(fresh) = 1 /\ Owns(Limbo(fresh)) = 1
        /\ Maps(r) = 0 /\ Maps(with) = 1 /\ Maps(fresh) = 0 /\ Maps(Limbo(fresh)) = 0
    BY <1>3, <2>2, <2>3, <2>4 DEF Owns, Maps, IsMapped
  <2>6. CASE o = Outcome(with, 1, 0, 0, "ok")
    BY <2>5, <2>6 DEF Outcome
  <2>7. CASE o = Outcome(r, 0, 0, 0, "oom")
    BY <2>5, <2>7 DEF Outcome
  <2>8. ASSUME NEW why \in {"oom", "error"}, o = Outcome(r, 0, 0, 1, why)
        PROVE  /\ o.total \in Int /\ Owns(o.page) = Owns(r) + o.total
               /\ Maps(o.page) = Maps(r) + (IF o.result = "ok" THEN 1 ELSE 0)
               /\ o.failed \in Nat
    BY <2>5, <2>8 DEF Outcome
  <2>9. ASSUME NEW why \in {"oom", "error"}, NEW x \in {fresh, Limbo(fresh)},
               o = Outcome(x, 1, 0, 2, why)
        PROVE  /\ o.total \in Int /\ Owns(o.page) = Owns(r) + o.total
               /\ Maps(o.page) = Maps(r) + (IF o.result = "ok" THEN 1 ELSE 0)
               /\ o.failed \in Nat
    BY <2>5, <2>9 DEF Outcome
  <2> QED
    BY <2>1, <2>6, <2>7, <2>8, <2>9
<1> QED
  BY <1>1, <1>2, <1>3

\* Owners, freezes and signatures do not count.
LEMMA UseKept ==
    ASSUME NEW r, IsPage(r), NEW n
    PROVE  /\ SameUse(r, r) /\ SameUse(r, Canceled(r)) /\ SameUse(r, Pinned(r))
           /\ SameUse(r, PagedIn(r)) /\ SameUse(r, WithPins(r, n))
<1>1. SameUse(r, Canceled(r)) /\ DOMAIN Canceled(r) = PageFields
  BY CanceledPage DEF SameUse, IsPage
<1>2. SameUse(Canceled(r), Pinned(r))
  BY <1>1 DEF SameUse, Pinned, PageFields
<1> QED
  BY <1>1, <1>2 DEF IsPage, PageFields, SameUse, PagedIn, WithPins

\* A fault that gives up owns and maps what it did.
LEMMA GivesUpUse ==
    ASSUME NEW t, NEW P, GiveUp(t, P), NEW p \in Pages, IsPage(P[p])
    PROVE  SameUse(P[p], page'[p])
<1> DEFINE r == P[p]
<1>1. page'[p] = r \/ page'[p] = WithPins(r, r.pin - 1)
  BY DEF GiveUp, Unpinned, WithPins
<1> HIDE DEF r
<1>2. IsPage(r)
  BY DEF r
<1>3. SameUse(r, r) /\ SameUse(r, WithPins(r, r.pin - 1))
  BY <1>2, UseKept
<1> QED
  BY <1>1, <1>3 DEF r

\* A commit counts what the driver gave back of each page it freed.
LEMMA CommitUse ==
    ASSUME VbarAssumption, Usage, PagesOK, VbarsOK, NEW t \in Threads, Acts(t), Commit(t)
    PROVE  Usage'
<1> DEFINE c    == call[t]
           K    == {k \in c.candidates : Current(k)}
           C(p) == \E k \in K : k.page = p
           S(p) == \E k \in c.candidates \ K : k.page = p /\ StillFrozen(k)
           P    == {k.page : k \in K}
<1>1. PICK out \in [P -> UNION {Released(page[p]) : p \in P}] :
         /\ \A p \in P : out[p] \in Released(page[p])
         /\ page' = [p \in Pages |-> IF C(p) THEN out[p].page
                                     ELSE IF S(p) THEN Canceled(page[p]) ELSE page[p]]
         /\ total' = total + SumFunction([p \in P |-> out[p].total])
         /\ vbar' = [v \in Vbars |-> [vbar[v] EXCEPT !.resident =
                       @ + SumFunction([p \in {p \in P : p[1] = v} |-> out[p].resident])]]
  BY DEF Commit
<1>2. P \in SUBSET Pages
  BY DEF Acts, CallOK
<1>3. ASSUME NEW p \in P
      PROVE  IsPage(page[p]) /\ IsMapped(page[p]) /\ page'[p] = out[p].page
  BY <1>1, <1>2, <1>3 DEF PagesOK, Current
<1>4. ASSUME NEW p \in Pages \ P PROVE SameUse(page[p], page'[p])
  <2>1. page'[p] = page[p] \/ page'[p] = Canceled(page[p])
    BY <1>1, <1>4
  <2> QED
    BY <2>1, UseKept DEF PagesOK
<1> HIDE DEF K, P
<1> DEFINE n == [p \in P |-> out[p].total]
           m == [p \in P |-> out[p].resident]
<1>5. \A p \in P : /\ n[p] \in Int /\ Owns(page'[p]) = Owns(page[p]) + n[p]
                   /\ m[p] \in Int /\ Maps(page'[p]) = Maps(page[p]) + m[p]
  <2>1. ASSUME NEW p \in P
        PROVE  /\ n[p] \in Int /\ Owns(page'[p]) = Owns(page[p]) + n[p]
               /\ m[p] \in Int /\ Maps(page'[p]) = Maps(page[p]) + m[p]
    <3> DEFINE o == out[p]
    <3>1. n[p] = o.total /\ m[p] = o.resident /\ page'[p] = o.page
      BY <1>3
    <3>2. o \in Released(page[p]) /\ IsPage(page[p]) /\ IsMapped(page[p])
      BY <1>1, <1>3
    <3> HIDE DEF o, n, m
    <3> QED
      BY <3>1, <3>2, ReleasedUse
  <2> QED
    BY <2>1
<1>6. total' = total + SumFunction([p \in P |-> n[p]])
  <2>1. [p \in P |-> n[p]] = [p \in P |-> out[p].total]
    OBVIOUS
  <2> HIDE DEF n
  <2> QED
    BY <1>1, <2>1
<1>7. ASSUME NEW v \in Vbars
      PROVE  vbar'[v].resident =
                vbar[v].resident + SumFunction([p \in {p \in P : p[1] = v} |-> m[p]])
  <2> DEFINE more == SumFunction([p \in {p \in P : p[1] = v} |-> out[p].resident])
             b == vbar[v]
  <2>1. vbar'[v] = [b EXCEPT !.resident = @ + more]
    BY <1>1
  <2>2. [p \in {p \in P : p[1] = v} |-> m[p]] = [p \in {p \in P : p[1] = v} |-> out[p].resident]
    OBVIOUS
  <2>3. DOMAIN b = VbarFields
    BY DEF VbarsOK
  <2> HIDE DEF more, m, b
  <2>4. vbar'[v].resident = b.resident + more
    BY <2>1, <2>3 DEF VbarFields
  <2> QED
    BY <2>2, <2>4 DEF more, b
<1> HIDE DEF n, m
<1> QED
  BY <1>2, <1>4, <1>5, <1>6, <1>7, UsageSums

\* A page of a VBAR moves, and the counters with it.
LEMMA OnePageUse ==
    ASSUME VbarAssumption, Usage, NEW v \in Vbars, NEW i \in 1..NPages,
           \A p \in Pages \ {<<v, i>>} : SameUse(page[p], page'[p]),
           NEW n \in Int, Owns(page'[<<v, i>>]) = Owns(page[<<v, i>>]) + n, total' = total + n,
           NEW m \in Int, Maps(page'[<<v, i>>]) = Maps(page[<<v, i>>]) + m,
           vbar'[v].resident = vbar[v].resident + m,
           \A w \in Vbars \ {v} : vbar'[w].resident = vbar[w].resident
    PROVE  Usage'
<1> DEFINE a == <<v, i>>
<1>1. a \in Pages /\ a[1] = v
  BY DEF Pages
<1>2. /\ Owns(page'[a]) = Owns(page[a]) + n /\ Maps(page'[a]) = Maps(page[a]) + m
      /\ \A p \in Pages \ {a} : SameUse(page[p], page'[p])
  OBVIOUS
<1>3. /\ vbar'[a[1]].resident = vbar[a[1]].resident + m
      /\ \A w \in Vbars \ {a[1]} : vbar'[w].resident = vbar[w].resident
  BY <1>1
<1> HIDE DEF a
<1> QED
  BY <1>1, <1>2, <1>3, UsageMoves

\* Nothing that is counted, or one more or less of a VBAR.
LEMMA ResidentUse ==
    ASSUME VbarAssumption, Usage, VbarsOK, NEW v \in Vbars, NEW m \in Int
    PROVE  /\ vbar' = [vbar EXCEPT ![v].resident = @ + m] =>
                 /\ vbar'[v].resident = vbar[v].resident + m
                 /\ \A w \in Vbars \ {v} : vbar'[w].resident = vbar[w].resident
           /\ total + 0 = total
<1>1. SumFunction(MapsOf(page, v)) \in Nat /\ vbar[v].resident = SumFunction(MapsOf(page, v))
      /\ total \in Nat
  BY UseTypes DEF Usage
<1>2. ASSUME vbar' = [vbar EXCEPT ![v].resident = @ + m]
      PROVE  /\ vbar'[v].resident = vbar[v].resident + m
             /\ \A w \in Vbars \ {v} : vbar'[w].resident = vbar[w].resident
  BY <1>2 DEF VbarsOK, VbarFields
<1> QED
  BY <1>1, <1>2

\* A fault counts the page it maps again.
LEMMA FaultRestoreUse ==
    ASSUME VbarAssumption, Usage, PagesOK, VbarsOK, NEW t \in Threads, Acts(t), FaultRestore(t)
    PROVE  Usage'
<1> DEFINE p == FaultPage(t)
           v == call[t].vbar
<1>1. AtPage(t) /\ page[p].handle /\ ~IsMapped(page[p]) /\ total' = total
  BY DEF FaultRestore, IsMapped
<1>2. PICK o \in Restored(page[p], 1) :
         /\ vbar' = [vbar EXCEPT ![v].resident = @ + o.resident]
         /\ \/ o.result = "ok" /\ page' = [page EXCEPT ![p] = Pinned(o.page)]
            \/ GiveUp(t, [page EXCEPT ![p] = o.page])
  BY DEF FaultRestore
<1>3. p \in Pages /\ IsPage(page[p]) /\ DOMAIN page = Pages /\ \A q \in Pages : IsPage(page[q])
  BY <1>1, AtPageFacts DEF PagesOK
<1>4. v \in Vbars /\ call[t].at \in 1..NPages /\ p = <<v, call[t].at>>
  BY <1>3 DEF FaultPage, Pages
<1>5. /\ IsPage(o.page) /\ Owns(o.page) = Owns(page[p]) /\ o.resident \in Int
      /\ Maps(o.page) = Maps(page[p]) + o.resident
  BY <1>1, <1>3, RestoredPage, RestoredUse
<1> HIDE DEF p
<1> DEFINE x == o.page
<1>6. SameUse(x, page'[p]) /\ \A q \in Pages \ {p} : SameUse(page[q], page'[q])
  <2>1. CASE page' = [page EXCEPT ![p] = Pinned(x)]
    BY <1>3, <1>5, <2>1, UseKept
  <2>2. CASE GiveUp(t, [page EXCEPT ![p] = x])
    <3> DEFINE Q == [page EXCEPT ![p] = x]
    <3>1. Q[p] = x /\ \A q \in Pages \ {p} : Q[q] = page[q]
      BY <1>3
    <3>2. GiveUp(t, Q)
      BY <2>2
    <3> HIDE DEF Q
    <3>3. \A q \in Pages : IsPage(Q[q])
      BY <1>3, <1>5, <3>1
    <3>4. \A q \in Pages : SameUse(Q[q], page'[q])
      BY <3>2, <3>3, GivesUpUse
    <3> QED
      BY <1>3, <3>1, <3>4
  <2> QED
    BY <1>2, <2>1, <2>2
<1>7. Owns(page'[p]) = Owns(page[p]) + 0 /\ Maps(page'[p]) = Maps(page[p]) + o.resident
  <2>1. Owns(page'[p]) = Owns(x) /\ Maps(page'[p]) = Maps(x)
    BY <1>6 DEF SameUse, Owns, Maps, IsMapped
  <2>2. Owns(page[p]) \in Int
    BY DEF Owns
  <2> QED
    BY <1>5, <2>1, <2>2
<1>8. total' = total + 0
  BY <1>1, <1>4, <1>5, ResidentUse
<1>9. /\ vbar'[v].resident = vbar[v].resident + o.resident
      /\ \A w \in Vbars \ {v} : vbar'[w].resident = vbar[w].resident
  BY <1>2, <1>4, <1>5, ResidentUse
<1> DEFINE i == call[t].at
<1>10. /\ v \in Vbars /\ i \in 1..NPages /\ o.resident \in Int
       /\ \A q \in Pages \ {<<v, i>>} : SameUse(page[q], page'[q])
       /\ Owns(page'[<<v, i>>]) = Owns(page[<<v, i>>]) + 0
       /\ Maps(page'[<<v, i>>]) = Maps(page[<<v, i>>]) + o.resident
  BY <1>2, <1>4, <1>5, <1>6, <1>7
<1> HIDE DEF v, i
<1> QED
  BY <1>8, <1>10, <1>9, OnePageUse

\* A fault counts the page it creates and the mapping it makes.
LEMMA FaultMapUse ==
    ASSUME VbarAssumption, Usage, PagesOK, VbarsOK, FaultsOK, NEW t \in Threads, Acts(t),
           NEW deficit, FaultMap(t, deficit)
    PROVE  Usage'
<1> DEFINE p == FaultPage(t)
           v == call[t].vbar
           i == call[t].at
<1>1. AtPage(t) /\ call[t].tries > 0
  BY DEF FaultMap
<1>2. /\ p \in Pages /\ IsPage(page[p]) /\ DOMAIN page = Pages /\ \A q \in Pages : IsPage(page[q])
      /\ ~IsMapped(page[p])
  BY <1>1, AtPageFacts DEF PagesOK, FaultsOK, Faulting
<1>3. v \in Vbars /\ i \in 1..NPages /\ p = <<v, i>>
  BY <1>2 DEF FaultPage, Pages
<1> HIDE DEF p, v, i
<1>4. CASE deficit > 0
  <2>1. page' = page /\ vbar' = vbar /\ total' = total
    BY <1>4 DEF FaultMap
  <2> QED
    BY <1>2, <2>1, UseKept, UsageStays
<1>5. CASE ~(deficit > 0)
  <2>1. PICK o \in MappedNew(page[p]) :
           /\ total' = total + o.total
           /\ \/ /\ o.result = "ok" /\ page' = [page EXCEPT ![p] = PagedIn(o.page)]
                 /\ vbar' = [vbar EXCEPT ![v].resident = @ + 1]
              \/ /\ o.result # "ok" /\ page' = [page EXCEPT ![p] = o.page] /\ vbar' = vbar
              \/ /\ o.result # "ok" /\ GiveUp(t, [page EXCEPT ![p] = o.page]) /\ vbar' = vbar
    BY <1>5 DEF FaultMap, p, v
  <2> DEFINE x == o.page
             m == IF o.result = "ok" THEN 1 ELSE 0
  <2>2. /\ IsPage(x) /\ o.total \in Int /\ Owns(x) = Owns(page[p]) + o.total
        /\ Maps(x) = Maps(page[p]) + m
    BY <1>2, MappedNewPage, MappedNewUse
  <2>3. SameUse(x, page'[p]) /\ \A q \in Pages \ {p} : SameUse(page[q], page'[q])
    <3> HIDE DEF x
    <3>1. CASE page' = [page EXCEPT ![p] = PagedIn(x)]
      BY <1>2, <2>2, <3>1, UseKept
    <3>2. CASE page' = [page EXCEPT ![p] = x]
      BY <1>2, <2>2, <3>2, UseKept
    <3>3. CASE GiveUp(t, [page EXCEPT ![p] = x])
      <4> DEFINE Q == [page EXCEPT ![p] = x]
      <4>1. Q[p] = x /\ \A q \in Pages \ {p} : Q[q] = page[q]
        BY <1>2
      <4>2. GiveUp(t, Q)
        BY <3>3
      <4> HIDE DEF Q
      <4>3. \A q \in Pages : IsPage(Q[q])
        BY <1>2, <2>2, <4>1
      <4>4. \A q \in Pages : SameUse(Q[q], page'[q])
        BY <4>2, <4>3, GivesUpUse
      <4> QED
        BY <1>2, <4>1, <4>4
    <3> QED
      BY <2>1, <3>1, <3>2, <3>3 DEF x
  <2>4. Owns(page'[p]) = Owns(page[p]) + o.total /\ Maps(page'[p]) = Maps(page[p]) + m
    <3>1. Owns(page'[p]) = Owns(x) /\ Maps(page'[p]) = Maps(x)
      BY <2>3 DEF SameUse, Owns, Maps, IsMapped
    <3> QED
      BY <2>2, <3>1
  <2>5. m \in Int
    OBVIOUS
  <2>6. /\ vbar'[v].resident = vbar[v].resident + m
        /\ \A w \in Vbars \ {v} : vbar'[w].resident = vbar[w].resident
    <3>1. CASE o.result = "ok"
      <4>1. vbar' = [vbar EXCEPT ![v].resident = @ + 1] /\ m = 1
        BY <2>1, <3>1
      <4>2. DOMAIN vbar = Vbars /\ DOMAIN vbar[v] = VbarFields
        BY <1>3 DEF VbarsOK
      <4> HIDE DEF m
      <4> QED
        BY <1>3, <4>1, <4>2 DEF VbarFields
    <3>2. CASE o.result # "ok"
      <4>1. vbar' = vbar /\ m = 0
        BY <2>1, <3>2
      <4>2. vbar[v].resident \in Int
        <5>1. vbar[v].resident = SumFunction(MapsOf(page, v))
          BY <1>3 DEF Usage
        <5> QED
          BY <5>1, UseTypes
      <4>3. vbar[v].resident = vbar[v].resident + m
        BY <4>1, <4>2
      <4> QED
        BY <4>1, <4>3
    <3> QED
      BY <3>1, <3>2
  <2> DEFINE n == o.total
  <2>7. n \in Int /\ total' = total + n /\ Owns(page'[<<v, i>>]) = Owns(page[<<v, i>>]) + n
    BY <1>3, <2>1, <2>2, <2>4
  <2> HIDE DEF m, n
  <2>8. /\ Maps(page'[<<v, i>>]) = Maps(page[<<v, i>>]) + m
        /\ \A q \in Pages \ {<<v, i>>} : SameUse(page[q], page'[q])
    BY <1>3, <2>3, <2>4
  <2> QED
    BY <1>3, <2>5, <2>6, <2>7, <2>8, OnePageUse
<1> QED
  BY <1>4, <1>5

\* A teardown counts what the driver gives back.
LEMMA TeardownUse ==
    ASSUME VbarAssumption, Usage, PagesOK, VbarsOK, NEW t \in Threads, Acts(t), TeardownPage(t)
    PROVE  Usage'
<1> DEFINE v == call[t].vbar
           i == call[t].at
           p == <<v, i>>
           r == Canceled(page[p])
<1>1. v \in Vbars /\ i \in 1..NPages /\ p \in Pages /\ DOMAIN page = Pages
  BY TeardownPages DEF PagesOK, Pages
<1>2. IsPage(page[p]) /\ IsPage(r) /\ SameUse(page[p], r) /\ \A q \in Pages : SameUse(page[q], page[q])
  BY <1>1, CanceledPage, UseKept DEF PagesOK
<1>3. Owns(r) = Owns(page[p]) /\ Maps(r) = Maps(page[p])
  BY <1>2 DEF SameUse, Owns, Maps, IsMapped
<1>4. CASE page' = page /\ vbar' = vbar /\ total' = total
  BY <1>2, <1>4, UsageStays
<1>5. CASE page' = [page EXCEPT ![p] = r] /\ vbar' = vbar /\ total' = total
  <2>1. page'[p] = r /\ \A q \in Pages \ {p} : page'[q] = page[q]
    BY <1>1, <1>5
  <2> HIDE DEF p, r
  <2>2. \A q \in Pages : SameUse(page[q], page'[q])
    BY <1>2, <2>1
  <2> QED
    BY <1>5, <2>2, UsageStays
<1>6. ASSUME IsMapped(r), NEW o \in Released(r), page' = [page EXCEPT ![p] = o.page],
             total' = total + o.total, vbar' = [vbar EXCEPT ![v].resident = @ + o.resident]
      PROVE  Usage'
  <2> DEFINE n == o.total
             m == o.resident
  <2>1. page'[p] = o.page /\ \A q \in Pages \ {p} : page'[q] = page[q]
    BY <1>1, <1>6
  <2> HIDE DEF p, r
  <2>2. /\ n \in Int /\ Owns(page'[p]) = Owns(page[p]) + n
        /\ m \in Int /\ Maps(page'[p]) = Maps(page[p]) + m
    BY <1>2, <1>3, <1>6, <2>1, ReleasedUse
  <2>3. /\ vbar'[v].resident = vbar[v].resident + m
        /\ \A w \in Vbars \ {v} : vbar'[w].resident = vbar[w].resident
    BY <1>1, <1>6, <2>2, ResidentUse
  <2>4. /\ Owns(page'[<<v, i>>]) = Owns(page[<<v, i>>]) + n /\ total' = total + n
        /\ Maps(page'[<<v, i>>]) = Maps(page[<<v, i>>]) + m
        /\ \A q \in Pages \ {<<v, i>>} : SameUse(page[q], page'[q])
    BY <1>2, <1>6, <2>1, <2>2 DEF p
  <2>5. n \in Int /\ m \in Int /\ v \in Vbars /\ i \in 1..NPages
    BY <1>1, <2>2
  <2> HIDE DEF n, m, v, i
  <2> QED
    BY <2>3, <2>4, <2>5, OnePageUse
<1>7. \/ page' = page /\ vbar' = vbar /\ total' = total
      \/ page' = [page EXCEPT ![p] = r] /\ vbar' = vbar /\ total' = total
      \/ /\ IsMapped(r)
         /\ \E o \in Released(r) : /\ page' = [page EXCEPT ![p] = o.page]
                                   /\ total' = total + o.total
                                   /\ vbar' = [vbar EXCEPT ![v].resident = @ + o.resident]
  BY DEF TeardownPage
<1> QED
  BY <1>4, <1>5, <1>6, <1>7

\* A scan and a reclaim that stops only freeze and give back.
LEMMA ScanUse ==
    ASSUME Usage, PagesOK, NEW t, Freeze(t) \/ SynchronizeFails(t)
    PROVE  Usage'
<1> DEFINE Frozen(r) == [r EXCEPT !.evicting = TRUE, !.gen = @ + 1]
<1>1. total' = total /\ vbar' = vbar
  BY DEF Freeze, SynchronizeFails
<1>2. ASSUME NEW p \in Pages
      PROVE  page'[p] \in {page[p], Canceled(page[p]), Frozen(page[p])}
  <2>1. CASE Freeze(t)
    BY <2>1 DEF Freeze
  <2>2. CASE SynchronizeFails(t)
    BY <2>2 DEF SynchronizeFails
  <2> QED
    BY <2>1, <2>2
<1>3. ASSUME NEW p \in Pages PROVE SameUse(page[p], page'[p])
  <2> DEFINE r == page[p]
  <2>1. IsPage(r)
    BY DEF PagesOK
  <2> HIDE DEF r
  <2>2. SameUse(r, Frozen(r))
    BY <2>1 DEF IsPage, PageFields, SameUse
  <2>3. SameUse(r, r) /\ SameUse(r, Canceled(r))
    BY <2>1, UseKept
  <2> HIDE DEF Frozen
  <2> QED
    BY <1>2, <2>2, <2>3 DEF r
<1> QED
  BY <1>1, <1>3, UsageStays

\* The other steps of a fault count nothing.
LEMMA PassingUse ==
    ASSUME Usage, PagesOK, VbarAssumption, NEW t \in Threads, Acts(t),
           FaultHit(t) \/ FaultUnknown(t) \/ ReturnFault(t)
    PROVE  Usage'
<1> DEFINE Filled(r) == IF r.known = r.serial THEN r
                        ELSE [r EXCEPT !.known = r.serial, !.content = TRUE]
<1>1. total' = total /\ vbar' = vbar
  BY DEF FaultHit, FaultUnknown, ReturnFault
<1>2. \A p \in Pages : IsPage(page[p])
  BY DEF PagesOK
<1>3. ASSUME NEW p \in Pages PROVE SameUse(page[p], page'[p])
  <2>1. CASE FaultHit(t)
    <3>1. page'[p] = page[p] \/ page'[p] = Pinned(page[p])
      BY <2>1 DEF FaultHit, PagesOK
    <3> QED
      BY <1>2, <3>1, UseKept
  <2>2. CASE FaultUnknown(t)
    BY <1>2, <2>2, GivesUpUse DEF FaultUnknown
  <2>3. CASE ReturnFault(t)
    <3> DEFINE r == page[p]
    <3>1. page'[p] = r \/ page'[p] = [r EXCEPT !.known = r.serial, !.content = TRUE]
      BY <2>3 DEF ReturnFault
    <3>2. IsPage(r)
      BY <1>2
    <3> HIDE DEF r
    <3>3. SameUse(r, [r EXCEPT !.known = r.serial, !.content = TRUE])
      BY <3>2 DEF IsPage, PageFields, SameUse
    <3>4. SameUse(r, page'[p])
      BY <3>1, <3>3 DEF SameUse
    <3> QED
      BY <3>4 DEF r
  <2> QED
    BY <2>1, <2>2, <2>3
<1> QED
  BY <1>1, <1>3, UsageStays

\* Nor do the consumers.
LEMMA ConsumerUse ==
    ASSUME Usage, PagesOK, VbarAssumption, NEW t \in Threads, Acts(t), ConsumerNext(t)
    PROVE  Usage'
<1>1. total' = total /\ vbar' = vbar
  <2>1. ASSUME NEW own, NEW q, Submit(t, own, q) \/ \E pc : TakeToken(t, pc, q)
        PROVE  total' = total /\ vbar' = vbar
    BY <2>1 DEF Submit, TakeToken, memory
  <2>2. CASE Register(t) \/ Unpin(t)
    BY <2>2 DEF Register, Unpin
  <2>3. CASE Release(t)
    BY <2>3 DEF Release
  <2>4. ASSUME NEW R, Acquire(t, R) PROVE total' = total /\ vbar' = vbar
    BY <2>4 DEF Acquire
  <2> QED
    BY <2>1, <2>2, <2>3, <2>4 DEF ConsumerNext
<1>2. \A p \in Pages : IsPage(page[p])
  BY DEF PagesOK
<1>3. ASSUME NEW r, IsPage(r), NEW token \in TokenRecords, NEW kind, NEW n
      PROVE  /\ SameUse(r, Depends(r, token)) /\ SameUse(r, [Canceled(r) EXCEPT !.unknown = TRUE])
             /\ SameUse(r, WithHolds(Canceled(r), kind, n))
             /\ SameUse(r, WithHolds([Canceled(r) EXCEPT !.unknown = TRUE], kind, n))
             /\ SameUse(r, [Depends(r, token) EXCEPT !.pin = n])
             /\ SameUse(r, WithHolds(Depends(r, token), kind, n))
  <2> DEFINE s == Canceled(r)
             d == Depends(r, token)
             u == [s EXCEPT !.unknown = TRUE]
  <2>1. IsPage(s) /\ SameUse(r, s)
    BY <1>3, CanceledPage, UseKept
  <2>2. DOMAIN u = PageFields /\ SameUse(r, u)
    BY <2>1 DEF IsPage, PageFields, SameUse
  <2>3. d = s \/ d = u \/ \E T : d = [s EXCEPT !.tokens = T]
    <3>1. d = s \/ d = u \/ d = [s EXCEPT !.tokens[token.queue] = token.upto]
      BY DEF Depends, Recorded
    <3> HIDE DEF d, u, s
    <3>2. ASSUME d = [s EXCEPT !.tokens[token.queue] = token.upto]
          PROVE  d = [s EXCEPT !.tokens = [s.tokens EXCEPT ![token.queue] = token.upto]]
      BY <2>1, <3>2 DEF IsPage, PageFields
    <3> QED
      BY <3>1, <3>2
  <2> HIDE DEF s, u
  <2>4. DOMAIN d = PageFields /\ SameUse(r, d)
    <3> HIDE DEF d
    <3> QED
      BY <2>1, <2>2, <2>3 DEF IsPage, PageFields, SameUse
  <2>5. DOMAIN s = PageFields /\ SameUse(r, s)
    BY <2>1 DEF IsPage
  <2> HIDE DEF d
  <2>6. ASSUME NEW x, DOMAIN x = PageFields, SameUse(r, x)
        PROVE  SameUse(r, WithHolds(x, kind, n)) /\ SameUse(r, [x EXCEPT !.pin = n])
    BY <2>6 DEF WithHolds, PageFields, SameUse
  <2> QED
    BY <2>2, <2>4, <2>5, <2>6 DEF s, d, u
<1>4. ASSUME page' = page PROVE Usage'
  BY <1>1, <1>2, <1>4, UseKept, UsageStays
<1>5. SUFFICES ASSUME NEW p \in Pages, page' # page PROVE SameUse(page[p], page'[p])
  BY <1>1, <1>4, UsageStays
<1> DEFINE r == page[p]
<1>6. IsPage(r) /\ SameUse(r, r)
  BY <1>2, UseKept
<1>7. CASE Register(t)
  <2>1. call[t].token \in TokenRecords
    BY <1>7 DEF Register, Acts, CallOK, Consumes
  <2>2. page'[p] = r \/ page'[p] = Depends(r, call[t].token)
    BY <1>7 DEF Register
  <2> HIDE DEF r
  <2>3. SameUse(r, Depends(r, call[t].token))
    BY <1>3, <1>6, <2>1
  <2>4. SameUse(r, page'[p])
    BY <1>6, <2>2, <2>3
  <2> QED
    BY <2>4 DEF r
<1>8. CASE Unpin(t)
  <2> DEFINE d == Depends(r, call[t].token)
  <2>1. call[t].token \in TokenRecords
    BY <1>8 DEF Unpin, Acts, CallOK, Consumes
  <2>2. page'[p] = r \/ page'[p] = [d EXCEPT !.pin = d.pin - 1]
    BY <1>8 DEF Unpin
  <2>3. \A n : SameUse(r, [d EXCEPT !.pin = n])
    BY <1>3, <1>6, <2>1
  <2> HIDE DEF d
  <2> QED
    BY <1>6, <2>2, <2>3
<1>9. CASE Release(t)
  <2> DEFINE d == Depends(r, call[t].token)
             u == [Canceled(r) EXCEPT !.unknown = TRUE]
  <2>1. call[t].token \in TokenRecords
    BY <1>9 DEF Release, Acts, CallOK, Consumes
  <2>2. page'[p] = r \/ \E kind, n : page'[p] = WithHolds(d, kind, n) \/ page'[p] = WithHolds(u, kind, n)
    BY <1>9 DEF Release
  <2>3. \A kind, n : SameUse(r, WithHolds(d, kind, n)) /\ SameUse(r, WithHolds(u, kind, n))
    BY <1>3, <1>6, <2>1
  <2> HIDE DEF d, u
  <2> QED
    BY <1>6, <2>2, <2>3
<1>10. ASSUME NEW R, Acquire(t, R) PROVE SameUse(page[p], page'[p])
  <2> DEFINE s == Canceled(r)
  <2>1. page'[p] = r \/ \E kind, n : page'[p] = WithHolds(s, kind, n)
    BY <1>10 DEF Acquire
  <2>2. [queue |-> NoQueue, upto |-> 0] \in TokenRecords
    BY DEF TokenRecords
  <2>3. \A kind, n : SameUse(r, WithHolds(s, kind, n))
    BY <1>3, <1>6, <2>2
  <2> HIDE DEF s
  <2> QED
    BY <1>6, <2>1, <2>3
<1>11. ASSUME NEW own, NEW q, Submit(t, own, q) \/ \E pc : TakeToken(t, pc, q) PROVE page' = page
  BY <1>11 DEF Submit, TakeToken, memory
<1> QED
  BY <1>5, <1>7, <1>8, <1>9, <1>10, <1>11 DEF ConsumerNext

\* The counters start at nothing.
LEMMA UsageInit == VbarAssumption /\ Init => Usage
<1> SUFFICES ASSUME VbarAssumption, Init PROVE Usage
  OBVIOUS
<1>1. ASSUME NEW f, DOMAIN f = Pages, \A p \in Pages : f[p] = 0 PROVE SumFunction(f) = 0
  <2>1. IsFiniteSet(DOMAIN f)
    BY <1>1, FinitePages
  <2> QED
    BY <1>1, <2>1, SumOfZeros
<1>2. \A p \in Pages : page[p].handle = FALSE /\ Owns(page[p]) = 0 /\ Maps(page[p]) = 0
  BY DEF Init, AbsentPage, Owns, Maps, IsMapped
<1>3. SumFunction(OwnsOf(page)) = 0
  BY <1>1, <1>2, OwnsValues
<1>4. ASSUME NEW v \in Vbars PROVE SumFunction(MapsOf(page, v)) = 0
  <2>1. \A p \in Pages : MapsOf(page, v)[p] = 0
    BY <1>2, MapsValues
  <2> QED
    BY <1>1, <2>1, MapsValues
<1> QED
  BY <1>3, <1>4 DEF Init, Usage

\* Every step counts what it owns and maps.
LEMMA UsageKept == VbarAssumption /\ VbarInv /\ Usage /\ [Next]_vars => Usage'
<1> SUFFICES ASSUME VbarAssumption, VbarInv, Usage, [Next]_vars PROVE Usage'
  OBVIOUS
<1>1. PagesOK /\ VbarsOK /\ TypesOK /\ CallsOK /\ FaultsOK
  BY DEF VbarInv, TypesOK
<1>2. \A p \in Pages : SameUse(page[p], page[p])
  BY DEF SameUse
<1>3. ASSUME page' = page, total' = total, \A v \in Vbars : vbar'[v].resident = vbar[v].resident
      PROVE  Usage'
  BY <1>2, <1>3, UsageStays
<1>5. CASE ListNext
  <2>1. PICK v \in Vbars : Allocate(v) \/ Prioritize(v) \/ Deprioritize(v) \/ CopyAcquire(v)
                           \/ CopyRelease(v)
    BY <1>5 DEF ListNext
  <2>2. page' = page /\ total' = total
    BY <2>1 DEF Allocate, Prioritize, Deprioritize, CopyAcquire, CopyRelease
  <2>3. \A w \in Vbars : vbar'[w].resident = vbar[w].resident
    <3>1. \/ vbar' = vbar
          \/ vbar' = [vbar EXCEPT ![v].state = "live"]
          \/ vbar' = [vbar EXCEPT ![v].watermark = NPages]
          \/ vbar' = [vbar EXCEPT ![v].copies = @ + 1]
          \/ vbar' = [vbar EXCEPT ![v].copies = @ - 1]
      BY <2>1 DEF Allocate, Prioritize, Deprioritize, CopyAcquire, CopyRelease
    <3> QED
      BY <1>1, <3>1 DEF VbarsOK, VbarFields
  <2> QED
    BY <1>3, <2>2, <2>3
<1>6. CASE LimitNext
  <2>1. page' = page /\ total' = total
    BY <1>6 DEF LimitNext, SetLimit
  <2>2. \A w \in Vbars : vbar'[w].resident = vbar[w].resident
    BY <1>1, <1>6, LimitVbars DEF VbarsOK, VbarFields
  <2> QED
    BY <1>3, <2>1, <2>2
<1>7. ASSUME NEW o \in inflight, Finish(o) PROVE Usage'
  BY <1>3, <1>7 DEF Finish, memory
<1>8. CASE Quiet \/ UNCHANGED vars
  BY <1>3, <1>8 DEF Quiet, vars, memory
<1>9. ASSUME NEW t \in Threads, ReclaimNext(t) PROVE Usage'
  <2>1. Acts(t)
    BY <1>1, ThreadActs
  <2>2. CASE Freeze(t) \/ SynchronizeFails(t)
    BY <1>1, <2>2, ScanUse
  <2>3. CASE Commit(t)
    BY <1>1, <2>1, <2>3, CommitUse
  <2>4. CASE Snapshot(t) \/ Synchronized(t)
    BY <1>3, <2>4 DEF Snapshot, Synchronized, memory
  <2>5. ASSUME NEW need, NEW keep, Pressure(t, need, keep) PROVE Usage'
    BY <1>3, <2>5 DEF Pressure, memory
  <2>6. ASSUME NEW v, NEW n, SetWatermark(t, v, n) \/ FreeMemory(t, v, n) PROVE Usage'
    <3>1. page' = page /\ total' = total /\ \E w : vbar' = [vbar EXCEPT ![v].watermark = w]
      BY <2>6 DEF SetWatermark, FreeMemory
    <3>2. \A w \in Vbars : vbar'[w].resident = vbar[w].resident
      BY <1>1, <3>1 DEF VbarsOK, VbarFields
    <3> QED
      BY <1>3, <3>1, <3>2
  <2> QED
    BY <1>9, <2>2, <2>3, <2>4, <2>5, <2>6 DEF ReclaimNext
<1>10. ASSUME NEW t \in Threads, FaultNext(t) PROVE Usage'
  <2>1. Acts(t)
    BY <1>1, ThreadActs
  <2>2. CASE FaultHit(t) \/ FaultUnknown(t) \/ ReturnFault(t)
    BY <1>1, <2>1, <2>2, PassingUse
  <2>3. CASE FaultRestore(t)
    BY <1>1, <2>1, <2>3, FaultRestoreUse
  <2>4. CASE FaultMiss(t)
    BY <1>3, <2>4 DEF FaultMiss, memory
  <2>5. ASSUME NEW deficit, FaultMap(t, deficit) PROVE Usage'
    BY <1>1, <2>1, <2>5, FaultMapUse
  <2>6. ASSUME NEW v, NEW first, NEW last, NEW deficit, Fault(t, v, first, last, deficit)
        PROVE  Usage'
    BY <1>3, <2>6 DEF Fault, memory
  <2>7. ASSUME NEW fits, EnterFault(t, fits) PROVE Usage'
    <3>1. page' = page /\ total' = total
      BY <2>7 DEF EnterFault
    <3>2. vbar' = vbar \/ \E v, w : vbar' = [vbar EXCEPT ![v].watermark = w]
      BY <2>7 DEF EnterFault
    <3>3. \A w \in Vbars : vbar'[w].resident = vbar[w].resident
      BY <1>1, <3>2 DEF VbarsOK, VbarFields
    <3> QED
      BY <1>3, <3>1, <3>3
  <2> QED
    BY <1>10, <2>2, <2>3, <2>4, <2>5, <2>6, <2>7 DEF FaultNext
<1>11. ASSUME NEW t \in Threads, ConsumerNext(t) PROVE Usage'
  BY <1>1, <1>11, ThreadActs, ConsumerUse
<1>12. ASSUME NEW t \in Threads, FreeNext(t) PROVE Usage'
  <2>1. Acts(t)
    BY <1>1, ThreadActs
  <2>2. CASE TeardownPage(t)
    BY <1>1, <2>1, <2>2, TeardownUse
  <2>3. CASE ~TeardownPage(t)
    <3>1. page' = page /\ total' = total /\ (vbar' = vbar \/ \E v, n : vbar' = [vbar EXCEPT ![v].state = n])
      <4>1. ASSUME NEW v, Free(t, v)
            PROVE  page' = page /\ total' = total /\ \E n : vbar' = [vbar EXCEPT ![v].state = n]
        BY <4>1 DEF Free
      <4>2. CASE CheckFree(t) \/ BeginTeardown(t)
        BY <4>2 DEF CheckFree, BeginTeardown, memory
      <4>3. ASSUME NEW refused, EndTeardown(t, refused)
            PROVE  page' = page /\ total' = total
                   /\ (vbar' = vbar \/ \E v, n : vbar' = [vbar EXCEPT ![v].state = n])
        BY <4>3 DEF EndTeardown
      <4> QED
        BY <1>12, <2>3, <4>1, <4>2, <4>3 DEF FreeNext
    <3>2. \A w \in Vbars : vbar'[w].resident = vbar[w].resident
      BY <1>1, <3>1 DEF VbarsOK, VbarFields
    <3> QED
      BY <1>3, <3>1, <3>2
  <2> QED
    BY <2>2, <2>3
<1> QED
  BY <1>5, <1>6, <1>7, <1>8, <1>9, <1>10, <1>11, <1>12 DEF Next

\* total_vram_usage and the resident counts are right in every state, whatever the
\* driver refuses and however reclaims, faults and teardowns interleave.
THEOREM UsageCounted == Spec => []UsageIsCounted
<1>1. Init => Usage
  BY UsageInit, VbarAssumption
<1>2. VbarInv /\ Usage /\ [Next]_vars => Usage'
  BY UsageKept, VbarAssumption
<1>3. Usage => UsageIsCounted
  BY UsageCounts, VbarAssumption
<1> QED
  BY <1>1, <1>2, <1>3, VbarInvariant, PTL DEF Spec

-----------------------------------------------------------------------------
(* The contents of leased pages.                                             *)

\* The records of the page table.
PageRecords ==
    [handle : BOOLEAN, mapped : {"unmapped", "mapped", "unknown"}, pin : Nat, serial : Nat,
     evicting : BOOLEAN, gen : Nat, external : Nat, capture : Nat,
     tokens : [Queues -> 0..MaxOps], unknown : BOOLEAN, content : BOOLEAN,
     known : Nat \cup {NoSignature}]

\* A page whose signature the application knows holds what it copied there, unless
\* the driver may fail twice.
Honest(r) ==
    /\ r \in PageRecords /\ r.known <= r.serial
    /\ MaxFaults <= 1 => /\ r.handle => r.mapped = "mapped"
                         /\ r.handle /\ r.known = r.serial => r.content

\* Physical memory that stays keeps its contents.
Retains(r, s) == MaxFaults <= 1 /\ r.handle /\ s.handle /\ r.content => s.content

\* Nothing happens to the memory of a page and its signatures.
SameMemory(r, s) ==
    /\ s.handle = r.handle /\ s.mapped = r.mapped /\ s.content = r.content
    /\ s.serial = r.serial /\ s.known = r.known

\* Then the page stays honest.
LEMMA SameMemoryHonest ==
    ASSUME NEW r, Honest(r), NEW s \in PageRecords, SameMemory(r, s)
    PROVE  Honest(s) /\ Retains(r, s)
BY DEF Honest, Retains, SameMemory

\* Those of the operations on a page that leave its memory alone.
QuietPage(r, s) == s \in PageRecords /\ SameMemory(r, s)

\* Pins and holds.
LEMMA CountsQuiet ==
    ASSUME NEW r \in PageRecords, NEW n \in Nat, NEW kind
    PROVE  QuietPage(r, WithPins(r, n)) /\ QuietPage(r, WithHolds(r, kind, n))
<1>1. QuietPage(r, WithPins(r, n))
  BY DEF PageRecords, SameMemory, WithPins, QuietPage
<1>2. QuietPage(r, WithHolds(r, kind, n))
  <2>1. CASE kind = "external"
    BY <2>1 DEF PageRecords, SameMemory, WithHolds, QuietPage
  <2>2. CASE kind # "external"
    BY <2>2 DEF PageRecords, SameMemory, WithHolds, QuietPage
  <2> QED
    BY <2>1, <2>2
<1> QED
  BY <1>1, <1>2

\* A freeze, and the end of one.
LEMMA FreezesQuiet ==
    ASSUME NEW r \in PageRecords
    PROVE  /\ QuietPage(r, [r EXCEPT !.evicting = TRUE, !.gen = @ + 1])
           /\ QuietPage(r, [r EXCEPT !.evicting = FALSE, !.gen = @ + 1])
<1>1. ASSUME NEW n \in Nat
      PROVE  /\ QuietPage(r, [r EXCEPT !.evicting = TRUE, !.gen = n])
             /\ QuietPage(r, [r EXCEPT !.evicting = FALSE, !.gen = n])
  BY DEF PageRecords, SameMemory, QuietPage
<1>2. r.gen + 1 \in Nat
  BY DEF PageRecords
<1> QED
  BY <1>1, <1>2

\* A frozen page is given up again.
LEMMA ThawQuiet ==
    ASSUME NEW r \in PageRecords
    PROVE  QuietPage(r, [r EXCEPT !.evicting = FALSE])
BY DEF PageRecords, SameMemory, QuietPage

\* Two such operations are one.
LEMMA QuietTwice ==
    ASSUME NEW r, NEW s, NEW u, QuietPage(r, s), QuietPage(s, u)
    PROVE  QuietPage(r, u)
BY DEF QuietPage, SameMemory

\* No step, a cancelled freeze, and a pin.
LEMMA CanceledHonest ==
    ASSUME NEW r \in PageRecords
    PROVE  QuietPage(r, r) /\ QuietPage(r, Canceled(r)) /\ QuietPage(r, Pinned(r))
<1>1. QuietPage(r, Canceled(r))
  <2>1. CASE r.evicting
    <3>1. Canceled(r) = [r EXCEPT !.evicting = FALSE, !.gen = @ + 1]
      BY <2>1 DEF Canceled
    <3>2. QuietPage(r, [r EXCEPT !.evicting = FALSE, !.gen = @ + 1])
      BY FreezesQuiet
    <3> QED
      BY <3>1, <3>2
  <2>2. CASE ~r.evicting
    BY <2>2 DEF Canceled, QuietPage, SameMemory
  <2> QED
    BY <2>1, <2>2
<1>2. QuietPage(Canceled(r), Pinned(r))
  <2> DEFINE s == Canceled(r)
  <2>1. Pinned(r) = [s EXCEPT !.pin = @ + 1] /\ s \in PageRecords
    BY <1>1 DEF Pinned, QuietPage
  <2> HIDE DEF s
  <2>2. QuietPage(s, [s EXCEPT !.pin = @ + 1])
    BY <2>1 DEF QuietPage, PageRecords, SameMemory
  <2> QED
    BY <2>1, <2>2 DEF s
<1>3. QuietPage(r, r)
  BY DEF QuietPage, SameMemory
<1> QED
  BY <1>1, <1>2, <1>3, QuietTwice

\* The tokens of consumers: an operator that was submitted, or no queue.
SmallTokens == [queue : Queues \cup {NoQueue}, upto : 0..MaxOps]

\* A consumer leaves its token on a page, or the mark of an unknown one.
LEMMA DependsHonest ==
    ASSUME NEW r \in PageRecords, NEW token \in SmallTokens, VbarAssumption
    PROVE  /\ QuietPage(r, Depends(r, token))
           /\ QuietPage(r, [Canceled(r) EXCEPT !.unknown = TRUE])
<1> DEFINE s == Canceled(r)
<1>1. QuietPage(r, s) /\ s \in PageRecords
  BY CanceledHonest DEF QuietPage
<1> HIDE DEF s
<1>2. QuietPage(s, s) /\ QuietPage(s, [s EXCEPT !.unknown = TRUE])
  BY <1>1 DEF QuietPage, PageRecords, SameMemory
<1>3. ASSUME token.queue \in Queues PROVE QuietPage(s, Recorded(s, token))
  <2> DEFINE T == [s.tokens EXCEPT ![token.queue] = token.upto]
  <2>1. Recorded(s, token) = s \/ Recorded(s, token) = [s EXCEPT !.tokens = T]
    BY <1>1 DEF Recorded, PageRecords
  <2>2. T \in [Queues -> 0..MaxOps]
    BY <1>1, <1>3 DEF SmallTokens, PageRecords
  <2> HIDE DEF T
  <2>3. QuietPage(s, [s EXCEPT !.tokens = T])
    BY <1>1, <2>2 DEF QuietPage, PageRecords, SameMemory
  <2> QED
    BY <1>2, <2>1, <2>3
<1>4. Depends(r, token) \in {s, [s EXCEPT !.unknown = TRUE]} \/
      (token.queue \in Queues /\ Depends(r, token) = Recorded(s, token))
  BY DEF Depends, SmallTokens, s
<1>5. QuietPage(s, Depends(r, token))
  BY <1>2, <1>3, <1>4
<1> QED
  BY <1>1, <1>2, <1>5, QuietTwice DEF s

\* Limbo and the other ends of a driver sequence that failed, as records.
LEMMA PartsRecords ==
    ASSUME NEW r \in PageRecords, NEW m \in {"unmapped", "mapped", "unknown"}
    PROVE  /\ [r EXCEPT !.mapped = m] \in PageRecords
           /\ [r EXCEPT !.mapped = m].known = r.known /\ [r EXCEPT !.mapped = m].serial = r.serial
           /\ [r EXCEPT !.mapped = m].content = r.content
           /\ [r EXCEPT !.mapped = m].handle = r.handle /\ [r EXCEPT !.mapped = m].mapped = m
           /\ Limbo(r) \in PageRecords
           /\ Limbo(r).known = r.known /\ Limbo(r).serial = r.serial
BY DEF PageRecords, Limbo

\* What is released is gone, what stays is what it was.
LEMMA ReleasedHonest ==
    ASSUME NEW r, Honest(r), IsMapped(r), NEW o \in Released(r), o.failed <= MaxFaults,
           VbarAssumption
    PROVE  Honest(o.page) /\ Retains(r, o.page)
<1> DEFINE kept == [r EXCEPT !.evicting = FALSE]
           gone == [kept EXCEPT !.handle = FALSE, !.mapped = "unmapped",
                                !.tokens = NoTokens, !.unknown = FALSE, !.content = FALSE]
           bare == [kept EXCEPT !.mapped = "unmapped", !.unknown = TRUE]
<1>1. \/ \E n \in {0, 1} : o = Outcome(kept, 0, 0, n, "kept")
      \/ o = Outcome(gone, -1, -1, 0, "freed")
      \/ o = Outcome(bare, 0, -1, 2, "kept")
      \/ o = Outcome(Limbo(kept), 0, -1, 3, "kept")
  BY DEF Released
<1>2. r \in PageRecords
  BY DEF Honest
<1>3. QuietPage(r, kept) /\ kept \in PageRecords
  BY <1>2, ThawQuiet DEF QuietPage
<1>4. MaxFaults \in Nat /\ NoTokens \in [Queues -> 0..MaxOps]
  BY DEF VbarAssumption, NoTokens
<1> HIDE DEF kept
<1>5. gone \in PageRecords /\ ~gone.handle /\ gone.known = kept.known /\ gone.serial = kept.serial
  BY <1>3, <1>4 DEF PageRecords
<1>6. bare \in PageRecords /\ bare.known = kept.known /\ bare.serial = kept.serial
  BY <1>3 DEF PageRecords
<1> HIDE DEF gone, bare
<1>7. /\ Limbo(kept) \in PageRecords
      /\ Limbo(kept).known = kept.known /\ Limbo(kept).serial = kept.serial
  BY <1>3, PartsRecords
<1>8. \/ o.page = kept
      \/ o.page = gone
      \/ o.page \in {bare, Limbo(kept)} /\ 2 <= MaxFaults
  BY <1>1, <1>4 DEF Outcome
<1>9. Honest(kept) /\ Retains(r, kept)
  BY <1>3, SameMemoryHonest DEF QuietPage
<1>10. kept.known = r.known /\ kept.serial = r.serial
  BY <1>3 DEF QuietPage, SameMemory
<1>11. Honest(gone) /\ Retains(r, gone)
  BY <1>5, <1>10 DEF Honest, Retains
<1>12. ASSUME NEW s \in {bare, Limbo(kept)}, 2 <= MaxFaults PROVE Honest(s) /\ Retains(r, s)
  BY <1>4, <1>6, <1>7, <1>10, <1>12 DEF Honest, Retains
<1> QED
  BY <1>8, <1>9, <1>11, <1>12

\* A page that lost its mapping is mapped again; that it has a handle without a mapping
\* took two failures.
LEMMA RestoredHonest ==
    ASSUME NEW r, Honest(r), r.handle, ~IsMapped(r), NEW counted, NEW o \in Restored(r, counted),
           VbarAssumption
    PROVE  Honest(o.page) /\ Retains(r, o.page) /\ 2 <= MaxFaults
<1> DEFINE with == [r EXCEPT !.mapped = "mapped"]
           bare == [r EXCEPT !.mapped = "unmapped"]
<1>1. \/ o = Outcome(with, 0, counted, 0, "ok")
      \/ o = Outcome(bare, 0, 0, 1, "error")
      \/ o = Outcome(Limbo(r), 0, 0, 2, "error")
  BY DEF Restored
<1>2. MaxFaults \in Nat /\ 2 <= MaxFaults
  BY DEF Honest, IsMapped, VbarAssumption
<1>3. /\ with \in PageRecords /\ with.known = r.known /\ with.serial = r.serial
      /\ bare \in PageRecords /\ bare.known = r.known /\ bare.serial = r.serial
      /\ Limbo(r) \in PageRecords /\ Limbo(r).known = r.known /\ Limbo(r).serial = r.serial
  BY PartsRecords DEF Honest
<1> HIDE DEF with, bare
<1>4. o.page \in {with, bare, Limbo(r)}
  BY <1>1 DEF Outcome
<1> QED
  BY <1>2, <1>3, <1>4 DEF Honest, Retains

\* What a signature says of a page that was paged in is not known to anybody.
LEMMA PagedInHonest ==
    ASSUME NEW r, r \in PageRecords, r.known <= r.serial, r.mapped = "mapped"
    PROVE  Honest(PagedIn(r)) /\ PagedIn(r).handle = r.handle /\ PagedIn(r).content = r.content
<1>1. ASSUME NEW n \in Nat, NEW k \in Nat
      PROVE  LET s == [r EXCEPT !.evicting = FALSE, !.serial = n, !.pin = k]
             IN  /\ s \in PageRecords /\ s.serial = n /\ s.known = r.known
                 /\ s.handle = r.handle /\ s.mapped = r.mapped /\ s.content = r.content
  BY DEF PageRecords
<1>2. r.serial + 1 \in Nat /\ r.pin + 1 \in Nat /\ r.known \in Int /\ r.serial \in Nat
  BY DEF PageRecords, NoSignature
<1>3. /\ PagedIn(r) \in PageRecords /\ PagedIn(r).serial = r.serial + 1 /\ PagedIn(r).known = r.known
      /\ PagedIn(r).handle = r.handle /\ PagedIn(r).mapped = r.mapped
      /\ PagedIn(r).content = r.content
  BY <1>1, <1>2 DEF PagedIn
<1> QED
  BY <1>2, <1>3 DEF Honest

\* vbar_map_new_page: a page that fails leaves nothing behind, unless its cleanup
\* fails too.
LEMMA MappedNewHonest ==
    ASSUME NEW r, Honest(r), ~IsMapped(r), NEW o \in MappedNew(r), o.failed <= MaxFaults,
           VbarAssumption
    PROVE  /\ o.result = "ok" => Honest(PagedIn(o.page)) /\ Retains(r, PagedIn(o.page))
           /\ o.result # "ok" => Honest(o.page) /\ Retains(r, o.page)
<1>1. r \in PageRecords /\ r.known <= r.serial /\ MaxFaults \in Nat /\ Retains(r, r)
  BY DEF Honest, VbarAssumption, Retains
<1>2. CASE r.handle /\ r.mapped = "unknown"
  <2>1. o = Outcome(r, 0, 0, 0, "error")
    BY <1>2 DEF MappedNew
  <2> QED
    BY <1>1, <2>1 DEF Outcome
<1>3. CASE r.handle /\ r.mapped # "unknown"
  <2> DEFINE with == [r EXCEPT !.mapped = "mapped"]
  <2>1. o \in Restored(r, 0)
    BY <1>3 DEF MappedNew
  <2>2. Honest(o.page) /\ Retains(r, o.page) /\ 2 <= MaxFaults
    BY <1>3, <2>1, RestoredHonest
  <2>3. o.result = "ok" => o.page.mapped = "mapped"
    <3>1. with.mapped = "mapped"
      BY <1>1, PartsRecords
    <3>2. \/ o = Outcome(with, 0, 0, 0, "ok")
          \/ o = Outcome([r EXCEPT !.mapped = "unmapped"], 0, 0, 1, "error")
          \/ o = Outcome(Limbo(r), 0, 0, 2, "error")
      BY <2>1 DEF Restored
    <3> HIDE DEF with
    <3> QED
      BY <3>1, <3>2 DEF Outcome
  <2>4. ASSUME o.result = "ok" PROVE Honest(PagedIn(o.page))
    BY <2>2, <2>3, <2>4, PagedInHonest DEF Honest
  <2> QED
    BY <1>1, <2>2, <2>4 DEF Retains
<1>4. CASE ~r.handle
  <2> DEFINE fresh == [r EXCEPT !.handle = TRUE, !.content = FALSE]
             with  == [fresh EXCEPT !.mapped = "mapped"]
  <2>1. \/ o = Outcome(with, 1, 0, 0, "ok")
        \/ o = Outcome(r, 0, 0, 0, "oom")
        \/ \E why \in {"oom", "error"} : \/ o = Outcome(r, 0, 0, 1, why)
                                         \/ o = Outcome(fresh, 1, 0, 2, why)
                                         \/ o = Outcome(Limbo(fresh), 1, 0, 2, why)
    BY <1>4 DEF MappedNew
  <2>2. fresh \in PageRecords /\ fresh.known = r.known /\ fresh.serial = r.serial
    BY <1>1 DEF PageRecords
  <2> HIDE DEF fresh
  <2>3. with \in PageRecords /\ with.known = r.known /\ with.serial = r.serial /\ with.mapped = "mapped"
    BY <2>2, PartsRecords
  <2>4. Limbo(fresh) \in PageRecords /\ Limbo(fresh).known = r.known /\ Limbo(fresh).serial = r.serial
    BY <2>2, PartsRecords
  <2> HIDE DEF with
  <2>5. \/ o.page = with /\ o.result = "ok"
        \/ o.page = r /\ o.result # "ok"
        \/ o.page \in {fresh, Limbo(fresh)} /\ o.result # "ok" /\ 2 <= MaxFaults
    <3>1. CASE o = Outcome(with, 1, 0, 0, "ok") \/ o = Outcome(r, 0, 0, 0, "oom")
      BY <3>1 DEF Outcome
    <3>2. ASSUME NEW why \in {"oom", "error"}, o = Outcome(r, 0, 0, 1, why)
          PROVE  o.page = r /\ o.result # "ok"
      BY <3>2 DEF Outcome
    <3>3. ASSUME NEW why \in {"oom", "error"}, NEW x \in {fresh, Limbo(fresh)},
                 o = Outcome(x, 1, 0, 2, why)
          PROVE  o.page \in {fresh, Limbo(fresh)} /\ o.result # "ok" /\ 2 <= MaxFaults
      BY <1>1, <3>3 DEF Outcome
    <3> QED
      BY <2>1, <3>1, <3>2, <3>3
  <2>6. Honest(PagedIn(with)) /\ Retains(r, PagedIn(with))
    BY <1>1, <1>4, <2>3, PagedInHonest DEF Retains
  <2>7. ASSUME NEW s \in {fresh, Limbo(fresh)}, 2 <= MaxFaults PROVE Honest(s) /\ Retains(r, s)
    BY <1>1, <2>2, <2>4, <2>7 DEF Honest, Retains
  <2> QED
    BY <1>1, <2>5, <2>6, <2>7
<1> QED
  BY <1>2, <1>3, <1>4

\* The application copies what it does not know.
LEMMA FilledHonest ==
    ASSUME NEW r, Honest(r)
    PROVE  LET s == IF r.known = r.serial THEN r
                    ELSE [r EXCEPT !.known = r.serial, !.content = TRUE]
           IN  /\ Honest(s) /\ Retains(r, s)
               /\ MaxFaults <= 1 /\ r.handle => s.content
<1> DEFINE s == [r EXCEPT !.known = r.serial, !.content = TRUE]
<1>1. CASE r.known = r.serial
  BY <1>1 DEF Honest, Retains
<1>2. /\ s \in PageRecords /\ s.known = r.serial /\ s.serial = r.serial /\ s.content = TRUE
      /\ s.handle = r.handle /\ s.mapped = r.mapped
  BY DEF Honest, PageRecords
<1>3. s.serial \in Nat
  BY <1>2 DEF Honest, PageRecords
<1> HIDE DEF s
<1>4. Honest(s) /\ Retains(r, s) /\ s.content
  BY <1>2, <1>3 DEF Honest, Retains
<1> QED
  BY <1>1, <1>4 DEF s

\* The bounds of the model, and the tokens of the calls that have one.
BoundsOK ==
    /\ calls \in 0..MaxCalls /\ faults \in 0..MaxFaults
    /\ submitted \in [Queues -> 0..MaxOps]
    /\ \A t \in Threads : call[t].pc \in Consumes => call[t].token \in SmallTokens

\* A page on which a step leaves the truth.
StaysHonest(r, s) == Honest(s) /\ Retains(r, s)

\* A call that is counted, or a driver sequence, stays within its bound.
LEMMA StepsBounded ==
    ASSUME VbarAssumption, BoundsOK, NEW n \in Nat
    PROVE  /\ Started => calls' \in 0..MaxCalls /\ faults' \in 0..MaxFaults
           /\ Fails(n) => calls' \in 0..MaxCalls /\ faults' \in 0..MaxFaults /\ n <= MaxFaults
<1>1. MaxCalls \in Nat /\ MaxFaults \in Nat /\ calls \in 0..MaxCalls /\ faults \in 0..MaxFaults
  BY DEF VbarAssumption, BoundsOK
<1> QED
  BY <1>1 DEF Started, Fails

\* The failures of a commit are those of its pages.
LEMMA CommitFails ==
    ASSUME VbarAssumption, NEW P \in SUBSET Pages, NEW out,
           \A p \in P : IsPage(page[p]) /\ IsMapped(page[p]) /\ out[p] \in Released(page[p])
    PROVE  LET n == SumFunction([p \in P |-> out[p].failed])
           IN  n \in Nat /\ \A p \in P : out[p].failed \in Nat /\ out[p].failed <= n
<1> DEFINE f == [p \in P |-> out[p].failed]
<1>1. IsFiniteSet(P)
  BY FinitePages, FS_Subset
<1>2. \A p \in P : out[p].failed \in Nat
  BY ReleasedUse
<1>3. DOMAIN f = P /\ \A p \in P : f[p] = out[p].failed
  OBVIOUS
<1> HIDE DEF f
<1>4. SumFunction(f) \in Nat /\ \A p \in P : f[p] <= SumFunction(f)
  BY <1>1, <1>2, <1>3, SumOfNaturals
<1> QED
  BY <1>2, <1>3, <1>4 DEF f

\* A page that nothing happens to.
LEMMA QuietHonest ==
    ASSUME NEW r, Honest(r), NEW s, QuietPage(r, s)
    PROVE  StaysHonest(r, s)
BY SameMemoryHonest DEF QuietPage, StaysHonest

\* The pages a fault that gives up has pinned are given back as they are.
LEMMA GivesUpHonest ==
    ASSUME NEW t, NEW P, GiveUp(t, P), NEW p \in Pages, Honest(P[p])
    PROVE  QuietPage(P[p], page'[p])
<1> DEFINE r == P[p]
<1>1. page'[p] = r \/ (r.pin > 0 /\ page'[p] = WithPins(r, r.pin - 1))
  BY DEF GiveUp, Unpinned, WithPins
<1> HIDE DEF r
<1>2. r \in PageRecords
  BY DEF r, Honest
<1>3. r.pin > 0 => r.pin - 1 \in Nat
  BY <1>2 DEF PageRecords
<1>4. QuietPage(r, r) /\ (r.pin > 0 => QuietPage(r, WithPins(r, r.pin - 1)))
  BY <1>2, <1>3, CountsQuiet, CanceledHonest
<1> QED
  BY <1>1, <1>4 DEF r

\* Two steps of a page, the second of which leaves its memory alone.
LEMMA HonestQuiet ==
    ASSUME NEW r, NEW s, StaysHonest(r, s), NEW u, QuietPage(s, u)
    PROVE  StaysHonest(r, u)
BY SameMemoryHonest DEF StaysHonest, QuietPage, SameMemory, Retains

\* A reclaim freezes pages, gives them up, or frees them with their contents.
LEMMA ReclaimHonest ==
    ASSUME VbarAssumption, BoundsOK, PagesOK, \A p \in Pages : Honest(page[p]),
           NEW t \in Threads, Acts(t), Freeze(t) \/ SynchronizeFails(t) \/ Commit(t)
    PROVE  /\ \A p \in Pages : StaysHonest(page[p], page'[p])
           /\ calls' \in 0..MaxCalls /\ faults' \in 0..MaxFaults
<1> DEFINE Frozen(r) == [r EXCEPT !.evicting = TRUE, !.gen = @ + 1]
<1>1. ASSUME NEW p \in Pages, page'[p] \in {page[p], Canceled(page[p]), Frozen(page[p])}
      PROVE  StaysHonest(page[p], page'[p])
  <2> DEFINE r == page[p]
  <2>1. r \in PageRecords /\ Honest(r)
    BY DEF Honest
  <2> HIDE DEF r
  <2>2. QuietPage(r, r) /\ QuietPage(r, Canceled(r)) /\ QuietPage(r, Frozen(r))
    BY <2>1, CanceledHonest, FreezesQuiet
  <2> HIDE DEF Frozen
  <2>3. page'[p] \in {r, Canceled(r), Frozen(r)}
    BY <1>1 DEF r
  <2>4. QuietPage(r, page'[p])
    BY <2>2, <2>3
  <2> QED
    BY <2>1, <2>4, QuietHonest DEF r
<1>2. CASE Freeze(t)
  <2>1. \A p \in Pages : page'[p] \in {page[p], Frozen(page[p])}
    BY <1>2 DEF Freeze
  <2>2. calls' = calls /\ faults' = faults
    BY <1>2 DEF Freeze, bounds
  <2> HIDE DEF Frozen
  <2> QED
    BY <1>1, <2>1, <2>2 DEF BoundsOK
<1>3. CASE SynchronizeFails(t)
  <2>1. \A p \in Pages : page'[p] \in {page[p], Canceled(page[p])}
    BY <1>3 DEF SynchronizeFails
  <2>2. Fails(1)
    BY <1>3 DEF SynchronizeFails
  <2> HIDE DEF Frozen
  <2> QED
    BY <1>1, <2>1, <2>2, StepsBounded
<1>4. CASE Commit(t)
  <2> DEFINE c    == call[t]
             K    == {k \in c.candidates : Current(k)}
             C(p) == \E k \in K : k.page = p
             S(p) == \E k \in c.candidates \ K : k.page = p /\ StillFrozen(k)
             P    == {k.page : k \in K}
  <2>1. PICK out \in [P -> UNION {Released(page[p]) : p \in P}] :
           /\ \A p \in P : out[p] \in Released(page[p])
           /\ Fails(SumFunction([p \in P |-> out[p].failed]))
           /\ page' = [p \in Pages |-> IF C(p) THEN out[p].page
                                       ELSE IF S(p) THEN Canceled(page[p]) ELSE page[p]]
    BY <1>4 DEF Commit
  <2>2. P \in SUBSET Pages
    BY DEF Acts, CallOK
  <2>3. ASSUME NEW p \in P
        PROVE  IsPage(page[p]) /\ IsMapped(page[p]) /\ page'[p] = out[p].page
    BY <2>1, <2>2, <2>3 DEF PagesOK, Current
  <2>4. ASSUME NEW p \in Pages \ P PROVE StaysHonest(page[p], page'[p])
    <3>1. page'[p] = page[p] \/ page'[p] = Canceled(page[p])
      BY <2>1, <2>4
    <3> HIDE DEF P, Frozen
    <3> QED
      BY <1>1, <3>1
  <2> HIDE DEF K, P
  <2> DEFINE n == SumFunction([p \in P |-> out[p].failed])
  <2>5. n \in Nat /\ \A p \in P : out[p].failed \in Nat /\ out[p].failed <= n
    <3>1. \A p \in P : IsPage(page[p]) /\ IsMapped(page[p]) /\ out[p] \in Released(page[p])
      BY <2>1, <2>3
    <3> QED
      BY <2>2, <3>1, CommitFails
  <2>6. Fails(n)
    BY <2>1
  <2> HIDE DEF n
  <2>7. calls' \in 0..MaxCalls /\ faults' \in 0..MaxFaults /\ n <= MaxFaults
    BY <2>5, <2>6, StepsBounded
  <2>8. ASSUME NEW p \in P PROVE StaysHonest(page[p], page'[p])
    <3> DEFINE o == out[p]
               r == page[p]
    <3>1. Honest(r) /\ IsMapped(r) /\ o \in Released(r) /\ page'[p] = o.page
      BY <2>1, <2>2, <2>3, <2>8
    <3>2. o.failed <= MaxFaults
      BY <2>5, <2>7, <2>8 DEF VbarAssumption
    <3> HIDE DEF o, r
    <3>3. StaysHonest(r, o.page)
      BY <3>1, <3>2, ReleasedHonest DEF StaysHonest
    <3> QED
      BY <3>1, <3>3 DEF r
  <2> QED
    BY <2>4, <2>7, <2>8
<1> QED
  BY <1>2, <1>3, <1>4

\* A page of a fault moves, and the fault goes on.
LEMMA OnePageHonest ==
    ASSUME \A q \in Pages : Honest(page[q]), DOMAIN page = Pages, NEW p \in Pages, NEW s,
           StaysHonest(page[p], s), page' = [page EXCEPT ![p] = s]
    PROVE  \A q \in Pages : StaysHonest(page[q], page'[q])
<1>1. ASSUME NEW q \in Pages \ {p} PROVE StaysHonest(page[q], page'[q])
  <2>1. page'[q] = page[q]
    BY <1>1
  <2> QED
    BY <1>1, <2>1 DEF StaysHonest, Retains
<1>2. page'[p] = s
  OBVIOUS
<1> QED
  BY <1>1, <1>2

\* A page of a fault moves, and the fault gives up.
LEMMA GaveUpHonest ==
    ASSUME \A q \in Pages : Honest(page[q]), DOMAIN page = Pages, NEW p \in Pages, NEW s,
           StaysHonest(page[p], s), NEW t, GiveUp(t, [page EXCEPT ![p] = s])
    PROVE  \A q \in Pages : StaysHonest(page[q], page'[q])
<1> DEFINE Q == [page EXCEPT ![p] = s]
<1>1. ASSUME NEW q \in Pages PROVE StaysHonest(page[q], Q[q])
  <2>1. CASE q = p
    BY <2>1
  <2>2. CASE q # p
    <3>1. Q[q] = page[q]
      BY <2>2
    <3> HIDE DEF Q
    <3> QED
      BY <3>1 DEF StaysHonest, Retains
  <2> QED
    BY <2>1, <2>2
<1>2. GiveUp(t, Q)
  OBVIOUS
<1> HIDE DEF Q
<1>3. ASSUME NEW q \in Pages PROVE StaysHonest(page[q], page'[q])
  <2>1. QuietPage(Q[q], page'[q])
    BY <1>1, <1>2, GivesUpHonest DEF StaysHonest
  <2> QED
    BY <1>1, <2>1, HonestQuiet
<1> QED
  BY <1>3

\* A fault pins a page that is there, maps one that is not, or copies what it returns.
LEMMA FaultHonest ==
    ASSUME VbarAssumption, BoundsOK, PagesOK, FaultsOK, \A p \in Pages : Honest(page[p]),
           NEW t \in Threads, Acts(t),
           \/ FaultHit(t) \/ FaultUnknown(t) \/ FaultRestore(t) \/ ReturnFault(t)
           \/ \E deficit : FaultMap(t, deficit)
    PROVE  /\ \A p \in Pages : StaysHonest(page[p], page'[p])
           /\ calls' \in 0..MaxCalls /\ faults' \in 0..MaxFaults
<1> DEFINE a == FaultPage(t)
           r == page[a]
<1>1. calls \in 0..MaxCalls /\ faults \in 0..MaxFaults
      /\ DOMAIN page = Pages /\ \A p \in Pages : Honest(page[p]) /\ IsPage(page[p])
  BY DEF BoundsOK, PagesOK
<1>2. AtPage(t) => a \in Pages
  BY AtPageFacts
<1>3. CASE FaultHit(t)
  <2>1. a \in Pages /\ page' = [page EXCEPT ![a] = Pinned(r)]
    BY <1>2, <1>3 DEF FaultHit
  <2>2. Honest(r) /\ r \in PageRecords
    BY <1>1, <2>1 DEF Honest
  <2>3. calls' = calls /\ faults' = faults
    BY <1>3 DEF FaultHit, bounds
  <2> HIDE DEF a
  <2>4. StaysHonest(page[a], Pinned(page[a]))
    BY <2>2, CanceledHonest, QuietHonest
  <2> QED
    BY <1>1, <2>1, <2>3, <2>4, OnePageHonest
<1>4. CASE FaultUnknown(t)
  <2>1. GiveUp(t, page) /\ calls' = calls /\ faults' = faults
    BY <1>4 DEF FaultUnknown, bounds
  <2>2. ASSUME NEW p \in Pages PROVE StaysHonest(page[p], page'[p])
    <3>1. QuietPage(page[p], page'[p])
      BY <1>1, <2>1, GivesUpHonest
    <3> QED
      BY <1>1, <3>1, QuietHonest
  <2> QED
    BY <1>1, <2>1, <2>2
<1>5. CASE FaultRestore(t)
  <2>1. AtPage(t) /\ r.handle /\ ~IsMapped(r)
    BY <1>5 DEF FaultRestore, IsMapped
  <2>2. PICK o \in Restored(r, 1) :
           /\ Fails(o.failed)
           /\ \/ page' = [page EXCEPT ![a] = Pinned(o.page)]
              \/ GiveUp(t, [page EXCEPT ![a] = o.page])
    BY <1>5 DEF FaultRestore
  <2>3. a \in Pages /\ Honest(r) /\ IsPage(r)
    BY <1>1, <1>2, <2>1
  <2> HIDE DEF r
  <2>4. o.failed \in Nat
    BY <2>1, <2>2, <2>3, RestoredUse
  <2>5. StaysHonest(r, o.page)
    BY <2>1, <2>2, <2>3, RestoredHonest DEF StaysHonest
  <2>6. StaysHonest(r, Pinned(o.page))
    <3>1. QuietPage(o.page, Pinned(o.page))
      BY <2>5, CanceledHonest DEF StaysHonest, Honest
    <3> QED
      BY <2>5, <3>1, HonestQuiet
  <2>7. calls' \in 0..MaxCalls /\ faults' \in 0..MaxFaults
    BY <2>2, <2>4, StepsBounded
  <2> DEFINE x == o.page
  <2>8. StaysHonest(page[a], x) /\ StaysHonest(page[a], Pinned(x))
    BY <2>5, <2>6 DEF r
  <2>9. page' = [page EXCEPT ![a] = Pinned(x)] \/ GiveUp(t, [page EXCEPT ![a] = x])
    BY <2>2
  <2> HIDE DEF x, a
  <2>10. CASE page' = [page EXCEPT ![a] = Pinned(x)]
    BY <1>1, <2>3, <2>7, <2>8, <2>10, OnePageHonest
  <2>11. CASE GiveUp(t, [page EXCEPT ![a] = x])
    BY <1>1, <2>3, <2>7, <2>8, <2>11, GaveUpHonest
  <2> QED
    BY <2>9, <2>10, <2>11
<1>6. ASSUME NEW deficit, FaultMap(t, deficit)
      PROVE  /\ \A p \in Pages : StaysHonest(page[p], page'[p])
             /\ calls' \in 0..MaxCalls /\ faults' \in 0..MaxFaults
  <2>1. AtPage(t) /\ call[t].tries > 0
    BY <1>6 DEF FaultMap
  <2>2. a \in Pages /\ Honest(r) /\ IsPage(r) /\ ~IsMapped(r)
    BY <1>1, <1>2, <2>1, AtPageFacts DEF FaultsOK, Faulting
  <2>3. CASE deficit > 0
    <3>1. page' = page /\ calls' = calls /\ faults' = faults
      BY <1>6, <2>3 DEF FaultMap, bounds
    <3> QED
      BY <1>1, <3>1 DEF StaysHonest, Retains
  <2>4. CASE ~(deficit > 0)
    <3>1. PICK o \in MappedNew(r) :
             /\ Fails(o.failed)
             /\ \/ o.result = "ok" /\ page' = [page EXCEPT ![a] = PagedIn(o.page)]
                \/ o.result # "ok" /\ page' = [page EXCEPT ![a] = o.page]
                \/ o.result # "ok" /\ GiveUp(t, [page EXCEPT ![a] = o.page])
      BY <1>6, <2>4 DEF FaultMap
    <3> HIDE DEF r
    <3>2. o.failed \in Nat
      BY <2>2, <3>1, MappedNewUse
    <3>3. calls' \in 0..MaxCalls /\ faults' \in 0..MaxFaults /\ o.failed <= MaxFaults
      BY <3>1, <3>2, StepsBounded
    <3> DEFINE x == o.page
    <3>4. /\ o.result = "ok" => StaysHonest(page[a], PagedIn(x))
          /\ o.result # "ok" => StaysHonest(page[a], x)
      <4>1. /\ o.result = "ok" => Honest(PagedIn(o.page)) /\ Retains(r, PagedIn(o.page))
            /\ o.result # "ok" => Honest(o.page) /\ Retains(r, o.page)
        BY <2>2, <3>1, <3>3, MappedNewHonest
      <4> QED
        BY <4>1 DEF StaysHonest, r
    <3>5. \/ o.result = "ok" /\ page' = [page EXCEPT ![a] = PagedIn(x)]
          \/ o.result # "ok" /\ page' = [page EXCEPT ![a] = x]
          \/ o.result # "ok" /\ GiveUp(t, [page EXCEPT ![a] = x])
      BY <3>1
    <3> HIDE DEF x, a
    <3>6. CASE o.result = "ok" /\ page' = [page EXCEPT ![a] = PagedIn(x)]
      BY <1>1, <2>2, <3>3, <3>4, <3>6, OnePageHonest
    <3>7. CASE o.result # "ok" /\ page' = [page EXCEPT ![a] = x]
      BY <1>1, <2>2, <3>3, <3>4, <3>7, OnePageHonest
    <3>8. CASE o.result # "ok" /\ GiveUp(t, [page EXCEPT ![a] = x])
      BY <1>1, <2>2, <3>3, <3>4, <3>8, GaveUpHonest
    <3> QED
      BY <3>5, <3>6, <3>7, <3>8
  <2> QED
    BY <2>3, <2>4
<1>7. CASE ReturnFault(t)
  <2>1. calls' = calls /\ faults' = faults
    BY <1>7 DEF ReturnFault, bounds
  <2>2. ASSUME NEW p \in Pages PROVE StaysHonest(page[p], page'[p])
    <3> DEFINE b == page[p]
               s == IF b.known = b.serial THEN b
                    ELSE [b EXCEPT !.known = b.serial, !.content = TRUE]
    <3>1. page'[p] = b \/ page'[p] = s
      BY <1>7 DEF ReturnFault
    <3>2. Honest(b)
      BY <1>1
    <3> HIDE DEF b
    <3>3. StaysHonest(b, s)
      BY <3>2, FilledHonest DEF StaysHonest
    <3>4. StaysHonest(b, b)
      BY <3>2 DEF StaysHonest, Retains
    <3> HIDE DEF s
    <3>5. StaysHonest(b, page'[p])
      BY <3>1, <3>3, <3>4
    <3> QED
      BY <3>5 DEF b
  <2> QED
    BY <1>1, <2>1, <2>2
<1> QED
  BY <1>3, <1>4, <1>5, <1>6, <1>7

\* Those who use pages leave their memory alone.
LEMMA ConsumerHonest ==
    ASSUME VbarAssumption, BoundsOK, PagesOK, RangesOK, \A p \in Pages : Honest(page[p]),
           NEW t \in Threads, Acts(t),
           Register(t) \/ Unpin(t) \/ Release(t) \/ \E R : Acquire(t, R)
    PROVE  /\ \A p \in Pages : QuietPage(page[p], page'[p])
           /\ calls' \in 0..MaxCalls /\ faults' \in 0..MaxFaults
<1> DEFINE token == call[t].token
<1>1. calls \in 0..MaxCalls /\ faults \in 0..MaxFaults
  BY DEF BoundsOK
<1>2. calls' \in 0..MaxCalls /\ faults' \in 0..MaxFaults
  <2>1. CASE Register(t) \/ Unpin(t) \/ Release(t)
    BY <1>1, <2>1 DEF Register, Unpin, Release, bounds
  <2>2. ASSUME NEW R, Acquire(t, R) PROVE calls' \in 0..MaxCalls /\ faults' \in 0..MaxFaults
    BY <2>2, StepsBounded DEF Acquire
  <2> QED
    BY <2>1, <2>2
<1>3. SUFFICES ASSUME NEW p \in Pages PROVE QuietPage(page[p], page'[p])
  BY <1>2
<1> DEFINE r == page[p]
           d == Depends(r, token)
           u == [Canceled(r) EXCEPT !.unknown = TRUE]
<1>4. r \in PageRecords /\ QuietPage(r, r) /\ QuietPage(r, Canceled(r))
  <2>1. Honest(r)
    OBVIOUS
  <2>2. r \in PageRecords
    BY <2>1 DEF Honest
  <2> HIDE DEF r
  <2> QED
    BY <2>2, CanceledHonest
<1>5. Register(t) \/ Unpin(t) \/ Release(t) => QuietPage(r, d) /\ QuietPage(r, u)
  <2>1. Register(t) \/ Unpin(t) \/ Release(t) => token \in SmallTokens
    BY DEF Register, Unpin, Release, BoundsOK, Consumes
  <2> HIDE DEF r, token
  <2> QED
    BY <1>4, <2>1, DependsHonest
<1>6. ASSUME NEW s, QuietPage(r, s), NEW n \in Nat, NEW kind
      PROVE  QuietPage(r, WithPins(s, n)) /\ QuietPage(r, WithHolds(s, kind, n))
  <2>1. s \in PageRecords
    BY <1>6 DEF QuietPage
  <2>2. QuietPage(s, WithPins(s, n)) /\ QuietPage(s, WithHolds(s, kind, n))
    BY <2>1, CountsQuiet
  <2> HIDE DEF r
  <2> QED
    BY <1>6, <2>2, QuietTwice
<1>7. CASE Register(t)
  <2>1. page'[p] = r \/ page'[p] = d
    BY <1>7 DEF Register
  <2> HIDE DEF d, u
  <2> QED
    BY <1>4, <1>5, <1>7, <2>1
<1>8. CASE Unpin(t)
  <2>1. page'[p] = r \/ (r.pin > 0 /\ page'[p] = WithPins(d, d.pin - 1))
    BY <1>8 DEF Unpin, WithPins
  <2>2. d.pin = r.pin
    <3>1. IsPage(r)
      BY DEF PagesOK
    <3>2. call[t].token \in TokenRecords /\ async \in BOOLEAN
      BY <1>8 DEF Unpin, Acts, CallOK, Consumes
    <3> HIDE DEF r
    <3> QED
      BY <3>1, <3>2, DependsPage DEF SameOwners
  <2>3. r.pin \in Nat
    BY <1>4 DEF PageRecords
  <2> HIDE DEF d, u
  <2>4. r.pin > 0 => d.pin - 1 \in Nat
    BY <2>2, <2>3
  <2> QED
    BY <1>4, <1>5, <1>6, <1>8, <2>1, <2>4
<1>9. CASE Release(t)
  <2> DEFINE kind == hold[t].kind
             n == Holds(r, kind) - 1
  <2>1. \/ page'[p] = r
        \/ p \in RangePages(hold[t]) /\ (page'[p] = WithHolds(u, kind, n) \/ page'[p] = WithHolds(d, kind, n))
    BY <1>9 DEF Release
  <2>2. p \in RangePages(hold[t]) => Holds(r, kind) > 0
    BY <1>9 DEF Release
  <2>3. Holds(r, kind) \in Nat
    BY <1>4 DEF PageRecords, Holds
  <2>4. p \in RangePages(hold[t]) => n \in Nat
    BY <2>2, <2>3
  <2> HIDE DEF d, u, n
  <2> QED
    BY <1>4, <1>5, <1>6, <1>9, <2>1, <2>4
<1>10. ASSUME NEW R, Acquire(t, R) PROVE QuietPage(page[p], page'[p])
  <2> DEFINE n == Holds(r, R.kind) + 1
             s == Canceled(r)
  <2>1. page'[p] = r \/ page'[p] = WithHolds(s, R.kind, n)
    BY <1>10 DEF Acquire
  <2>2. n \in Nat
    BY <1>4 DEF PageRecords, Holds
  <2>3. QuietPage(r, s)
    BY <1>4
  <2> HIDE DEF n, s
  <2>4. QuietPage(r, page'[p])
    BY <1>4, <1>6, <2>1, <2>2, <2>3
  <2> QED
    BY <2>4
<1> QED
  BY <1>7, <1>8, <1>9, <1>10

\* vbar_free releases a page.
LEMMA TeardownHonest ==
    ASSUME VbarAssumption, BoundsOK, PagesOK, \A p \in Pages : Honest(page[p]),
           NEW t \in Threads, Acts(t), TeardownPage(t)
    PROVE  /\ \A p \in Pages : StaysHonest(page[p], page'[p])
           /\ calls' \in 0..MaxCalls /\ faults' \in 0..MaxFaults
<1> DEFINE a == <<call[t].vbar, call[t].at>>
           r == Canceled(page[a])
<1>1. calls \in 0..MaxCalls /\ faults \in 0..MaxFaults
      /\ a \in Pages /\ DOMAIN page = Pages /\ \A p \in Pages : Honest(page[p])
  BY TeardownPages DEF BoundsOK, PagesOK
<1>2. StaysHonest(page[a], r) /\ Honest(page[a]) /\ IsPage(page[a])
  BY <1>1, CanceledHonest, QuietHonest DEF Honest, PagesOK
<1>3. \/ page' = page /\ calls' = calls /\ faults' = faults
      \/ page' = [page EXCEPT ![a] = r] /\ calls' = calls /\ faults' = faults
      \/ /\ IsMapped(r)
         /\ \E o \in Released(r) : Fails(o.failed) /\ page' = [page EXCEPT ![a] = o.page]
  BY DEF TeardownPage, bounds
<1>4. IsPage(r)
  BY <1>2, CanceledPage
<1> HIDE DEF a, r
<1>5. CASE page' = page /\ calls' = calls /\ faults' = faults
  BY <1>1, <1>5 DEF StaysHonest, Retains
<1>6. CASE page' = [page EXCEPT ![a] = r] /\ calls' = calls /\ faults' = faults
  BY <1>1, <1>2, <1>6, OnePageHonest
<1>7. ASSUME IsMapped(r), NEW o \in Released(r), Fails(o.failed), page' = [page EXCEPT ![a] = o.page]
      PROVE  /\ \A p \in Pages : StaysHonest(page[p], page'[p])
             /\ calls' \in 0..MaxCalls /\ faults' \in 0..MaxFaults
  <2>1. o.failed \in Nat
    BY <1>4, <1>7, ReleasedUse
  <2>2. calls' \in 0..MaxCalls /\ faults' \in 0..MaxFaults /\ o.failed <= MaxFaults
    BY <1>7, <2>1, StepsBounded
  <2>3. StaysHonest(r, o.page)
    BY <1>2, <1>7, <2>2, ReleasedHonest DEF StaysHonest
  <2> DEFINE x == o.page
  <2>4. StaysHonest(page[a], x)
    <3>1. QuietPage(page[a], r)
      BY <1>2, CanceledHonest DEF r, Honest
    <3>2. r.handle = page[a].handle /\ r.content = page[a].content
      BY <3>1 DEF QuietPage, SameMemory
    <3> QED
      BY <2>3, <3>2 DEF StaysHonest, Retains
  <2>5. page' = [page EXCEPT ![a] = x]
    BY <1>7
  <2> HIDE DEF x
  <2> QED
    BY <1>1, <2>2, <2>4, <2>5, OnePageHonest
<1> QED
  BY <1>3, <1>5, <1>6, <1>7

\* Only a consumer takes a token.
LEMMA NoTokenTaken ==
    ASSUME NEW t \in Threads, Acts(t), ReclaimNext(t) \/ FaultNext(t) \/ FreeNext(t)
    PROVE  call'[t].pc \notin Consumes
<1> DEFINE c == call[t]
           d == call'[t]
<1>1. DOMAIN call = Threads /\ IsCall(c)
  BY DEF Acts, CallOK
<1>2. ASSUME NEW a, IsCall(a), NEW need, NEW keep, NEW then \in {"idle", "enter", "page"}
      PROVE  Reclaim(a, need, keep, then).pc \notin Consumes
  BY <1>2, ReclaimPlain DEF Consumes
<1>3. ASSUME NEW left, c.pc \in {"freeze", "sync", "commit", "drain", "redrain"}
      PROVE  Stopped(c, left).pc \notin Consumes
  BY <1>3, StoppedPlain DEF Plain, Consumes
<1>4. NoCall.pc \notin Consumes /\ IsCall(NoCall)
  BY DEF NoCall, Consumes, IsCall, CallFields
<1>5. CASE ReclaimNext(t)
  <2>1. ASSUME NEW need, NEW keep, Pressure(t, need, keep) PROVE d.pc \notin Consumes
    <3>1. d = Reclaim(NoCall, need, keep, "idle") \/ d.pc = "freeze"
      BY <1>1, <2>1 DEF Pressure, NoCall
    <3> QED
      BY <1>2, <1>4, <3>1 DEF Consumes
  <2>2. ASSUME NEW v, NEW n, SetWatermark(t, v, n) \/ FreeMemory(t, v, n) PROVE d.pc \notin Consumes
    <3>1. d = NoCall \/ \E first, last, need : d = FreeRange(v, first, last, need)
      BY <1>1, <2>2 DEF SetWatermark, FreeMemory
    <3>2. \A first, last, need : FreeRange(v, first, last, need).pc = "freeze"
      BY DEF FreeRange, NoCall
    <3> QED
      BY <1>4, <3>1, <3>2 DEF Consumes
  <2>3. CASE Snapshot(t) \/ Synchronized(t)
    BY <1>1, <2>3 DEF Snapshot, Synchronized, IsCall, CallFields, Consumes
  <2>4. CASE Freeze(t)
    <3>1. c.pc = "freeze" /\ (d = Stopped(c, c.need) \/ d.pc \in {"commit", "sync"})
      BY <1>1, <2>4 DEF Freeze, IsCall, CallFields
    <3> QED
      BY <1>3, <3>1 DEF Consumes
  <2>5. CASE Commit(t)
    <3>1. c.pc = "commit" /\ ((\E left : d = Stopped(c, left)) \/ d.pc = "freeze")
      BY <1>1, <2>5 DEF Commit, IsCall, CallFields
    <3> QED
      BY <1>3, <3>1 DEF Consumes
  <2>6. CASE SynchronizeFails(t)
    BY <1>1, <1>3, <2>6 DEF SynchronizeFails
  <2> QED
    BY <1>5, <2>1, <2>2, <2>3, <2>4, <2>5, <2>6 DEF ReclaimNext
<1>6. CASE FaultNext(t)
  <2>1. ASSUME NEW v, NEW first, NEW last, NEW deficit, Fault(t, v, first, last, deficit)
        PROVE  d.pc \notin Consumes
    <3> DEFINE a == [NoCall EXCEPT !.vbar = v, !.first = first, !.last = last]
    <3>1. d = Reclaim(a, deficit, NoVbar, "enter")
      BY <1>1, <2>1 DEF Fault
    <3>2. IsCall(a)
      BY DEF NoCall, IsCall, CallFields
    <3> HIDE DEF a
    <3> QED
      BY <1>2, <3>1, <3>2
  <2>2. ASSUME NEW fits, EnterFault(t, fits) PROVE d.pc \notin Consumes
    BY <1>1, <1>4, <2>2 DEF EnterFault, IsCall, CallFields, Consumes
  <2>3. (d = NoCall \/ d = Advanced(c)) /\ c.pc = "page" => d.pc \notin Consumes
    BY <1>1, <1>4 DEF Advanced, IsCall, CallFields, Consumes
  <2>4. CASE FaultHit(t) \/ FaultUnknown(t) \/ FaultRestore(t) \/ ReturnFault(t)
    <3>1. c.pc = "page" /\ (d = NoCall \/ d = Advanced(c))
      BY <1>1, <2>4 DEF FaultHit, FaultUnknown, FaultRestore, ReturnFault, GiveUp, AtPage
    <3> QED
      BY <2>3, <3>1
  <2>5. CASE FaultMiss(t)
    <3> DEFINE a == [c EXCEPT !.tries = 1, !.checked = TRUE]
    <3>1. d = a \/ \E need : d = Reclaim(a, need, NoVbar, "page")
      BY <1>1, <2>5 DEF FaultMiss
    <3>2. IsCall(a) /\ a.pc = "page"
      BY <1>1, <2>5 DEF FaultMiss, AtPage, IsCall, CallFields
    <3> HIDE DEF a
    <3> QED
      BY <1>2, <3>1, <3>2 DEF Consumes
  <2>6. ASSUME NEW deficit, FaultMap(t, deficit) PROVE d.pc \notin Consumes
    <3> DEFINE a == [c EXCEPT !.tries = @ + 1]
    <3>1. d = NoCall \/ d = Advanced(c) \/ \E need, keep : d = Reclaim(a, need, keep, "page")
      <4>1. \/ call' = [call EXCEPT ![t] = NoCall] \/ call' = [call EXCEPT ![t] = Advanced(@)]
            \/ \E need, keep : call' = [call EXCEPT ![t] = Reclaim(a, need, keep, "page")]
        BY <2>6 DEF FaultMap, GiveUp
      <4> HIDE DEF a
      <4> QED
        BY <1>1, <4>1
    <3>2. IsCall(a) /\ c.pc = "page"
      BY <1>1, <2>6 DEF FaultMap, AtPage, IsCall, CallFields
    <3> HIDE DEF a
    <3> QED
      BY <1>2, <2>3, <3>1, <3>2
  <2> QED
    BY <1>6, <2>1, <2>2, <2>4, <2>5, <2>6 DEF FaultNext
<1>7. CASE FreeNext(t)
  <2>1. ASSUME NEW v, Free(t, v) PROVE d.pc \notin Consumes
    BY <1>1, <2>1 DEF Free, NoCall, Consumes
  <2>2. CASE CheckFree(t) \/ BeginTeardown(t)
    BY <1>1, <1>4, <2>2 DEF CheckFree, BeginTeardown, IsCall, CallFields, Consumes
  <2>3. CASE TeardownPage(t)
    <3>1. c.pc = "teardown" /\ (d = NoCall \/ d = [c EXCEPT !.at = @ + 1])
      BY <1>1, <2>3 DEF TeardownPage
    <3>2. [c EXCEPT !.at = @ + 1].pc = c.pc
      BY <1>1 DEF IsCall, CallFields
    <3> QED
      BY <1>4, <3>1, <3>2 DEF Consumes
  <2>4. ASSUME NEW refused, EndTeardown(t, refused) PROVE d.pc \notin Consumes
    BY <1>1, <1>4, <2>4 DEF EndTeardown
  <2> QED
    BY <1>7, <2>1, <2>2, <2>3, <2>4 DEF FreeNext
<1> QED
  BY <1>5, <1>6, <1>7

\* A token is one of the operators submitted.
LEMMA TokensSmall ==
    ASSUME VbarInv, VbarAssumption, BoundsOK, [Next]_vars, NEW t \in Threads, call'[t].pc \in Consumes
    PROVE  call'[t].token \in SmallTokens
<1>1. TypesOK /\ CallsOK /\ DOMAIN call = Threads /\ submitted \in [Queues -> 0..MaxOps]
      /\ (call[t].pc \in Consumes => call[t].token \in SmallTokens)
  BY DEF VbarInv, TypesOK, BoundsOK
<1>2. CASE call'[t] = call[t]
  BY <1>1, <1>2
<1>3. ASSUME NEW u \in Threads, ReclaimNext(u) \/ FaultNext(u) \/ ConsumerNext(u) \/ FreeNext(u)
      PROVE  call'[t].token \in SmallTokens
  <2>1. CASE u # t
    BY <1>1, <1>2, <1>3, <2>1, MineStep DEF Mine, Only
  <2>2. CASE u = t /\ (ReclaimNext(t) \/ FaultNext(t) \/ FreeNext(t))
    BY <1>1, <2>2, ThreadActs, NoTokenTaken
  <2>3. CASE u = t /\ ConsumerNext(t)
    <3>1. ASSUME NEW pc, NEW q \in {NoQueue} \cup Queues, TakeToken(t, pc, q)
          PROVE  call'[t].token \in SmallTokens
      <4>1. TokenOf(q) \in SmallTokens
        BY <1>1, VbarAssumption DEF TokenOf, SmallTokens, VbarAssumption
      <4>2. call[t] = NoCall /\ call' = [call EXCEPT ![t].pc = pc, ![t].token = TokenOf(q)]
        BY <3>1 DEF TakeToken
      <4>3. call'[t].token = TokenOf(q)
        BY <1>1, <4>2 DEF NoCall
      <4> QED
        BY <4>1, <4>3
    <3>2. ASSUME NEW own, NEW q, Submit(t, own, q) PROVE call'[t].token \in SmallTokens
      BY <1>2, <3>2 DEF Submit
    <3>3. ASSUME NEW R, Acquire(t, R) PROVE call'[t].token \in SmallTokens
      BY <1>2, <3>3 DEF Acquire
    <3>4. CASE Register(t) \/ Unpin(t) \/ Release(t)
      BY <1>1, <3>4 DEF Register, Unpin, Release, NoCall, Consumes
    <3> QED
      BY <2>3, <3>1, <3>2, <3>3, <3>4 DEF ConsumerNext
  <2> QED
    BY <1>3, <2>1, <2>2, <2>3
<1>4. CASE ListNext \/ LimitNext \/ Quiet \/ (UNCHANGED vars) \/ \E o \in inflight : Finish(o)
  BY <1>2, <1>4 DEF ListNext, LimitNext, SetLimit, Allocate, Prioritize, Deprioritize, CopyAcquire,
     CopyRelease, Quiet, vars, Finish
<1> QED
  BY <1>3, <1>4 DEF Next

\* Every step leaves the pages honest and stays within the bounds.
LEMMA PagesHonest ==
    ASSUME VbarInv, VbarAssumption, BoundsOK, \A p \in Pages : Honest(page[p]), [Next]_vars
    PROVE  /\ \A p \in Pages : StaysHonest(page[p], page'[p])
           /\ calls' \in 0..MaxCalls /\ faults' \in 0..MaxFaults
<1> DEFINE Goal == /\ \A p \in Pages : StaysHonest(page[p], page'[p])
                   /\ calls' \in 0..MaxCalls /\ faults' \in 0..MaxFaults
<1>1. PagesOK /\ TypesOK /\ CallsOK /\ FaultsOK /\ RangesOK
  BY DEF VbarInv, TypesOK
<1>2. ASSUME page' = page, Started \/ Fails(0) \/ Fails(1) \/ UNCHANGED bounds PROVE Goal
  <2>1. \A p \in Pages : StaysHonest(page[p], page'[p])
    BY <1>2 DEF StaysHonest, Retains
  <2>2. calls \in 0..MaxCalls /\ faults \in 0..MaxFaults
    BY DEF BoundsOK
  <2>3. calls' \in 0..MaxCalls /\ faults' \in 0..MaxFaults
    BY <1>2, <2>2, StepsBounded DEF bounds
  <2> QED
    BY <2>1, <2>3
<1>3. ASSUME ListNext \/ LimitNext \/ Quiet \/ (UNCHANGED vars) \/ \E o \in inflight : Finish(o)
      PROVE  Goal
  <2>1. page' = page /\ (Started \/ UNCHANGED bounds)
    BY <1>3 DEF ListNext, LimitNext, SetLimit, Allocate, Prioritize, Deprioritize, CopyAcquire,
       CopyRelease, Quiet, vars, memory, Finish
  <2> QED
    BY <1>2, <2>1
<1>4. ASSUME NEW t \in Threads, ReclaimNext(t) PROVE Goal
  <2>1. Acts(t)
    BY <1>1, ThreadActs
  <2>2. CASE Freeze(t) \/ SynchronizeFails(t) \/ Commit(t)
    BY <1>1, <2>1, <2>2, ReclaimHonest
  <2>3. CASE ~(Freeze(t) \/ SynchronizeFails(t) \/ Commit(t))
    <3>1. page' = page /\ (Started \/ UNCHANGED bounds)
      BY <1>4, <2>3 DEF ReclaimNext, Pressure, SetWatermark, FreeMemory, Snapshot, Synchronized, memory
    <3> QED
      BY <1>2, <3>1
  <2> QED
    BY <2>2, <2>3
<1>5. ASSUME NEW t \in Threads, FaultNext(t) PROVE Goal
  <2>1. Acts(t)
    BY <1>1, ThreadActs
  <2>2. CASE \/ FaultHit(t) \/ FaultUnknown(t) \/ FaultRestore(t) \/ ReturnFault(t)
             \/ \E deficit : FaultMap(t, deficit)
    BY <1>1, <2>1, <2>2, FaultHonest
  <2>3. ASSUME NEW v, NEW first, NEW last, NEW deficit, Fault(t, v, first, last, deficit) PROVE Goal
    <3>1. page' = page /\ Started
      BY <2>3 DEF Fault, memory
    <3> QED
      BY <1>2, <3>1
  <2>4. ASSUME NEW fits, EnterFault(t, fits) PROVE Goal
    <3>1. page' = page /\ UNCHANGED bounds
      BY <2>4 DEF EnterFault
    <3> QED
      BY <1>2, <3>1
  <2>5. CASE FaultMiss(t)
    <3>1. page' = page /\ UNCHANGED bounds
      BY <2>5 DEF FaultMiss, memory
    <3> QED
      BY <1>2, <3>1
  <2> HIDE DEF Goal
  <2> QED
    BY <1>5, <2>2, <2>3, <2>4, <2>5 DEF FaultNext
<1>6. ASSUME NEW t \in Threads, ConsumerNext(t) PROVE Goal
  <2>1. Acts(t)
    BY <1>1, ThreadActs
  <2>2. CASE Register(t) \/ Unpin(t) \/ Release(t) \/ \E R : Acquire(t, R)
    <3>1. /\ \A p \in Pages : QuietPage(page[p], page'[p])
          /\ calls' \in 0..MaxCalls /\ faults' \in 0..MaxFaults
      BY <1>1, <2>1, <2>2, ConsumerHonest
    <3> QED
      BY <3>1, QuietHonest
  <2>3. ASSUME NEW own, NEW q, Submit(t, own, q) PROVE Goal
    <3>1. page' = page /\ UNCHANGED bounds
      BY <2>3 DEF Submit, memory
    <3> QED
      BY <1>2, <3>1
  <2>4. ASSUME NEW pc, NEW q, TakeToken(t, pc, q) PROVE Goal
    <3>1. page' = page /\ (Fails(0) \/ Fails(1))
      BY <2>4 DEF TakeToken, memory
    <3> QED
      BY <1>2, <3>1
  <2> HIDE DEF Goal
  <2>5. ASSUME NEW R, Acquire(t, R) PROVE Goal
    BY <2>2, <2>5
  <2>6. CASE Register(t) \/ Unpin(t) \/ Release(t)
    BY <2>2, <2>6
  <2> QED
    <3>1. \/ \E own, q : Submit(t, own, q)
          \/ \E pc, q : TakeToken(t, pc, q)
          \/ Register(t) \/ Unpin(t) \/ Release(t)
          \/ \E R : Acquire(t, R)
      BY <1>6, Zenon DEF ConsumerNext
    <3> QED
      BY <2>3, <2>4, <2>5, <2>6, <3>1
<1>7. ASSUME NEW t \in Threads, FreeNext(t) PROVE Goal
  <2>1. Acts(t)
    BY <1>1, ThreadActs
  <2>2. CASE TeardownPage(t)
    BY <1>1, <2>1, <2>2, TeardownHonest
  <2>3. ASSUME NEW v, Free(t, v) PROVE Goal
    <3>1. page' = page /\ Started
      BY <2>3 DEF Free
    <3> QED
      BY <1>2, <3>1
  <2>4. CASE CheckFree(t) \/ BeginTeardown(t)
    <3>1. page' = page /\ UNCHANGED bounds
      BY <2>4 DEF CheckFree, BeginTeardown, memory
    <3> QED
      BY <1>2, <3>1
  <2>5. ASSUME NEW refused, EndTeardown(t, refused) PROVE Goal
    <3>1. page' = page /\ (Fails(0) \/ Fails(1))
      BY <2>5 DEF EndTeardown
    <3> QED
      BY <1>2, <3>1
  <2> HIDE DEF Goal
  <2> QED
    BY <1>7, <2>2, <2>3, <2>4, <2>5 DEF FreeNext
<1> HIDE DEF Goal
<1>8. \/ ListNext \/ LimitNext \/ Quiet \/ (UNCHANGED vars) \/ \E o \in inflight : Finish(o)
      \/ \E t \in Threads : ReclaimNext(t) \/ FaultNext(t) \/ ConsumerNext(t) \/ FreeNext(t)
  BY DEF Next
<1>9. Goal
  BY <1>3, <1>4, <1>5, <1>6, <1>7, <1>8
<1> QED
  BY <1>9 DEF Goal

\* What holds of the pages, of the leases and of the bounds.
ContentInv == /\ BoundsOK
              /\ \A p \in Pages : Honest(page[p])
              /\ MaxFaults <= 1 => LeasesHaveContent

\* Nothing is known or in a call at first.
LEMMA ContentInit == VbarAssumption /\ Init => ContentInv
<1> SUFFICES ASSUME VbarAssumption, Init PROVE ContentInv
  OBVIOUS
<1>1. BoundsOK
  <2>1. \A t \in Threads : call[t].pc \notin Consumes
    BY DEF Init, NoCall, Consumes
  <2>2. submitted \in [Queues -> 0..MaxOps] /\ calls \in 0..MaxCalls /\ faults \in 0..MaxFaults
    BY DEF Init, VbarAssumption
  <2> QED
    BY <2>1, <2>2 DEF BoundsOK
<1>2. \A p \in Pages : Honest(page[p])
  <2>1. AbsentPage \in PageRecords /\ AbsentPage.known <= AbsentPage.serial /\ ~AbsentPage.handle
    BY DEF VbarAssumption, AbsentPage, PageRecords, NoTokens, NoSignature
  <2>2. \A p \in Pages : page[p] = AbsentPage
    BY DEF Init
  <2> QED
    BY <2>1, <2>2 DEF Honest
<1>3. LeasesHaveContent
  BY NoRangeOK DEF Init, LeasesHaveContent
<1> QED
  BY <1>1, <1>2, <1>3 DEF ContentInv

\* The steps of a consumer.
LEMMA ConsumerKinds ==
    ASSUME NEW t, ConsumerNext(t)
    PROVE  \/ \E own, q : q \in Queues /\ Submit(t, own, q)
           \/ \E pc, q : TakeToken(t, pc, q)
           \/ Register(t) \/ Unpin(t) \/ Release(t)
           \/ \E R : Acquire(t, R)
BY ZenonT(30) DEF ConsumerNext

\* A lease stays on its pages, or a fault returns it, or it is given up.
LEMMA LeasesMove ==
    ASSUME VbarInv, VbarAssumption, [Next]_vars, NEW t \in Threads, NEW p \in RangePages(lease'[t])
    PROVE  p \in RangePages(lease[t]) \/ ReturnFault(t)
<1>1. TypesOK /\ CallsOK /\ DOMAIN lease = Threads /\ IsRange(lease[t]) /\ DOMAIN lease[t] = RangeFields
  BY DEF VbarInv, TypesOK, RangesOK, IsRange
<1>2. CASE lease'[t] = lease[t]
  BY <1>2
<1>3. CASE ListNext \/ LimitNext \/ Quiet \/ (UNCHANGED vars) \/ \E o \in inflight : Finish(o)
  BY <1>2, <1>3 DEF ListNext, LimitNext, SetLimit, Allocate, Prioritize, Deprioritize, CopyAcquire,
     CopyRelease, Quiet, vars, Finish, owners
<1>4. ASSUME NEW u \in Threads, ReclaimNext(u) \/ FaultNext(u) \/ ConsumerNext(u) \/ FreeNext(u)
      PROVE  p \in RangePages(lease[t]) \/ ReturnFault(t)
  <2>1. CASE u # t
    BY <1>1, <1>2, <1>4, <2>1, MineStep DEF Mine
  <2>2. CASE u = t /\ (ReclaimNext(t) \/ FreeNext(t))
    <3>1. lease' = lease
      BY <2>2 DEF ReclaimNext, FreeNext, Pressure, SetWatermark, FreeMemory, Snapshot, Freeze, Commit,
         Synchronized, SynchronizeFails, Free, CheckFree, BeginTeardown, TeardownPage, EndTeardown, owners
    <3> QED
      BY <1>2, <3>1
  <2>3. CASE u = t /\ FaultNext(t)
    <3>1. lease' = lease \/ ReturnFault(t)
      BY <2>3 DEF FaultNext, Fault, EnterFault, FaultHit, FaultUnknown, FaultRestore, FaultMiss, FaultMap,
         owners
    <3> QED
      BY <1>2, <3>1
  <2>4. CASE u = t /\ ConsumerNext(t)
    <3>1. \/ lease'[t] = lease[t] \/ lease'[t] = NoRange
          \/ \E Q : lease'[t] = WithQueues(lease[t], Q)
      <4>1. ASSUME NEW Q, lease' = [lease EXCEPT ![t].queues = Q]
            PROVE  lease'[t] = WithQueues(lease[t], Q)
        BY <1>1, <4>1 DEF WithQueues
      <4>2. ASSUME NEW own, NEW q, Submit(t, own, q)
            PROVE  lease' = lease \/ \E Q : lease' = [lease EXCEPT ![t].queues = Q]
        BY <4>2 DEF Submit, Used
      <4>3. ASSUME NEW pc, NEW q, TakeToken(t, pc, q) PROVE lease' = lease
        BY <4>3 DEF TakeToken, owners
      <4>4. ASSUME Register(t) PROVE \E Q : lease' = [lease EXCEPT ![t].queues = Q]
        BY <4>4 DEF Register
      <4>5. ASSUME Unpin(t) PROVE lease'[t] = NoRange
        BY <1>1, <4>5 DEF Unpin
      <4>6. Release(t) \/ (\E R : Acquire(t, R)) => lease' = lease
        BY DEF Release, Acquire
      <4> QED
        BY <2>4, <4>1, <4>2, <4>3, <4>4, <4>5, <4>6, ConsumerKinds
    <3>2. \A Q : RangePages(WithQueues(lease[t], Q)) = RangePages(lease[t])
      BY <1>1 DEF RangePages, WithQueues, RangeFields
    <3> QED
      BY <3>1, <3>2, NoRangeOK
  <2> QED
    BY <1>4, <2>1, <2>2, <2>3, <2>4
<1> QED
  BY <1>3, <1>4 DEF Next

\* ContentInv is inductive.
LEMMA ContentStep == VbarAssumption /\ VbarInv /\ ContentInv /\ [Next]_vars => ContentInv'
<1> SUFFICES ASSUME VbarAssumption, VbarInv, ContentInv, [Next]_vars PROVE ContentInv'
  OBVIOUS
<1>1. BoundsOK /\ VbarInv' /\ \A p \in Pages : Honest(page[p])
  BY VbarStep DEF ContentInv
<1>2. /\ \A p \in Pages : StaysHonest(page[p], page'[p])
      /\ calls' \in 0..MaxCalls /\ faults' \in 0..MaxFaults
  BY <1>1, PagesHonest
<1>3. submitted' \in [Queues -> 0..MaxOps]
  <2>1. submitted \in [Queues -> 0..MaxOps] /\ MaxOps \in Nat
    BY <1>1 DEF BoundsOK, VbarAssumption
  <2>2. ASSUME NEW q \in Queues, submitted[q] < MaxOps, submitted' = [submitted EXCEPT ![q] = @ + 1]
        PROVE  submitted' \in [Queues -> 0..MaxOps]
    BY <2>1, <2>2
  <2>3. ASSUME NEW t, NEW own, NEW q \in Queues, Submit(t, own, q) PROVE submitted' \in [Queues -> 0..MaxOps]
    BY <2>2, <2>3 DEF Submit
  <2>4. CASE submitted' = submitted
    BY <2>1, <2>4
  <2>5. CASE ListNext \/ LimitNext \/ Quiet \/ (UNCHANGED vars) \/ \E o \in inflight : Finish(o)
    BY <2>4, <2>5 DEF ListNext, LimitNext, SetLimit, Allocate, Prioritize, Deprioritize, CopyAcquire,
       CopyRelease, Quiet, vars, Finish, device
  <2>6. ASSUME NEW t, ReclaimNext(t) \/ FreeNext(t) PROVE submitted' \in [Queues -> 0..MaxOps]
    BY <2>4, <2>6 DEF ReclaimNext, FreeNext, Pressure, SetWatermark, FreeMemory, Snapshot, Freeze, Commit,
       Synchronized, SynchronizeFails, Free, CheckFree, BeginTeardown, TeardownPage, EndTeardown, device
  <2>7. ASSUME NEW t, FaultNext(t) PROVE submitted' \in [Queues -> 0..MaxOps]
    BY <2>4, <2>7 DEF FaultNext, Fault, EnterFault, FaultHit, FaultUnknown, FaultRestore, FaultMiss, FaultMap,
       ReturnFault, device
  <2>8. ASSUME NEW t, ConsumerNext(t) PROVE submitted' \in [Queues -> 0..MaxOps]
    <3>1. \A pc, q : TakeToken(t, pc, q) => submitted' = submitted
      BY DEF TakeToken, device
    <3>2. Register(t) \/ Unpin(t) \/ Release(t) \/ (\E R : Acquire(t, R)) => submitted' = submitted
      BY DEF Register, Unpin, Release, Acquire, device
    <3> QED
      BY <2>3, <2>4, <2>8, <3>1, <3>2, ConsumerKinds
  <2> QED
    BY <2>5, <2>6, <2>7, <2>8 DEF Next
<1>4. BoundsOK'
  BY <1>1, <1>2, <1>3, TokensSmall DEF BoundsOK
<1>5. ASSUME MaxFaults <= 1 PROVE LeasesHaveContent'
  <2>1. SUFFICES ASSUME NEW t \in Threads, NEW p \in RangePages(lease'[t]) PROVE page'[p].content
    BY DEF LeasesHaveContent
  <2>2. p \in Pages /\ page'[p].handle
    <3>1. (RangesOK /\ TypesOK)'
      BY <1>1 DEF VbarInv, TypesOK
    <3>2. p \in Pages
      BY <3>1 DEF RangesOK, IsRange
    <3>3. Leasers(p)' \subseteq Threads /\ Faulters(p)' \subseteq Threads /\ t \in Leasers(p)'
      BY DEF Leasers, Faulters
    <3>4. Cardinality(Leasers(p)') \in Nat /\ Cardinality(Leasers(p)') > 0 /\ Cardinality(Faulters(p)') \in Nat
      <4>1. IsFiniteSet(Leasers(p)') /\ IsFiniteSet(Faulters(p)')
        BY <3>3, FS_Subset DEF VbarAssumption
      <4> QED
        BY <3>3, <4>1, FS_CardinalityType, FS_EmptySet
    <3>5. PinsOK'
      BY <1>1 DEF VbarInv
    <3> QED
      BY <3>2, <3>4, <3>5 DEF PinsOK, IsMapped
  <2>3. CASE p \in RangePages(lease[t])
    <3>1. page[p].content /\ page[p].handle
      BY <1>5, <2>2, <2>3, RangesOwn DEF ContentInv, LeasesHaveContent, IsMapped
    <3> QED
      BY <1>2, <1>5, <2>2, <3>1 DEF StaysHonest, Retains
  <2>4. CASE ReturnFault(t)
    <3> DEFINE r == page[p]
               s == IF r.known = r.serial THEN r
                    ELSE [r EXCEPT !.known = r.serial, !.content = TRUE]
    <3>1. page'[p] = s
      <4>1. lease'[t] = [NoRange EXCEPT !.vbar = call[t].vbar, !.first = call[t].first, !.last = call[t].last]
        <5>1. DOMAIN lease = Threads
          BY DEF VbarInv, TypesOK, RangesOK
        <5> QED
          BY <2>4, <5>1 DEF ReturnFault
      <4> QED
        BY <2>2, <2>4, <4>1 DEF ReturnFault
    <3>2. Honest(r)
      BY <1>1, <2>2
    <3> HIDE DEF r
    <3>3. Honest(s) /\ s.handle = r.handle /\ (MaxFaults <= 1 /\ r.handle => s.content)
      <4>1. s.handle = r.handle
        BY <3>2 DEF Honest, PageRecords
      <4> QED
        BY <3>2, <4>1, FilledHonest
    <3> HIDE DEF s
    <3> QED
      BY <1>5, <2>2, <3>1, <3>3
  <2> QED
    BY <2>1, <2>3, <2>4, LeasesMove
<1> QED
  BY <1>2, <1>4, <1>5 DEF ContentInv, StaysHonest

\* What a fault returned holds what the application copied there, in every state of
\* every system of VBARs, threads and queues, unless the driver may fail twice
\* (then it is not so, see the finding in VbarStale).
THEOREM LeasesFilled == MaxFaults <= 1 => (Spec => []LeasesHaveContent)
<1> SUFFICES ASSUME MaxFaults <= 1 PROVE Spec => []LeasesHaveContent
  OBVIOUS
<1>1. Init => ContentInv
  BY ContentInit, VbarAssumption
<1>2. VbarInv /\ ContentInv /\ [Next]_vars => ContentInv'
  BY ContentStep, VbarAssumption
<1>3. ContentInv => LeasesHaveContent
  BY DEF ContentInv
<1> QED
  BY <1>1, <1>2, <1>3, VbarInvariant, PTL DEF Spec

-----------------------------------------------------------------------------
(* Types.                                                                    *)

\* The records of the VBARs.
VbarRecords == [state : {"none", "live", "closing", "gone"}, watermark : 0..NPages,
                limit : 0..NPages, resident : Nat, copies : 0..MaxCopies]

\* The fields of a VBAR, one at a time.
LEMMA VbarRecordFields ==
    ASSUME NEW b \in VbarRecords
    PROVE  /\ \A n \in {"none", "live", "closing", "gone"} : [b EXCEPT !.state = n] \in VbarRecords
           /\ \A n \in 0..NPages : /\ [b EXCEPT !.watermark = n] \in VbarRecords
                                   /\ [b EXCEPT !.limit = n] \in VbarRecords
           /\ \A n : [b EXCEPT !.resident = n].resident = n
           /\ \A n \in Nat : [b EXCEPT !.resident = n] \in VbarRecords
           /\ \A n \in 0..MaxCopies : [b EXCEPT !.copies = n] \in VbarRecords
BY DEF VbarRecords

\* The steps of a thread, and the others.
LEMMA StepKinds ==
    ASSUME [Next]_vars
    PROVE  \/ \E v \in Vbars : Allocate(v) \/ Prioritize(v) \/ Deprioritize(v)
           \/ \E v \in Vbars : CopyAcquire(v) \/ CopyRelease(v)
           \/ LimitNext
           \/ Quiet \/ (UNCHANGED vars) \/ \E o \in inflight : Finish(o)
           \/ \E t \in Threads : ReclaimNext(t) \/ FaultNext(t) \/ ConsumerNext(t) \/ FreeNext(t)
<1>1. \/ ListNext \/ LimitNext
      \/ Quiet \/ (UNCHANGED vars) \/ \E o \in inflight : Finish(o)
      \/ \E t \in Threads : ReclaimNext(t) \/ FaultNext(t) \/ ConsumerNext(t) \/ FreeNext(t)
  BY DEF Next
<1>2. ListNext => \/ \E v \in Vbars : Allocate(v) \/ Prioritize(v) \/ Deprioritize(v)
                  \/ \E v \in Vbars : CopyAcquire(v) \/ CopyRelease(v)
  BY DEF ListNext
<1> QED
  BY <1>1, <1>2

\* A search from above ends at the bottom, or at the first that is good.
LEMMA SearchEnds ==
    ASSUME NEW a \in Nat, NEW b \in Nat, a <= b, NEW G
    PROVE  \E w \in a..b : /\ w = a \/ w \in G
                           /\ \A x \in (w + 1)..b : x \notin G
<1> DEFINE T == {n \in Nat : \E w \in a..(a + n) : /\ w = a \/ w \in G
                                                   /\ \A x \in (w + 1)..(a + n) : x \notin G}
<1>1. 0 \in T
  <2>1. a \in a..(a + 0) /\ (a + 1)..(a + 0) = {}
    OBVIOUS
  <2> QED
    BY <2>1
<1>2. ASSUME NEW n \in T PROVE n + 1 \in T
  <2>1. PICK w \in a..(a + n) : /\ w = a \/ w \in G
                                /\ \A x \in (w + 1)..(a + n) : x \notin G
    OBVIOUS
  <2> DEFINE m == a + (n + 1)
  <2>2. n \in Nat /\ m \in Nat /\ m \in a..m /\ w \in a..m /\ (m + 1)..m = {}
    OBVIOUS
  <2>3. \A x \in (w + 1)..m : x = m \/ x \in (w + 1)..(a + n)
    BY <2>2
  <2> HIDE DEF m
  <2>4. \E y \in a..m : /\ y = a \/ y \in G
                        /\ \A x \in (y + 1)..m : x \notin G
    <3>1. CASE m \in G
      BY <2>2, <3>1
    <3>2. CASE m \notin G
      BY <2>1, <2>2, <2>3, <3>2
    <3> QED
      BY <3>1, <3>2
  <2> QED
    BY <2>2, <2>4 DEF m
<1> HIDE DEF T
<1>3. Nat \subseteq T
  BY <1>1, <1>2, NumbersByInduction
<1>4. b - a \in T /\ a + (b - a) = b
  BY <1>3
<1> QED
  BY <1>4 DEF T

\* The watermark vbar_free_memory stops at.
LEMMA FreeMemoryMark ==
    ASSUME VbarAssumption, vbar \in [Vbars -> VbarRecords],
           NEW t, NEW v \in Vbars, NEW k \in Nat, FreeMemory(t, v, k)
    PROVE  \E n \in 0..NPages : /\ vbar' = [vbar EXCEPT ![v].watermark = n]
                                /\ call' = [call EXCEPT ![t] = FreeRange(v, n + 1, vbar[v].watermark, k)]
<1> DEFINE b == vbar[v]
           free(w) == {n \in (w + 1)..b.watermark :
                          Idle(page[<<v, n>>]) /\ ~page[<<v, n>>].unknown}
           target == IF b.watermark <= b.limit THEN b.watermark
                     ELSE CHOOSE w \in b.limit..b.watermark :
                            /\ w = b.limit \/ Cardinality(free(w)) >= k
                            /\ \A x \in (w + 1)..b.watermark : Cardinality(free(x)) < k
<1>1. /\ vbar' = [vbar EXCEPT ![v].watermark = target]
      /\ call' = [call EXCEPT ![t] = FreeRange(v, target + 1, b.watermark, k)]
  BY DEF FreeMemory
<1>2. b \in VbarRecords /\ b.watermark \in 0..NPages /\ b.limit \in 0..NPages /\ NPages \in Nat
  <2>1. b \in VbarRecords
    OBVIOUS
  <2> HIDE DEF b
  <2> QED
    BY <2>1 DEF VbarRecords, VbarAssumption
<1> HIDE DEF b
<1>3. CASE b.watermark <= b.limit
  BY <1>1, <1>2, <1>3 DEF b
<1>4. CASE ~(b.watermark <= b.limit)
  <2> DEFINE G == {w \in b.limit..b.watermark : Cardinality(free(w)) >= k}
  <2>1. \A w \in b.limit..b.watermark : Cardinality(free(w)) \in Nat
    <3>1. ASSUME NEW w \in b.limit..b.watermark PROVE Cardinality(free(w)) \in Nat
      <4>1. IsFiniteSet((w + 1)..b.watermark)
        <5>1. w + 1 \in Int /\ b.watermark \in Int
          BY <1>2
        <5> QED
          BY <5>1, FS_Interval
      <4>2. free(w) \subseteq (w + 1)..b.watermark
        OBVIOUS
      <4> HIDE DEF free
      <4> QED
        BY <4>1, <4>2, FS_Subset, FS_CardinalityType
    <3> HIDE DEF free
    <3> QED
      BY <3>1
  <2> HIDE DEF free
  <2>2. b.limit \in Nat /\ b.watermark \in Nat /\ b.limit <= b.watermark
    BY <1>2, <1>4
  <2>3. \E w \in b.limit..b.watermark : /\ w = b.limit \/ w \in G
                                        /\ \A x \in (w + 1)..b.watermark : x \notin G
    <3> DEFINE low == b.limit
               high == b.watermark
    <3>1. low \in Nat /\ high \in Nat /\ low <= high
      BY <2>2
    <3> HIDE DEF G, low, high
    <3>2. \E w \in low..high : (w = low \/ w \in G) /\ \A x \in (w + 1)..high : x \notin G
      BY <3>1, SearchEnds
    <3> QED
      BY <3>2 DEF low, high
  <2>4. \E w \in b.limit..b.watermark : /\ w = b.limit \/ Cardinality(free(w)) >= k
                                        /\ \A x \in (w + 1)..b.watermark : Cardinality(free(x)) < k
    <3>1. PICK w \in b.limit..b.watermark : /\ w = b.limit \/ w \in G
                                            /\ \A x \in (w + 1)..b.watermark : x \notin G
      BY <2>3
    <3>2. \A x \in (w + 1)..b.watermark : x \in b.limit..b.watermark
      BY <2>2
    <3> QED
      BY <2>1, <3>1, <3>2
  <2>5. target \in b.limit..b.watermark
    BY <1>4, <2>4
  <2> HIDE DEF target
  <2>6. target \in 0..NPages
    BY <1>2, <2>5
  <2> QED
    BY <1>1, <2>6 DEF b
<1> QED
  BY <1>3, <1>4

\* A VBAR keeps the types of its fields.
LEMMA VbarsTyped ==
    ASSUME VbarInv, VbarAssumption, Usage', vbar \in [Vbars -> VbarRecords], [Next]_vars
    PROVE  vbar' \in [Vbars -> VbarRecords]
<1> DEFINE Kept == vbar' \in [Vbars -> VbarRecords]
<1>1. TypesOK /\ CallsOK /\ DOMAIN vbar = Vbars /\ \A v \in Vbars : vbar[v] \in VbarRecords
  BY DEF VbarInv, TypesOK
<1>2. ASSUME vbar' = vbar PROVE Kept
  BY <1>2
<1>3. ASSUME NEW v, NEW b, vbar' = [vbar EXCEPT ![v] = b], v \in Vbars => b \in VbarRecords PROVE Kept
  BY <1>1, <1>3
<1>4. ASSUME NEW v, NEW n \in 0..NPages, vbar' = [vbar EXCEPT ![v].watermark = n] PROVE Kept
  <2> DEFINE b == [vbar[v] EXCEPT !.watermark = n]
  <2>1. vbar' = [vbar EXCEPT ![v] = b]
    BY <1>4
  <2>2. v \in Vbars => b \in VbarRecords
    BY <1>1, VbarRecordFields
  <2> HIDE DEF b, Kept
  <2> QED
    BY <1>3, <2>1, <2>2
<1>5. ASSUME NEW v, NEW n \in {"none", "live", "closing", "gone"}, vbar' = [vbar EXCEPT ![v].state = n]
      PROVE  Kept
  <2> DEFINE b == [vbar[v] EXCEPT !.state = n]
  <2>1. vbar' = [vbar EXCEPT ![v] = b]
    BY <1>5
  <2>2. v \in Vbars => b \in VbarRecords
    BY <1>1, VbarRecordFields
  <2> HIDE DEF b, Kept
  <2> QED
    BY <1>3, <2>1, <2>2
<1>6. ASSUME NEW v, NEW n, vbar' = [vbar EXCEPT ![v].resident = n] PROVE Kept
  <2> DEFINE b == [vbar[v] EXCEPT !.resident = n]
  <2>1. vbar' = [vbar EXCEPT ![v] = b]
    BY <1>6
  <2>2. v \in Vbars => b \in VbarRecords
    <3>1. SUFFICES ASSUME v \in Vbars PROVE b \in VbarRecords
      OBVIOUS
    <3>2. vbar'[v] = b /\ b.resident = n
      BY <1>1, <2>1, <3>1, VbarRecordFields
    <3>3. vbar'[v].resident \in Nat
      BY <3>1, UseTypes DEF Usage
    <3> QED
      BY <1>1, <3>1, <3>2, <3>3, VbarRecordFields
  <2> HIDE DEF b, Kept
  <2> QED
    BY <1>3, <2>1, <2>2
<1>7. ASSUME NEW v, NEW n \in 0..MaxCopies, vbar' = [vbar EXCEPT ![v].copies = n] PROVE Kept
  <2> DEFINE b == [vbar[v] EXCEPT !.copies = n]
  <2>1. vbar' = [vbar EXCEPT ![v] = b]
    BY <1>7
  <2>2. v \in Vbars => b \in VbarRecords
    BY <1>1, VbarRecordFields
  <2> HIDE DEF b, Kept
  <2> QED
    BY <1>3, <2>1, <2>2
<1>8. NPages \in Nat /\ NPages \in 0..NPages /\ MaxCopies \in Nat /\ MaxNeed \in Nat
  BY DEF VbarAssumption
<1> HIDE DEF Kept
<1>9. ASSUME NEW v \in Vbars, Allocate(v) \/ Prioritize(v) \/ Deprioritize(v) PROVE Kept
  <2>1. \/ vbar' = vbar \/ vbar' = [vbar EXCEPT ![v].state = "live"]
        \/ vbar' = [vbar EXCEPT ![v].watermark = NPages]
    BY <1>9 DEF Allocate, Prioritize, Deprioritize
  <2> QED
    BY <1>2, <1>4, <1>5, <1>8, <2>1
<1>10. ASSUME NEW v \in Vbars, CopyAcquire(v) \/ CopyRelease(v) PROVE Kept
  <2> DEFINE c == vbar[v].copies
  <2>1. \/ c < MaxCopies /\ vbar' = [vbar EXCEPT ![v].copies = c + 1]
        \/ c > 0 /\ vbar' = [vbar EXCEPT ![v].copies = c - 1]
    BY <1>10 DEF CopyAcquire, CopyRelease
  <2>2. c \in 0..MaxCopies
    BY <1>1 DEF VbarRecords
  <2> HIDE DEF c
  <2>3. (c < MaxCopies => c + 1 \in 0..MaxCopies) /\ (c > 0 => c - 1 \in 0..MaxCopies)
    BY <1>8, <2>2
  <2> QED
    BY <1>7, <2>1, <2>3
<1>11. ASSUME LimitNext PROVE Kept
  <2>1. \E V : \E n \in 0..NPages : SetLimit(V, n)
    <3>1. 0 \in 0..NPages
      BY <1>8
    <3>2. (\E v \in Vbars, n \in 0..NPages : SetLimit({v}, n)) \/ SetLimit({v \in Vbars : InList(v)}, 0)
      BY <1>11, Zenon DEF LimitNext
    <3> QED
      BY <3>1, <3>2, Zenon
  <2>2. PICK V, n : n \in 0..NPages /\ SetLimit(V, n)
    BY <2>1, Zenon
  <2>3. vbar' = [v \in Vbars |-> IF v \in V THEN [vbar[v] EXCEPT !.limit = n] ELSE vbar[v]]
    BY <2>2 DEF SetLimit
  <2>4. \A v \in Vbars : [vbar[v] EXCEPT !.limit = n] \in VbarRecords
    BY <1>1, <2>2, VbarRecordFields
  <2> QED
    BY <1>1, <2>3, <2>4 DEF Kept
<1>12. ASSUME Quiet \/ (UNCHANGED vars) \/ \E o \in inflight : Finish(o) PROVE Kept
  BY <1>2, <1>12 DEF Quiet, vars, memory, Finish
<1>13. ASSUME NEW t \in Threads, ReclaimNext(t) PROVE Kept
  <2>1. CASE Freeze(t) \/ SynchronizeFails(t) \/ Snapshot(t) \/ Synchronized(t)
    BY <1>2, <2>1 DEF Freeze, SynchronizeFails, Snapshot, Synchronized, memory
  <2>2. ASSUME NEW need, NEW keep, Pressure(t, need, keep) PROVE Kept
    BY <1>2, <2>2 DEF Pressure, memory
  <2>3. ASSUME NEW v, NEW n \in 0..NPages, SetWatermark(t, v, n) PROVE Kept
    BY <1>4, <2>3 DEF SetWatermark
  <2>4. ASSUME NEW v \in Vbars, NEW n \in 0..NPages, FreeMemory(t, v, n) PROVE Kept
    <3>1. n \in Nat
      BY <1>8
    <3>2. \E w \in 0..NPages : vbar' = [vbar EXCEPT ![v].watermark = w]
      BY <2>4, <3>1, FreeMemoryMark
    <3> QED
      BY <1>4, <3>2
  <2>5. CASE Commit(t)
    <3>1. DOMAIN vbar' = Vbars /\ \A v \in Vbars : \E n : vbar'[v] = [vbar[v] EXCEPT !.resident = n]
      BY <2>5, CommitVbars
    <3>2. ASSUME NEW v \in Vbars PROVE vbar'[v] \in VbarRecords
      <4>1. PICK n : vbar'[v] = [vbar[v] EXCEPT !.resident = n]
        BY <3>1
      <4> DEFINE b == vbar[v]
      <4>2. n = vbar'[v].resident
        <5>1. b \in VbarRecords /\ vbar'[v] = [b EXCEPT !.resident = n]
          BY <1>1, <4>1
        <5> HIDE DEF b
        <5>2. [b EXCEPT !.resident = n].resident = n
          BY <5>1, VbarRecordFields
        <5> QED
          BY <5>1, <5>2
      <4>3. vbar'[v].resident \in Nat
        BY UseTypes DEF Usage
      <4>4. b \in VbarRecords /\ n \in Nat /\ vbar'[v] = [b EXCEPT !.resident = n]
        BY <1>1, <4>1, <4>2, <4>3
      <4> HIDE DEF b
      <4>5. [b EXCEPT !.resident = n] \in VbarRecords
        BY <4>4, VbarRecordFields
      <4> QED
        BY <4>4, <4>5
    <3>3. vbar' = [v \in Vbars |-> vbar'[v]]
      BY <2>5 DEF Commit
    <3> QED
      BY <3>2, <3>3 DEF Kept
  <2> QED
    BY <1>13, <2>1, <2>2, <2>3, <2>4, <2>5 DEF ReclaimNext
<1>14. ASSUME NEW t \in Threads, FaultNext(t) PROVE Kept
  <2>1. CASE FaultHit(t) \/ FaultUnknown(t) \/ FaultMiss(t) \/ ReturnFault(t)
    BY <1>2, <2>1 DEF FaultHit, FaultUnknown, FaultMiss, ReturnFault, memory
  <2>2. ASSUME NEW v, NEW first, NEW last, NEW deficit, Fault(t, v, first, last, deficit) PROVE Kept
    BY <1>2, <2>2 DEF Fault, memory
  <2>3. ASSUME NEW fits, EnterFault(t, fits) PROVE Kept
    <3>1. call[t].last \in 0..NPages
      BY <1>1, <1>8, <2>3 DEF EnterFault, CallsOK, CallOK, Enters
    <3>2. vbar' = vbar \/ vbar' = [vbar EXCEPT ![call[t].vbar].watermark = call[t].last]
      BY <2>3 DEF EnterFault
    <3> QED
      BY <1>2, <1>4, <3>1, <3>2
  <2>4. ASSUME NEW deficit, FaultRestore(t) \/ FaultMap(t, deficit) PROVE Kept
    <3>1. vbar' = vbar \/ \E n : vbar' = [vbar EXCEPT ![call[t].vbar].resident = n]
      BY <2>4 DEF FaultRestore, FaultMap
    <3> QED
      BY <1>2, <1>6, <3>1
  <2> QED
    BY <1>14, <2>1, <2>2, <2>3, <2>4 DEF FaultNext
<1>15. ASSUME NEW t \in Threads, ConsumerNext(t) PROVE Kept
  <2>1. vbar' = vbar
    <3>1. \A own, q : Submit(t, own, q) => vbar' = vbar
      BY DEF Submit, memory
    <3>2. \A pc, q : TakeToken(t, pc, q) => vbar' = vbar
      BY DEF TakeToken, memory
    <3>3. Register(t) \/ Unpin(t) \/ Release(t) \/ (\E R : Acquire(t, R)) => vbar' = vbar
      BY DEF Register, Unpin, Release, Acquire
    <3> QED
      BY <1>15, <3>1, <3>2, <3>3, ConsumerKinds
  <2> QED
    BY <1>2, <2>1
<1>16. ASSUME NEW t \in Threads, FreeNext(t) PROVE Kept
  <2>1. \/ vbar' = vbar \/ \E v : vbar' = [vbar EXCEPT ![v].state = "closing"]
        \/ \E v : vbar' = [vbar EXCEPT ![v].state = "gone"]
        \/ \E n : vbar' = [vbar EXCEPT ![call[t].vbar].resident = n]
    <3>1. ASSUME NEW v, Free(t, v) PROVE vbar' = [vbar EXCEPT ![v].state = "closing"]
      BY <3>1 DEF Free
    <3>2. CASE CheckFree(t) \/ BeginTeardown(t)
      BY <3>2 DEF CheckFree, BeginTeardown, memory
    <3>3. CASE TeardownPage(t)
      BY <3>3 DEF TeardownPage
    <3>4. ASSUME NEW refused, EndTeardown(t, refused)
          PROVE  vbar' = vbar \/ \E v : vbar' = [vbar EXCEPT ![v].state = "gone"]
      BY <3>4 DEF EndTeardown
    <3> QED
      BY <1>16, <3>1, <3>2, <3>3, <3>4 DEF FreeNext
  <2> QED
    BY <1>2, <1>5, <1>6, <2>1
<1>17. Kept
  BY <1>9, <1>10, <1>11, <1>12, <1>13, <1>14, <1>15, <1>16, StepKinds
<1> QED
  BY <1>17 DEF Kept

\* Freeing is what vbar_free alone begins, and goes on with the VBAR it began with.
LEMMA FreeBegins ==
    ASSUME VbarInv, VbarAssumption, [Next]_vars, NEW t \in Threads, call'[t].kind = "free"
    PROVE  \/ call[t].kind = "free" /\ call'[t].vbar = call[t].vbar
           \/ \E v \in Vbars : Free(t, v) /\ call'[t].vbar = v
<1> DEFINE c == call[t]
           d == call'[t]
           Goal == \/ c.kind = "free" /\ d.vbar = c.vbar
                   \/ \E v \in Vbars : Free(t, v) /\ d.vbar = v
<1>1. /\ TypesOK /\ CallsOK /\ FaultsOK /\ TriesOK /\ DOMAIN call = Threads /\ Acts(t) /\ IsCall(c)
      /\ CallOK(c, lock = t)
  <2>1. TypesOK /\ CallsOK /\ FaultsOK /\ TriesOK /\ DOMAIN call = Threads
    BY DEF VbarInv, TypesOK
  <2> QED
    BY <2>1, ThreadActs DEF CallsOK, CallOK
<1>2. NoCall.kind = "none" /\ NoCall.pc = "idle" /\ IsCall(NoCall)
  BY DEF NoCall, IsCall, CallFields
<1>3. d = c => Goal
  OBVIOUS
<1>4. ASSUME ReclaimNext(t) PROVE Goal
  <2>1. ASSUME NEW need, NEW keep, Pressure(t, need, keep) PROVE d.kind # "free"
    <3>1. d = Reclaim(NoCall, need, keep, "idle") \/ d.kind = "reference"
      BY <1>1, <2>1 DEF Pressure, NoCall
    <3>2. Reclaim(NoCall, need, keep, "idle").kind \in {"none", "retired"}
      BY DEF Reclaim, NoCall
    <3> QED
      BY <3>1, <3>2
  <2>2. ASSUME NEW v, NEW n, SetWatermark(t, v, n) \/ FreeMemory(t, v, n) PROVE d.kind # "free"
    <3>1. d = NoCall \/ \E first, last, need : d = FreeRange(v, first, last, need)
      BY <1>1, <2>2 DEF SetWatermark, FreeMemory
    <3>2. \A first, last, need : FreeRange(v, first, last, need).kind = "model"
      BY DEF FreeRange, NoCall
    <3> QED
      BY <1>2, <3>1, <3>2
  <2>3. ASSUME c.pc # "idle" PROVE Goal
    <3>1. StaysAt(c, d) /\ c # NoCall
      BY <1>1, <1>2, <1>4, <2>3, ReclaimStaysAt
    <3> QED
      BY <1>2, <3>1 DEF StaysAt, SameFields
  <2> HIDE DEF Goal
  <2> QED
    BY <1>4, <2>1, <2>2, <2>3 DEF ReclaimNext, Snapshot, Freeze, Commit, Synchronized, SynchronizeFails
<1>5. ASSUME FaultNext(t) PROVE Goal
  <2>1. AtPage(t) /\ FaultPasses(t) => d.kind # "free"
    <3>1. AtPage(t) => c.kind = "none"
      BY <1>1 DEF AtPage, CallOK, Reclaims, Closing
    <3>2. FaultPasses(t) => d.kind = c.kind
      BY <1>1 DEF FaultPasses, Advanced, IsCall, CallFields
    <3> QED
      BY <3>1, <3>2
  <2>2. (FaultRetries(t) => d.kind # "free") /\ (FaultBegins(t) => d.kind # "free")
    BY DEF FaultRetries, FaultBegins
  <2>3. FaultStops(t) \/ ReturnFault(t) => d.kind # "free"
    BY <1>1, <1>2 DEF FaultStops, ReturnFault
  <2> QED
    BY <1>1, <1>5, <2>1, <2>2, <2>3, FaultKinds
<1>6. ASSUME ConsumerNext(t) PROVE Goal
  <2>1. ASSUME NEW pc, NEW q, TakeToken(t, pc, q) PROVE Goal
    <3>1. c = NoCall /\ call' = [call EXCEPT ![t].pc = pc, ![t].token = TokenOf(q)]
      BY <2>1 DEF TakeToken
    <3>2. d.kind = c.kind
      BY <1>1, <3>1 DEF IsCall, CallFields
    <3> QED
      BY <1>2, <3>1, <3>2
  <2>2. ASSUME NEW own, NEW q, Submit(t, own, q) PROVE Goal
    BY <2>2 DEF Submit
  <2>3. ASSUME NEW R, Acquire(t, R) PROVE Goal
    BY <2>3 DEF Acquire
  <2>4. ASSUME Register(t) \/ Unpin(t) \/ Release(t) PROVE Goal
    BY <1>1, <1>2, <2>4 DEF Register, Unpin, Release
  <2> HIDE DEF Goal
  <2> QED
    BY <1>6, <2>1, <2>2, <2>3, <2>4 DEF ConsumerNext
<1>7. ASSUME FreeNext(t) PROVE Goal
  <2>1. ASSUME NEW v \in Vbars, Free(t, v) PROVE Goal
    <3>1. d.vbar = v
      BY <1>1, <2>1 DEF Free, NoCall
    <3> QED
      BY <2>1, <3>1
  <2>2. ASSUME CheckFree(t) \/ BeginTeardown(t) \/ TeardownPage(t) PROVE Goal
    <3>1. CASE CheckFree(t)
      BY <1>1, <1>2, <3>1 DEF CheckFree, CallOK, Closing, IsCall, CallFields
    <3>2. CASE BeginTeardown(t)
      BY <1>1, <3>2 DEF BeginTeardown, CallOK, Closing, IsCall, CallFields
    <3>3. CASE TeardownPage(t)
      <4>1. call' = [call EXCEPT ![t] = NoCall] \/ call' = [call EXCEPT ![t].at = @ + 1]
        BY <3>3 DEF TeardownPage
      <4>2. d = NoCall \/ d = [c EXCEPT !.at = @ + 1]
        BY <1>1, <4>1
      <4>3. c.kind = "free" /\ [c EXCEPT !.at = @ + 1].vbar = c.vbar
        BY <1>1, <3>3 DEF TeardownPage, CallOK, Closing, IsCall, CallFields
      <4> QED
        BY <1>2, <4>2, <4>3
    <3> QED
      BY <2>2, <3>1, <3>2, <3>3
  <2>3. ASSUME NEW refused, EndTeardown(t, refused) PROVE Goal
    BY <1>1, <1>2, <2>3 DEF EndTeardown
  <2> HIDE DEF Goal
  <2> QED
    BY <1>7, <2>1, <2>2, <2>3 DEF FreeNext
<1>8. ASSUME NEW u \in Threads \ {t}, ReclaimNext(u) \/ FaultNext(u) \/ ConsumerNext(u) \/ FreeNext(u)
      PROVE  d = c
  BY <1>1, <1>8, MineStep DEF Mine, Only
<1>9. ASSUME ListNext \/ LimitNext \/ Quiet \/ (UNCHANGED vars) \/ \E o \in inflight : Finish(o)
      PROVE  d = c
  BY <1>9 DEF ListNext, LimitNext, SetLimit, Allocate, Prioritize, Deprioritize, CopyAcquire,
     CopyRelease, Quiet, vars, Finish
<1> HIDE DEF Goal
<1>10. Goal
  BY <1>3, <1>4, <1>5, <1>6, <1>7, <1>8, <1>9 DEF Next
<1> QED
  BY <1>10 DEF Goal

\* A VBAR that is being freed is closing, and one thread frees it.
FreesOK ==
    \A t \in Threads : call[t].kind = "free" =>
       /\ vbar[call[t].vbar].state = "closing"
       /\ \A u \in Threads \ {t} : call[u].vbar = call[t].vbar => call[u].kind # "free"

\* That stays so.
LEMMA FreesStay ==
    ASSUME VbarInv, VbarAssumption, FreesOK, [Next]_vars
    PROVE  FreesOK'
<1>1. TypesOK /\ CallsOK /\ DOMAIN vbar = Vbars /\ \A v \in Vbars : DOMAIN vbar[v] = VbarFields
  BY DEF VbarInv, TypesOK, VbarsOK
<1>2. \A t \in Threads : call[t].kind = "free" => call[t].vbar \in Vbars
  BY <1>1 DEF CallsOK, CallOK
<1>3. \A t \in Threads : call[t].pc = "teardown" => call[t].kind = "free"
  BY <1>1 DEF CallsOK, CallOK, Closing
<1>4. \A t \in Threads, v \in Vbars : Free(t, v) =>
         /\ vbar[v].state = "live" /\ vbar'[v].state = "closing"
         /\ \A u \in Threads : call[u].vbar = v => call[u].kind = "model"
  BY <1>1 DEF Free, VbarFields
<1>5. SUFFICES ASSUME NEW t \in Threads, call'[t].kind = "free"
      PROVE  /\ vbar'[call'[t].vbar].state = "closing"
             /\ \A u \in Threads \ {t} : call'[u].vbar = call'[t].vbar => call'[u].kind # "free"
  BY DEF FreesOK
<1>6. vbar'[call'[t].vbar].state = "closing"
  <2>1. CASE call[t].kind = "free" /\ call'[t].vbar = call[t].vbar
    <3>1. call[t].vbar \in Vbars /\ vbar[call[t].vbar].state = "closing"
      BY <1>2, <2>1 DEF FreesOK
    <3>2. ASSUME NEW u \in Threads, call[u].vbar = call[t].vbar, call[u].pc = "teardown"
          PROVE  u = t
      BY <1>3, <2>1, <3>2 DEF FreesOK
    <3>3. call'[t] # NoCall
      BY <1>5 DEF NoCall
    <3> QED
      BY <2>1, <3>1, <3>2, <3>3, ClosingStays
  <2> QED
    BY <1>4, <1>5, <2>1, FreeBegins
<1>7. ASSUME NEW u \in Threads \ {t}, call'[u].vbar = call'[t].vbar, call'[u].kind = "free"
      PROVE  FALSE
  <2>1. \/ call[t].kind = "free" /\ call'[t].vbar = call[t].vbar
        \/ \E v \in Vbars : Free(t, v) /\ call'[t].vbar = v
    BY <1>5, FreeBegins
  <2>2. \/ call[u].kind = "free" /\ call'[u].vbar = call[u].vbar
        \/ \E v \in Vbars : Free(u, v) /\ call'[u].vbar = v
    BY <1>7, FreeBegins
  <2>3. ~((\E v \in Vbars : Free(t, v)) /\ (\E v \in Vbars : Free(u, v)))
    <3>1. ASSUME NEW v \in Vbars, Free(t, v) PROVE call'[u] = call[u] /\ call[t] = NoCall
      BY <1>1, <3>1 DEF Free, TypesOK
    <3>2. ASSUME NEW v \in Vbars, Free(u, v) PROVE call'[t] = call[t]
      BY <1>1, <3>2 DEF Free, TypesOK
    <3>3. NoCall.kind = "none"
      BY DEF NoCall
    <3> QED
      BY <1>5, <3>1, <3>2, <3>3
  <2> QED
    BY <1>4, <1>7, <2>1, <2>2, <2>3 DEF FreesOK
<1> QED
  BY <1>6, <1>7

\* What a list has, and whether it has it once.
Has(s, x) == \E i \in 1..Len(s) : s[i] = x
Once(s)   == \A i, j \in 1..Len(s) : s[i] = s[j] => i = j

\* A list that loses an element has the others.
LEMMA RemovedHas ==
    ASSUME NEW S, NEW s \in Seq(S), NEW i \in 1..Len(s), Once(s)
    PROVE  LET r == Seqs!RemoveAt(s, i) IN
           /\ r \in Seq(S) /\ Once(r)
           /\ \A x : Has(r, x) <=> Has(s, x) /\ x # s[i]
<1> DEFINE r == Seqs!RemoveAt(s, i)
<1>1. /\ r \in Seq(S) /\ Len(r) = Len(s) - 1
      /\ \A j \in 1..Len(s) - 1 : r[j] = IF j < i THEN s[j] ELSE s[j + 1]
  BY RemovedAt DEF Seqs!RemoveAt
<1> HIDE DEF r
<1>2. Len(s) \in Nat /\ i \in Nat
  OBVIOUS
<1>3. Once(r)
  <2> SUFFICES ASSUME NEW j \in 1..Len(s) - 1, NEW k \in 1..Len(s) - 1, r[j] = r[k] PROVE j = k
    BY <1>1 DEF Once
  <2> DEFINE at(n) == IF n < i THEN n ELSE n + 1
  <2>1. at(j) \in 1..Len(s) /\ at(k) \in 1..Len(s) /\ (at(j) = at(k) => j = k)
    BY <1>2
  <2>2. r[j] = s[at(j)] /\ r[k] = s[at(k)]
    BY <1>1
  <2> HIDE DEF at
  <2> QED
    BY <2>1, <2>2 DEF Once
<1>4. ASSUME NEW x, Has(r, x) PROVE Has(s, x) /\ x # s[i]
  <2>1. PICK j \in 1..Len(s) - 1 : r[j] = x
    BY <1>1, <1>4 DEF Has
  <2>2. PICK k \in 1..Len(s) : s[k] = x /\ k # i
    <3>1. CASE j < i
      BY <1>1, <1>2, <2>1, <3>1
    <3>2. CASE ~(j < i)
      BY <1>1, <1>2, <2>1, <3>2
    <3> QED
      BY <3>1, <3>2
  <2> QED
    BY <2>2 DEF Has, Once
<1>5. ASSUME NEW x, Has(s, x), x # s[i] PROVE Has(r, x)
  <2>1. PICK k \in 1..Len(s) : s[k] = x /\ k # i
    BY <1>5 DEF Has
  <2>2. CASE k < i
    <3>1. k \in 1..Len(s) - 1 /\ r[k] = x
      BY <1>1, <1>2, <2>1, <2>2
    <3> QED
      BY <1>1, <3>1 DEF Has
  <2>3. CASE ~(k < i)
    <3>1. k - 1 \in 1..Len(s) - 1 /\ ~(k - 1 < i) /\ (k - 1) + 1 = k
      BY <1>2, <2>1, <2>3
    <3>2. r[k - 1] = x
      BY <1>1, <2>1, <3>1
    <3> QED
      BY <1>1, <3>1, <3>2 DEF Has
  <2> QED
    BY <2>2, <2>3
<1> QED
  BY <1>1, <1>3, <1>4, <1>5 DEF r

\* A list that gets an element at its end or its head has it, too.
LEMMA AddedHas ==
    ASSUME NEW S, NEW s \in Seq(S), NEW x \in S, Once(s), ~Has(s, x)
    PROVE  \A r \in {Append(s, x), <<x>> \o s} :
              /\ r \in Seq(S) /\ Once(r)
              /\ \A y : Has(r, y) <=> Has(s, y) \/ y = x
<1>1. Len(s) \in Nat
  OBVIOUS
<1>2. ASSUME NEW r, r = Append(s, x)
      PROVE  /\ r \in Seq(S) /\ Once(r)
             /\ \A y : Has(r, y) <=> Has(s, y) \/ y = x
  <2>1. /\ r \in Seq(S) /\ Len(r) = Len(s) + 1
        /\ \A j \in 1..Len(s) : r[j] = s[j]
        /\ r[Len(s) + 1] = x
    BY <1>2, Appended
  <2>2. \A j \in 1..Len(r) : j \in 1..Len(s) \/ j = Len(s) + 1
    BY <1>1, <2>1
  <2>3. 1..Len(s) \subseteq 1..Len(r) /\ Len(s) + 1 \in 1..Len(r)
    BY <1>1, <2>1
  <2>4. Once(r)
    BY <2>1, <2>2 DEF Once, Has
  <2>5. \A y : Has(r, y) <=> Has(s, y) \/ y = x
    BY <2>1, <2>2, <2>3 DEF Has
  <2> QED
    BY <2>1, <2>4, <2>5
<1>3. ASSUME NEW r, r = <<x>> \o s
      PROVE  /\ r \in Seq(S) /\ Once(r)
             /\ \A y : Has(r, y) <=> Has(s, y) \/ y = x
  <2>1. /\ r \in Seq(S) /\ Len(r) = Len(s) + 1 /\ r[1] = x
        /\ \A j \in 1..Len(s) : r[j + 1] = s[j]
    <3>1. /\ <<x>> \in Seq(S) /\ Len(<<x>>) = 1 /\ <<x>>[1] = x
      OBVIOUS
    <3>2. /\ r \in Seq(S) /\ Len(r) = 1 + Len(s)
          /\ \A j \in 1..1 + Len(s) : r[j] = IF j <= 1 THEN <<x>>[j] ELSE s[j - 1]
      BY <1>3, <3>1, ConcatProperties
    <3>3. \A j \in 1..Len(s) : j + 1 \in 1..1 + Len(s) /\ ~(j + 1 <= 1) /\ (j + 1) - 1 = j
      BY <1>1
    <3> QED
      BY <1>1, <3>1, <3>2, <3>3
  <2>2. ASSUME NEW j \in 1..Len(r) PROVE j = 1 \/ (j - 1 \in 1..Len(s) /\ r[j] = s[j - 1])
    <3>1. CASE j # 1
      <4>1. j - 1 \in 1..Len(s) /\ (j - 1) + 1 = j
        BY <1>1, <2>1, <3>1
      <4> QED
        BY <2>1, <4>1
    <3> QED
      BY <3>1
  <2>3. \A j \in 1..Len(s) : j + 1 \in 1..Len(r)
    BY <1>1, <2>1
  <2>4. Once(r)
    <3> SUFFICES ASSUME NEW j \in 1..Len(r), NEW k \in 1..Len(r), r[j] = r[k] PROVE j = k
      BY DEF Once
    <3>1. (j = 1 <=> k = 1)
      BY <2>1, <2>2 DEF Has
    <3>2. CASE j # 1 /\ k # 1
      <4>1. j - 1 = k - 1
        BY <2>2, <3>2 DEF Once
      <4> QED
        BY <4>1
    <3> QED
      BY <3>1, <3>2
  <2>5. \A y : Has(r, y) <=> Has(s, y) \/ y = x
    <3>1. Has(r, x)
      <4>1. 1 \in 1..Len(r)
        BY <1>1, <2>1
      <4> QED
        BY <2>1, <4>1 DEF Has
    <3>2. ASSUME NEW y, Has(s, y) PROVE Has(r, y)
      BY <2>1, <2>3, <3>2 DEF Has
    <3>3. ASSUME NEW y, Has(r, y), y # x PROVE Has(s, y)
      BY <2>1, <2>2, <3>3 DEF Has
    <3> QED
      BY <3>1, <3>2, <3>3
  <2> QED
    BY <2>1, <2>4, <2>5
<1> QED
  BY <1>2, <1>3

\* A list that has everything at most once has it at one place, or at none.
LEMMA OnceCounts ==
    ASSUME NEW S, NEW s \in Seq(S), Once(s), NEW x
    PROVE  Cardinality({i \in 1..Len(s) : s[i] = x}) = IF Has(s, x) THEN 1 ELSE 0
<1>1. CASE Has(s, x)
  <2>1. PICK i \in 1..Len(s) : s[i] = x
    BY <1>1 DEF Has
  <2>2. {j \in 1..Len(s) : s[j] = x} = {i}
    BY <2>1 DEF Once
  <2> QED
    BY <1>1, <2>2, FS_Singleton
<1>2. CASE ~Has(s, x)
  <2>1. {j \in 1..Len(s) : s[j] = x} = {}
    BY <1>2 DEF Has
  <2> QED
    BY <1>2, <2>1, FS_EmptySet
<1> QED
  BY <1>1, <1>2

\* The priority list has each VBAR that is allocated and not gone, once.
OrderOK == /\ order \in Seq(Vbars) /\ Once(order)
           /\ \A v \in Vbars : Has(order, v) <=> InList(v)

\* A VBAR taken from the list leaves the others in it.
LEMMA MovedHas ==
    ASSUME OrderOK, NEW v \in Vbars, InList(v)
    PROVE  /\ Moved(v) \in Seq(Vbars) /\ Once(Moved(v))
           /\ \A x : Has(Moved(v), x) <=> Has(order, x) /\ x # v
<1>1. Has(order, v) /\ order \in Seq(Vbars) /\ Once(order)
  BY DEF OrderOK
<1>2. Position(v) \in 1..Len(order) /\ order[Position(v)] = v
  BY <1>1 DEF Has, Position
<1> QED
  BY <1>1, <1>2, RemovedHas DEF Moved

\* The list stays in order.
LEMMA OrderStays ==
    ASSUME VbarInv, VbarAssumption, FreesOK, OrderOK, [Next]_vars
    PROVE  OrderOK'
<1>1. /\ TypesOK /\ CallsOK /\ DOMAIN vbar = Vbars
      /\ \A v \in Vbars : DOMAIN vbar[v] = VbarFields
  BY DEF VbarInv, TypesOK, VbarsOK
<1>2. ASSUME order' = order, \A v \in Vbars : InList(v)' <=> InList(v) PROVE OrderOK'
  BY <1>2 DEF OrderOK
<1>3. ASSUME order' = order, StatesSame PROVE OrderOK'
  BY <1>2, <1>3 DEF StatesSame, InList
<1>4. ASSUME NEW v \in Vbars, Allocate(v) PROVE OrderOK'
  <2>1. /\ order' = Append(order, v) /\ vbar[v].state = "none"
        /\ \A w \in Vbars : vbar'[w].state = IF w = v THEN "live" ELSE vbar[w].state
    BY <1>1, <1>4 DEF Allocate, VbarFields
  <2>2. order \in Seq(Vbars) /\ Once(order) /\ ~Has(order, v)
    BY <2>1 DEF OrderOK, InList
  <2>3. order' \in Seq(Vbars) /\ Once(order') /\ \A y : Has(order', y) <=> Has(order, y) \/ y = v
    BY <2>1, <2>2, AddedHas
  <2> QED
    BY <2>1, <2>3 DEF OrderOK, InList
<1>5. ASSUME NEW v \in Vbars, Prioritize(v) \/ Deprioritize(v) PROVE OrderOK'
  <2>1. /\ order' \in {Append(Moved(v), v), <<v>> \o Moved(v)} /\ InList(v)
        /\ \A w \in Vbars : vbar'[w].state = vbar[w].state
    <3>1. CASE Prioritize(v)
      <4>1. /\ order' = Append(Moved(v), v) /\ InList(v)
            /\ vbar' = [vbar EXCEPT ![v].watermark = NPages]
        BY <3>1 DEF Prioritize, Usable
      <4>2. \A w \in Vbars : vbar'[w].state = vbar[w].state
        BY <1>1, <4>1 DEF VbarFields
      <4> QED
        BY <4>1, <4>2
    <3>2. CASE Deprioritize(v)
      BY <3>2 DEF Deprioritize, Usable
    <3> QED
      BY <1>5, <3>1, <3>2
  <2>2. /\ Moved(v) \in Seq(Vbars) /\ Once(Moved(v))
        /\ \A x : Has(Moved(v), x) <=> Has(order, x) /\ x # v
    BY <2>1, MovedHas
  <2>3. /\ order' \in Seq(Vbars) /\ Once(order')
        /\ \A y : Has(order', y) <=> Has(Moved(v), y) \/ y = v
    <3> DEFINE s == Moved(v)
    <3>1. s \in Seq(Vbars) /\ Once(s) /\ ~Has(s, v) /\ order' \in {Append(s, v), <<v>> \o s}
      BY <2>1, <2>2
    <3> HIDE DEF s
    <3>2. \A r \in {Append(s, v), <<v>> \o s} :
             /\ r \in Seq(Vbars) /\ Once(r)
             /\ \A y : Has(r, y) <=> Has(s, y) \/ y = v
      BY <3>1, AddedHas, ZenonT(60)
    <3>3. /\ order' \in Seq(Vbars) /\ Once(order')
          /\ \A y : Has(order', y) <=> Has(s, y) \/ y = v
      BY <3>1, <3>2, Zenon
    <3> QED
      BY <3>3 DEF s
  <2>4. Has(order, v) /\ \A w \in Vbars : (Has(order, w) <=> InList(w)) /\ (InList(w)' <=> InList(w))
    BY <2>1 DEF OrderOK, InList
  <2>5. \A w \in Vbars : Has(order', w) <=> InList(w)'
    BY <2>2, <2>3, <2>4
  <2> QED
    BY <2>3, <2>5 DEF OrderOK
<1>6. ASSUME NEW v \in Vbars, CopyAcquire(v) \/ CopyRelease(v) PROVE OrderOK'
  BY <1>1, <1>3, <1>6 DEF CopyAcquire, CopyRelease, StatesSame, VbarFields
<1>7. ASSUME LimitNext PROVE OrderOK'
  <2>1. order' = order
    <3>1. \E V, n : SetLimit(V, n)
      BY <1>7, Zenon DEF LimitNext
    <3> QED
      BY <3>1, Zenon DEF SetLimit
  <2>2. StatesSame
    BY <1>1, <1>7, LimitVbars DEF StatesSame, VbarFields
  <2> QED
    BY <1>3, <2>1, <2>2
<1>8. ASSUME Quiet \/ (UNCHANGED vars) \/ \E o \in inflight : Finish(o) PROVE OrderOK'
  BY <1>3, <1>8 DEF Quiet, vars, memory, Finish, StatesSame
<1>9. ASSUME NEW t \in Threads, ReclaimNext(t) \/ FaultNext(t) \/ ConsumerNext(t) PROVE OrderOK'
  <2>1. StatesSame
    BY <1>1, <1>9, StatesStay
  <2>2. ReclaimNext(t) => order' = order
    <3>1. \A need, keep : Pressure(t, need, keep) => order' = order
      BY DEF Pressure, memory
    <3>2. \A v, n : SetWatermark(t, v, n) \/ FreeMemory(t, v, n) => order' = order
      BY DEF SetWatermark, FreeMemory
    <3>3. Snapshot(t) \/ Synchronized(t) => order' = order
      BY DEF Snapshot, Synchronized, memory
    <3>4. (Freeze(t) => order' = order) /\ (SynchronizeFails(t) => order' = order)
      BY DEF Freeze, SynchronizeFails
    <3>5. Commit(t) => order' = order
      BY ZenonT(30) DEF Commit
    <3> QED
      BY <3>1, <3>2, <3>3, <3>4, <3>5 DEF ReclaimNext
  <2>3. FaultNext(t) => order' = order
    BY ZenonT(30) DEF FaultNext, Fault, EnterFault, FaultHit, FaultUnknown, FaultRestore, FaultMiss, FaultMap,
       ReturnFault, memory
  <2>4. ConsumerNext(t) => order' = order
    <3>1. \A own, q : Submit(t, own, q) => order' = order
      BY DEF Submit, memory
    <3>2. \A pc, q : TakeToken(t, pc, q) => order' = order
      BY DEF TakeToken, memory
    <3>3. Register(t) \/ Unpin(t) \/ Release(t) \/ (\E R : Acquire(t, R)) => order' = order
      BY DEF Register, Unpin, Release, Acquire
    <3> QED
      BY <3>1, <3>2, <3>3, ConsumerKinds
  <2> QED
    BY <1>3, <1>9, <2>1, <2>2, <2>3, <2>4
<1>10. ASSUME NEW t \in Threads, FreeNext(t) PROVE OrderOK'
  <2>1. ASSUME NEW v \in Vbars, Free(t, v) PROVE OrderOK'
    <3>1. /\ order' = order /\ vbar[v].state = "live"
          /\ \A w \in Vbars : vbar'[w].state = IF w = v THEN "closing" ELSE vbar[w].state
      BY <1>1, <2>1 DEF Free, VbarFields
    <3> QED
      BY <1>2, <3>1 DEF InList
  <2>2. ASSUME CheckFree(t) \/ BeginTeardown(t) \/ TeardownPage(t) PROVE OrderOK'
    <3>1. StatesSame
      BY <1>1, <2>2, StatesStay
    <3>2. order' = order
      BY <2>2 DEF CheckFree, BeginTeardown, TeardownPage, memory
    <3> QED
      BY <1>3, <3>1, <3>2
  <2>3. ASSUME NEW refused, EndTeardown(t, refused) PROVE OrderOK'
    <3> DEFINE v == call[t].vbar
    <3>1. v \in Vbars /\ call[t].kind = "free"
      BY <1>1, <2>3 DEF EndTeardown, CallsOK, CallOK, Closing
    <3>2. InList(v)
      BY <3>1 DEF FreesOK, InList
    <3>3. \/ vbar' = vbar /\ order' = order
          \/ vbar' = [vbar EXCEPT ![v].state = "gone"] /\ order' = Moved(v)
      BY <2>3 DEF EndTeardown
    <3> HIDE DEF v
    <3>4. CASE vbar' = vbar /\ order' = order
      BY <1>3, <3>4 DEF StatesSame
    <3>5. CASE vbar' = [vbar EXCEPT ![v].state = "gone"] /\ order' = Moved(v)
      <4>1. \A w \in Vbars : vbar'[w].state = IF w = v THEN "gone" ELSE vbar[w].state
        BY <1>1, <3>1, <3>5 DEF VbarFields
      <4>2. /\ order' \in Seq(Vbars) /\ Once(order')
            /\ \A x : Has(order', x) <=> Has(order, x) /\ x # v
        BY <3>1, <3>2, <3>5, MovedHas
      <4> QED
        BY <4>1, <4>2 DEF OrderOK, InList
    <3> QED
      BY <3>3, <3>4, <3>5
  <2> QED
    BY <1>10, <2>1, <2>2, <2>3 DEF FreeNext
<1> QED
  BY <1>4, <1>5, <1>6, <1>7, <1>8, <1>9, <1>10, StepKinds

\* What a call still needs is a number, and what it has frozen are pages as they were.
NeedOK(d) == d.need \in Nat /\ \A k \in d.candidates : k \in Candidate

\* A reclaim starts with a number, if it starts.
LEMMA ReclaimNeeds ==
    ASSUME NEW a, IsCall(a), NeedOK(a), NEW need \in Int, NEW keep, NEW then
    PROVE  NeedOK(Reclaim(a, need, keep, then))
<1>1. CASE need > 0 /\ async
  <2>1. Reclaim(a, need, keep, then) =
          [a EXCEPT !.pc = "snapshot", !.kind = "retired", !.need = need, !.keep = keep, !.then = then]
    BY <1>1 DEF Reclaim
  <2> QED
    BY <1>1, <2>1 DEF IsCall, CallFields, NeedOK
<1>2. CASE ~(need > 0 /\ async)
  <2>1. Reclaim(a, need, keep, then) = [a EXCEPT !.pc = then]
    BY <1>2 DEF Reclaim
  <2> QED
    BY <2>1 DEF IsCall, CallFields, NeedOK
<1> QED
  BY <1>1, <1>2

\* Nothing is needed outside a call.
LEMMA NoCallNeeds == IsCall(NoCall) /\ NeedOK(NoCall) /\ NoCall.candidates = {}
BY DEF NoCall, NeedOK, IsCall, CallFields

\* A reclaim that stops leaves a number, too.
LEMMA StoppedNeeds ==
    ASSUME NEW c, IsCall(c), NEW left \in Int
    PROVE  NeedOK(Stopped(c, left))
<1> DEFINE back == [c EXCEPT !.pc = c.then, !.kind = "none", !.need = 0,
                             !.keep = NoVbar, !.frontier = NoTokens,
                             !.candidates = {}, !.waits = {}, !.then = "idle"]
<1>1. IsCall(back) /\ NeedOK(back)
  BY DEF IsCall, CallFields, NeedOK
<1>2. \/ Stopped(c, left) = NoCall
      \/ Stopped(c, left) = Reclaim(back, left, NoVbar, c.then)
      \/ Stopped(c, left) = back
  BY DEF Stopped
<1> HIDE DEF back
<1> QED
  BY <1>1, <1>2, NoCallNeeds, ReclaimNeeds

\* The pages a commit frees are counted by a number.
LEMMA CommitNeeds ==
    ASSUME VbarAssumption, NEW t \in Threads, DOMAIN call = Threads, IsCall(call[t]), NeedOK(call[t]),
           Commit(t)
    PROVE  NeedOK(call'[t])
<1> DEFINE c == call[t]
           K == {k \in c.candidates : Current(k)}
           P == {k.page : k \in K}
           freed(out) == Cardinality({p \in P : out[p].result = "freed"})
<1>1. PICK out \in [P -> UNION {Released(page[p]) : p \in P}] : call' = [call EXCEPT ![t] =
          IF Over(freed(out), c.need) THEN Stopped(c, c.need - freed(out))
          ELSE [c EXCEPT !.pc = "freeze", !.need = @ - freed(out), !.candidates = {}]]
  BY DEF Commit
<1>2. P \subseteq Pages
  BY DEF NeedOK, Candidate
<1> HIDE DEF P
<1> DEFINE n == freed(out)
<1>4. n \in Nat
  <2> DEFINE F == {p \in P : out[p].result = "freed"}
  <2>1. F \subseteq Pages
    BY <1>2
  <2> HIDE DEF F
  <2>2. IsFiniteSet(F)
    BY <2>1, FinitePages, FS_Subset
  <2>3. Cardinality(F) \in Nat
    BY <2>2, FS_CardinalityType
  <2> QED
    BY <2>3 DEF F
<1>5. call'[t] = IF Over(n, c.need) THEN Stopped(c, c.need - n)
                 ELSE [c EXCEPT !.pc = "freeze", !.need = c.need - n, !.candidates = {}]
  BY <1>1
<1> HIDE DEF n
<1>6. c.need \in Nat /\ c.need - n \in Int
  BY <1>4 DEF NeedOK
<1>7. CASE Over(n, c.need)
  BY <1>5, <1>6, <1>7, StoppedNeeds
<1>8. CASE ~Over(n, c.need)
  <2>1. c.need - n \in Nat
    BY <1>4, <1>6, <1>8 DEF Over
  <2> DEFINE m == c.need - n
  <2> HIDE DEF m
  <2>2. call'[t] = [c EXCEPT !.pc = "freeze", !.need = m, !.candidates = {}]
    BY <1>5, <1>8 DEF m
  <2>3. m \in Nat
    BY <2>1 DEF m
  <2> QED
    BY <2>2, <2>3 DEF NeedOK, IsCall, CallFields
<1> QED
  BY <1>7, <1>8

\* The pages a scan freezes are in the table.
LEMMA FreezeNeeds ==
    ASSUME VbarAssumption, NEW t \in Threads, DOMAIN call = Threads, IsCall(call[t]), NeedOK(call[t]),
           \A p \in Pages : Honest(page[p]), Freeze(t)
    PROVE  NeedOK(call'[t])
<1> DEFINE c == call[t]
<1>1. PICK K \in Scans(t) : \/ K = {} /\ call'[t] = Stopped(c, c.need)
                            \/ \E pc, waits : call'[t] = [c EXCEPT !.pc = pc, !.waits = waits,
                                   !.candidates = {[page |-> p, serial |-> page[p].serial,
                                                    gen |-> page[p].gen + 1] : p \in K}]
  <2>1. PICK K \in Scans(t) : call' = [call EXCEPT ![t] =
            IF K = {} THEN Stopped(c, c.need)
            ELSE [c EXCEPT
                    !.pc = IF c.kind = "retired" THEN "commit" ELSE "sync",
                    !.waits = IF c.kind = "retired" THEN {} ELSE inflight,
                    !.candidates = {[page |-> p, serial |-> page[p].serial,
                                     gen |-> page[p].gen + 1] : p \in K}]]
    BY DEF Freeze
  <2> QED
    BY <2>1
<1>2. K \subseteq Pages
  BY DEF Scans, Candidates, Eligible
<1>3. \A p \in Pages : page[p].serial \in Nat /\ page[p].gen \in Nat
  BY DEF Honest, PageRecords
<1> DEFINE C == {[page |-> p, serial |-> page[p].serial, gen |-> page[p].gen + 1] : p \in K}
<1>4. \A k \in C : k \in Candidate
  BY <1>2, <1>3 DEF Candidate
<1>5. \/ call'[t] = Stopped(c, c.need)
      \/ \E pc, waits : call'[t] = [c EXCEPT !.pc = pc, !.waits = waits, !.candidates = C]
  BY <1>1
<1> HIDE DEF C
<1>6. c.need \in Int
  BY DEF NeedOK
<1> QED
  BY <1>4, <1>5, <1>6, StoppedNeeds DEF NeedOK, IsCall, CallFields

\* In every step, a call needs a number and keeps pages of the table.
LEMMA NeedStays ==
    ASSUME VbarInv, VbarAssumption, Usage, \A p \in Pages : Honest(page[p]),
           vbar \in [Vbars -> VbarRecords], \A t \in Threads : NeedOK(call[t]),
           [Next]_vars, NEW t \in Threads
    PROVE  NeedOK(call'[t])
<1> DEFINE c == call[t]
           d == call'[t]
           Goal == NeedOK(d)
<1>1. /\ TypesOK /\ CallsOK /\ DOMAIN call = Threads /\ Acts(t) /\ IsCall(c) /\ NeedOK(c)
      /\ CallOK(c, lock = t)
  <2>1. TypesOK /\ CallsOK /\ DOMAIN call = Threads
    BY DEF VbarInv, TypesOK
  <2> QED
    BY <2>1, ThreadActs DEF CallsOK, CallOK
<1>2. NPages \in Nat /\ MaxNeed \in Nat /\ Capacity \in Nat /\ ReclaimFloor \in Nat
  BY DEF VbarAssumption
<1>3. c.need \in Int
  BY <1>1 DEF NeedOK
<1>4. ASSUME NEW a, IsCall(a), a.need = c.need, a.candidates = c.candidates PROVE NeedOK(a)
  BY <1>1, <1>4 DEF NeedOK
<1>5. ASSUME d = c \/ d = NoCall PROVE Goal
  BY <1>1, <1>5, NoCallNeeds
<1>6. ASSUME NEW u \in Threads \ {t}, ReclaimNext(u) \/ FaultNext(u) \/ ConsumerNext(u) \/ FreeNext(u)
      PROVE  Goal
  BY <1>1, <1>5, <1>6, MineStep DEF Mine, Only
<1>7. ASSUME ListNext \/ LimitNext \/ Quiet \/ (UNCHANGED vars) \/ \E o \in inflight : Finish(o)
      PROVE  Goal
  <2>1. d = c
    BY <1>7 DEF ListNext, LimitNext, SetLimit, Allocate, Prioritize, Deprioritize, CopyAcquire,
       CopyRelease, Quiet, vars, Finish
  <2> QED
    BY <1>5, <2>1
<1>8. ASSUME ReclaimNext(t) PROVE Goal
  <2>1. ASSUME NEW need \in 1..MaxNeed, NEW keep, Pressure(t, need, keep) PROVE Goal
    <3>1. \/ d = Reclaim(NoCall, need, keep, "idle")
          \/ d = [NoCall EXCEPT !.pc = "freeze", !.kind = "reference", !.need = need, !.keep = keep]
      BY <1>1, <2>1 DEF Pressure
    <3>2. need \in Nat
      BY <1>2
    <3>3. NeedOK([NoCall EXCEPT !.pc = "freeze", !.kind = "reference", !.need = need, !.keep = keep])
      BY <3>2 DEF NoCall, NeedOK
    <3> QED
      BY <3>1, <3>2, <3>3, NoCallNeeds, ReclaimNeeds
  <2>2. ASSUME NEW v, NEW first, NEW last, NEW need \in Nat PROVE NeedOK(FreeRange(v, first, last, need))
    BY DEF FreeRange, NoCall, NeedOK
  <2>3. ASSUME NEW v \in Vbars, NEW n \in 0..NPages, SetWatermark(t, v, n) PROVE Goal
    <3> DEFINE m == vbar[v].watermark
    <3>1. d = IF n < m THEN FreeRange(v, n + 1, m, m - n) ELSE NoCall
      BY <1>1, <2>3 DEF SetWatermark
    <3>2. m \in Nat /\ n \in Nat
      <4>1. m \in 0..NPages
        BY DEF VbarRecords
      <4> HIDE DEF m
      <4> QED
        BY <1>2, <4>1
    <3> HIDE DEF m
    <3>3. n < m => m - n \in Nat
      BY <3>2
    <3> QED
      BY <1>5, <2>2, <3>1, <3>3
  <2>4. ASSUME NEW v \in Vbars, NEW n \in 0..NPages, FreeMemory(t, v, n) PROVE Goal
    <3>1. n \in Nat
      BY <1>2
    <3>2. \E first, last : d = FreeRange(v, first, last, n)
      BY <1>1, <2>4 DEF FreeMemory
    <3> QED
      BY <2>2, <3>1, <3>2
  <2>5. ASSUME Freeze(t) \/ Commit(t) PROVE Goal
    BY <1>1, <2>5, FreezeNeeds, CommitNeeds
  <2>6. ASSUME Snapshot(t) \/ Synchronized(t) PROVE Goal
    <3>1. IsCall(d) /\ d.need = c.need /\ d.candidates = c.candidates
      BY <1>1, <2>6 DEF Snapshot, Synchronized, IsCall, CallFields
    <3> QED
      BY <1>4, <3>1
  <2>7. ASSUME SynchronizeFails(t) PROVE Goal
    <3>1. d = Stopped(c, c.need)
      BY <1>1, <2>7 DEF SynchronizeFails
    <3> QED
      BY <1>1, <1>3, <3>1, StoppedNeeds
  <2> HIDE DEF Goal
  <2> QED
    BY <1>8, <2>1, <2>3, <2>4, <2>5, <2>6, <2>7 DEF ReclaimNext
<1>9. ASSUME FaultNext(t) PROVE Goal
  <2>1. ASSUME NEW v, NEW first, NEW last, NEW deficit \in 0..MaxNeed, Fault(t, v, first, last, deficit)
        PROVE  Goal
    <3> DEFINE a == [NoCall EXCEPT !.vbar = v, !.first = first, !.last = last]
    <3>1. d = Reclaim(a, deficit, NoVbar, "enter")
      BY <1>1, <2>1 DEF Fault
    <3>2. IsCall(a) /\ NeedOK(a)
      BY DEF NoCall, IsCall, CallFields, NeedOK
    <3> HIDE DEF a
    <3> QED
      BY <1>2, <3>1, <3>2, ReclaimNeeds
  <2>2. ASSUME NEW fits, EnterFault(t, fits) PROVE Goal
    <3>1. d = NoCall \/ d = [c EXCEPT !.pc = "page", !.at = c.first]
      <4>1. call' = [call EXCEPT ![t] = NoCall] \/ call' = [call EXCEPT ![t].pc = "page", ![t].at = c.first]
        BY <2>2 DEF EnterFault
      <4>2. CASE call' = [call EXCEPT ![t] = NoCall]
        BY <1>1, <4>2
      <4>3. CASE call' = [call EXCEPT ![t].pc = "page", ![t].at = c.first]
        BY <1>1, <4>3
      <4> QED
        BY <4>1, <4>2, <4>3
    <3>2. NeedOK([c EXCEPT !.pc = "page", !.at = c.first])
      BY <1>1 DEF NeedOK, IsCall, CallFields
    <3> QED
      BY <1>5, <3>1, <3>2
  <2>3. NeedOK(Advanced(c))
    BY <1>1 DEF Advanced, NeedOK, IsCall, CallFields
  <2>4. ASSUME FaultHit(t) \/ FaultUnknown(t) \/ FaultRestore(t) \/ ReturnFault(t) PROVE Goal
    <3>1. d = NoCall \/ d = Advanced(c)
      <4>1. call' = [call EXCEPT ![t] = NoCall] \/ call' = [call EXCEPT ![t] = Advanced(@)]
        BY <2>4 DEF FaultHit, FaultUnknown, FaultRestore, ReturnFault, GiveUp
      <4> QED
        BY <1>1, <4>1
    <3> QED
      BY <1>5, <2>3, <3>1
  <2>5. ASSUME FaultMiss(t) PROVE Goal
    <3> DEFINE a == [c EXCEPT !.tries = 1, !.checked = TRUE]
               missing == total + (c.last - c.at + 1) - Capacity
    <3>1. d = a \/ d = Reclaim(a, missing, NoVbar, "page")
      <4>1. a.last = c.last /\ a.at = c.at
        BY <1>1 DEF IsCall, CallFields
      <4> QED
        BY <1>1, <2>5, <4>1 DEF FaultMiss
    <3>2. IsCall(a) /\ NeedOK(a)
      BY <1>1 DEF IsCall, CallFields, NeedOK
    <3>3. missing \in Int
      <4>1. total \in Nat
        BY UseTypes DEF Usage
      <4>2. c.last \in Int /\ c.at \in Int
        BY <1>1, <1>2, <2>5 DEF FaultMiss, AtPage, CallOK, Faulting
      <4> QED
        BY <1>2, <4>1, <4>2
    <3> HIDE DEF a, missing
    <3> QED
      BY <3>1, <3>2, <3>3, ReclaimNeeds
  <2>6. ASSUME NEW deficit \in 0..MaxNeed, FaultMap(t, deficit) PROVE Goal
    <3> DEFINE a == [c EXCEPT !.tries = @ + 1]
    <3>1. \/ d = NoCall \/ d = Advanced(c)
          \/ \E keep, need : /\ need \in {deficit, 1, ReclaimFloor}
                              /\ d = Reclaim(a, need, keep, "page")
      <4>1. \/ call' = [call EXCEPT ![t] = NoCall] \/ call' = [call EXCEPT ![t] = Advanced(@)]
            \/ \E keep, need : /\ need \in {deficit, 1, ReclaimFloor}
                                /\ call' = [call EXCEPT ![t] = Reclaim(a, need, keep, "page")]
        BY <2>6 DEF FaultMap, GiveUp
      <4> HIDE DEF a
      <4> QED
        BY <1>1, <4>1
    <3>2. IsCall(a) /\ NeedOK(a)
      BY <1>1 DEF IsCall, CallFields, NeedOK
    <3>3. {deficit, 1, ReclaimFloor} \subseteq Int
      BY <1>2
    <3> HIDE DEF a
    <3>4. \A keep, need : need \in Int => NeedOK(Reclaim(a, need, keep, "page"))
      BY <3>2, ReclaimNeeds
    <3> QED
      BY <1>5, <2>3, <3>1, <3>3, <3>4
  <2> HIDE DEF Goal
  <2> QED
    BY <1>9, <2>1, <2>2, <2>4, <2>5, <2>6 DEF FaultNext
<1>10. ASSUME ConsumerNext(t) PROVE Goal
  <2>1. ASSUME NEW pc, NEW q, TakeToken(t, pc, q) PROVE Goal
    <3>1. IsCall(d) /\ d.need = c.need /\ d.candidates = c.candidates
      BY <1>1, <2>1 DEF TakeToken, IsCall, CallFields
    <3> QED
      BY <1>4, <3>1
  <2>2. ASSUME NEW own, NEW q, Submit(t, own, q) PROVE Goal
    BY <1>5, <2>2 DEF Submit
  <2>3. ASSUME NEW R, Acquire(t, R) PROVE Goal
    BY <1>5, <2>3 DEF Acquire
  <2>4. ASSUME Register(t) \/ Unpin(t) \/ Release(t) PROVE Goal
    <3>1. d = NoCall
      BY <1>1, <2>4 DEF Register, Unpin, Release
    <3> QED
      BY <1>5, <3>1
  <2> HIDE DEF Goal
  <2> QED
    BY <1>10, <2>1, <2>2, <2>3, <2>4 DEF ConsumerNext
<1>11. ASSUME FreeNext(t) PROVE Goal
  <2>1. ASSUME NEW v, Free(t, v) PROVE Goal
    <3>1. d = [NoCall EXCEPT !.pc = "drain", !.kind = "free", !.vbar = v, !.waits = inflight]
      BY <1>1, <2>1 DEF Free
    <3>2. NeedOK([NoCall EXCEPT !.pc = "drain", !.kind = "free", !.vbar = v, !.waits = inflight])
      BY DEF NoCall, NeedOK
    <3> QED
      BY <3>1, <3>2
  <2>2. ASSUME CheckFree(t) \/ BeginTeardown(t) \/ TeardownPage(t) PROVE Goal
    <3>1. \/ d = NoCall \/ d = [c EXCEPT !.pc = "redrain", !.waits = inflight]
          \/ d = [c EXCEPT !.pc = "teardown", !.at = 1] \/ d = [c EXCEPT !.at = @ + 1]
      <4>1. CheckFree(t) => \/ call' = [call EXCEPT ![t] = NoCall]
                            \/ call' = [call EXCEPT ![t] = [c EXCEPT !.pc = "redrain", !.waits = inflight]]
        BY DEF CheckFree
      <4>2. BeginTeardown(t) => call' = [call EXCEPT ![t].pc = "teardown", ![t].at = 1]
        BY DEF BeginTeardown
      <4>3. TeardownPage(t) => \/ call' = [call EXCEPT ![t] = NoCall]
                               \/ call' = [call EXCEPT ![t].at = @ + 1]
        BY DEF TeardownPage
      <4>4. CASE call' = [call EXCEPT ![t] = NoCall]
        BY <1>1, <4>4
      <4>5. CASE call' = [call EXCEPT ![t] = [c EXCEPT !.pc = "redrain", !.waits = inflight]]
        BY <1>1, <4>5
      <4>6. CASE call' = [call EXCEPT ![t].pc = "teardown", ![t].at = 1]
        BY <1>1, <4>6
      <4>7. CASE call' = [call EXCEPT ![t].at = @ + 1]
        BY <1>1, <4>7
      <4> QED
        BY <2>2, <4>1, <4>2, <4>3, <4>4, <4>5, <4>6, <4>7
    <3>2. /\ NeedOK([c EXCEPT !.pc = "redrain", !.waits = inflight])
          /\ NeedOK([c EXCEPT !.pc = "teardown", !.at = 1]) /\ NeedOK([c EXCEPT !.at = @ + 1])
      BY <1>1 DEF NeedOK, IsCall, CallFields
    <3> QED
      BY <1>5, <3>1, <3>2
  <2>3. ASSUME NEW refused, EndTeardown(t, refused) PROVE Goal
    <3>1. d = NoCall
      BY <1>1, <2>3 DEF EndTeardown
    <3> QED
      BY <1>5, <3>1
  <2> HIDE DEF Goal
  <2> QED
    BY <1>11, <2>1, <2>2, <2>3 DEF FreeNext
<1> HIDE DEF Goal
<1>12. Goal
  BY <1>6, <1>7, <1>8, <1>9, <1>10, <1>11 DEF Next
<1> QED
  BY <1>12 DEF Goal

\* The fields of a range that change.
LEMMA LeaseFields ==
    ASSUME VbarAssumption
    PROVE  /\ NoRange \in LeaseRecord
           /\ \A R \in LeaseRecord : \A Q \in SUBSET Queues : [R EXCEPT !.queues = Q] \in LeaseRecord
           /\ \A v \in Vbars, first, last \in 1..NPages :
                 [NoRange EXCEPT !.vbar = v, !.first = first, !.last = last] \in LeaseRecord
<1>1. 1 \in 1..NPages /\ 0 \in 0..NPages /\ 1..NPages \subseteq 0..NPages
  BY DEF VbarAssumption
<1> QED
  BY <1>1 DEF LeaseRecord, NoRange

\* Leases and holds are ranges of the table, and what reads them are operators.
RangesTyped == /\ \A t \in Threads : lease[t] \in LeaseRecord /\ hold[t] \in LeaseRecord
               /\ inflight \subseteq Operator
               /\ async \in Modes

\* What a fault returns is the range it was asked for.
LEMMA ReturnsRange ==
    ASSUME VbarInv, VbarAssumption, RangesTyped, NEW t \in Threads, ReturnFault(t)
    PROVE  RangesTyped'
<1> DEFINE c == call[t]
           R == [NoRange EXCEPT !.vbar = c.vbar, !.first = c.first, !.last = c.last]
<1>1. DOMAIN lease = Threads /\ CallOK(c, lock = t)
  BY DEF VbarInv, TypesOK, RangesOK, CallsOK
<1>2. lease' = [lease EXCEPT ![t] = R] /\ c.pc = "page" /\ UNCHANGED <<hold, device>>
  BY DEF ReturnFault
<1>3. c.vbar \in Vbars /\ c.first \in 1..NPages /\ c.last \in 1..NPages
  BY <1>1, <1>2 DEF CallOK, Faulting
<1>4. R \in LeaseRecord
  BY <1>3, LeaseFields
<1> HIDE DEF R
<1>5. \A u \in Threads : lease'[u] \in LeaseRecord /\ hold'[u] \in LeaseRecord
  BY <1>1, <1>2, <1>4 DEF RangesTyped
<1> QED
  BY <1>2, <1>5 DEF RangesTyped, device

\* A consumer uses a range, acquires one or gives one back.
LEMMA ConsumesRange ==
    ASSUME VbarInv, VbarAssumption, BoundsOK, RangesTyped, NEW t \in Threads, ConsumerNext(t)
    PROVE  RangesTyped'
<1>1. /\ DOMAIN lease = Threads /\ DOMAIN hold = Threads
      /\ \A u \in Threads : IsRange(lease[u]) /\ IsRange(hold[u])
      /\ submitted \in [Queues -> 0..MaxOps] /\ MaxOps \in Nat
  BY DEF VbarInv, TypesOK, RangesOK, BoundsOK, VbarAssumption
<1>2. lease[t] \in LeaseRecord /\ hold[t] \in LeaseRecord
  BY DEF RangesTyped
<1>3. ASSUME NEW own, NEW q \in Queues, Submit(t, own, q) PROVE RangesTyped'
  <2> DEFINE R == Lease(own, t)
             o == [queue |-> q, n |-> submitted[q] + 1, pages |-> RangePages(R)]
             Q == R.queues \cup {q}
  <2>1. R \in LeaseRecord /\ RangePages(R) \subseteq Pages
    <3>1. R = lease[t] \/ R = hold[t]
      BY DEF Lease
    <3>2. RangePages(lease[t]) \subseteq Pages /\ RangePages(hold[t]) \subseteq Pages
      BY <1>1 DEF IsRange
    <3> HIDE DEF R
    <3> QED
      BY <1>2, <3>1, <3>2
  <2>2. Q \in SUBSET Queues
    BY <2>1 DEF LeaseRecord
  <2>3. o \in Operator
    <3>1. submitted[q] \in 0..MaxOps /\ submitted[q] < MaxOps
      BY <1>1, <1>3 DEF Submit
    <3>2. submitted[q] + 1 \in 1..MaxOps
      BY <1>1, <3>1
    <3> QED
      BY <2>1, <3>2 DEF Operator
  <2>4. inflight' = inflight \cup {o} /\ async' = async /\ Used(own, t, Q)
    BY <1>3 DEF Submit
  <2> HIDE DEF R, o, Q
  <2>5. [lease[t] EXCEPT !.queues = Q] \in LeaseRecord /\ [hold[t] EXCEPT !.queues = Q] \in LeaseRecord
    BY <1>2, <2>2, LeaseFields
  <2>6. \A u \in Threads : lease'[u] \in LeaseRecord /\ hold'[u] \in LeaseRecord
    BY <1>1, <2>4, <2>5 DEF Used, RangesTyped
  <2> QED
    BY <2>3, <2>4, <2>6 DEF RangesTyped
<1>4. ASSUME NEW pc, NEW q, TakeToken(t, pc, q) PROVE RangesTyped'
  BY <1>4 DEF TakeToken, owners, device, RangesTyped
<1>5. ASSUME Register(t) PROVE RangesTyped'
  <2> DEFINE Q == lease[t].queues \ {call[t].token.queue}
  <2>1. lease' = [lease EXCEPT ![t].queues = Q] /\ UNCHANGED <<hold, device>>
    BY <1>5 DEF Register
  <2>2. Q \in SUBSET Queues
    BY <1>2 DEF LeaseRecord
  <2> HIDE DEF Q
  <2>3. [lease[t] EXCEPT !.queues = Q] \in LeaseRecord
    BY <1>2, <2>2, LeaseFields
  <2>4. \A u \in Threads : lease'[u] \in LeaseRecord /\ hold'[u] \in LeaseRecord
    BY <1>1, <2>1, <2>3 DEF RangesTyped
  <2> QED
    BY <2>1, <2>4 DEF RangesTyped, device
<1>6. ASSUME Unpin(t) \/ Release(t) PROVE RangesTyped'
  <2>1. /\ lease' = lease \/ lease' = [lease EXCEPT ![t] = NoRange]
        /\ hold' = hold \/ hold' = [hold EXCEPT ![t] = NoRange]
        /\ UNCHANGED device
    BY <1>6 DEF Unpin, Release
  <2>2. \A u \in Threads : lease'[u] \in LeaseRecord /\ hold'[u] \in LeaseRecord
    BY <1>1, <2>1, LeaseFields DEF RangesTyped
  <2> QED
    BY <2>1, <2>2 DEF RangesTyped, device
<1>7. ASSUME NEW R \in LeaseRecord, Acquire(t, R) PROVE RangesTyped'
  <2>1. hold' = [hold EXCEPT ![t] = R] /\ UNCHANGED <<lease, device>>
    BY <1>7 DEF Acquire
  <2>2. \A u \in Threads : lease'[u] \in LeaseRecord /\ hold'[u] \in LeaseRecord
    BY <1>1, <2>1 DEF RangesTyped
  <2> QED
    BY <2>1, <2>2 DEF RangesTyped, device
<1>8. \/ \E own : \E q \in Queues : Submit(t, own, q)
      \/ \E pc, q : TakeToken(t, pc, q)
      \/ Register(t) \/ Unpin(t) \/ Release(t)
      \/ \E v \in Vbars, first, last \in 1..NPages, kind \in HoldKinds :
            Acquire(t, [vbar |-> v, first |-> first, last |-> last, kind |-> kind, queues |-> {}])
  BY Zenon DEF ConsumerNext
<1>9. \A v \in Vbars, first, last \in 1..NPages, kind \in HoldKinds :
         [vbar |-> v, first |-> first, last |-> last, kind |-> kind, queues |-> {}] \in LeaseRecord
  <2>1. 1..NPages \subseteq 0..NPages /\ HoldKinds \subseteq {"external", "capture"}
    BY DEF VbarAssumption
  <2> QED
    BY <2>1 DEF LeaseRecord
<1>10. (\E v \in Vbars, first, last \in 1..NPages, kind \in HoldKinds :
            Acquire(t, [vbar |-> v, first |-> first, last |-> last, kind |-> kind, queues |-> {}]))
       => \E R \in LeaseRecord : Acquire(t, R)
  BY <1>9, Zenon
<1> QED
  BY <1>3, <1>4, <1>5, <1>6, <1>7, <1>8, <1>10

\* Every step leaves them so.
LEMMA RangesStayTyped ==
    ASSUME VbarInv, VbarAssumption, BoundsOK, RangesTyped, [Next]_vars
    PROVE  RangesTyped'
<1>1. ASSUME UNCHANGED <<owners, device>> PROVE RangesTyped'
  BY <1>1 DEF owners, device, RangesTyped
<1>2. ASSUME NEW v \in Vbars, Allocate(v) \/ Prioritize(v) \/ Deprioritize(v) \/ CopyAcquire(v) \/ CopyRelease(v)
      PROVE  RangesTyped'
  BY <1>1, <1>2 DEF Allocate, Prioritize, Deprioritize, CopyAcquire, CopyRelease
<1>3. ASSUME LimitNext PROVE RangesTyped'
  <2>1. \E V, n : SetLimit(V, n)
    BY <1>3, Zenon DEF LimitNext
  <2> QED
    BY <1>1, <2>1 DEF SetLimit
<1>4. ASSUME Quiet \/ UNCHANGED vars PROVE RangesTyped'
  BY <1>1, <1>4 DEF Quiet, vars
<1>5. ASSUME NEW o \in inflight, Finish(o) PROVE RangesTyped'
  BY <1>5 DEF Finish, owners, RangesTyped
<1>6. ASSUME NEW t \in Threads, ReclaimNext(t) PROVE RangesTyped'
  <2>1. \A need, keep : Pressure(t, need, keep) => UNCHANGED <<owners, device>>
    BY DEF Pressure
  <2>2. \A v, n : SetWatermark(t, v, n) \/ FreeMemory(t, v, n) => UNCHANGED <<owners, device>>
    BY DEF SetWatermark, FreeMemory
  <2>3. Snapshot(t) \/ Synchronized(t) => UNCHANGED <<owners, device>>
    BY DEF Snapshot, Synchronized
  <2>4. Freeze(t) \/ SynchronizeFails(t) => UNCHANGED <<owners, device>>
    BY DEF Freeze, SynchronizeFails
  <2>5. Commit(t) => UNCHANGED <<owners, device>>
    BY ZenonT(30) DEF Commit
  <2> QED
    BY <1>1, <1>6, <2>1, <2>2, <2>3, <2>4, <2>5 DEF ReclaimNext
<1>7. ASSUME NEW t \in Threads, FaultNext(t) PROVE RangesTyped'
  <2>1. \A v, first, last, deficit : Fault(t, v, first, last, deficit) => UNCHANGED <<owners, device>>
    BY DEF Fault
  <2>2. \A fits : EnterFault(t, fits) => UNCHANGED <<owners, device>>
    BY DEF EnterFault
  <2>3. FaultHit(t) \/ FaultUnknown(t) \/ FaultRestore(t) \/ FaultMiss(t) => UNCHANGED <<owners, device>>
    BY DEF FaultHit, FaultUnknown, FaultRestore, FaultMiss
  <2>4. \A deficit : FaultMap(t, deficit) => UNCHANGED <<owners, device>>
    BY DEF FaultMap
  <2> QED
    BY <1>1, <1>7, <2>1, <2>2, <2>3, <2>4, ReturnsRange DEF FaultNext
<1>8. ASSUME NEW t \in Threads, FreeNext(t) PROVE RangesTyped'
  <2>1. \A v : Free(t, v) => UNCHANGED <<owners, device>>
    BY DEF Free
  <2>2. CheckFree(t) \/ BeginTeardown(t) \/ TeardownPage(t) => UNCHANGED <<owners, device>>
    BY DEF CheckFree, BeginTeardown, TeardownPage
  <2>3. \A refused : EndTeardown(t, refused) => UNCHANGED <<owners, device>>
    BY DEF EndTeardown
  <2> QED
    BY <1>1, <1>8, <2>1, <2>2, <2>3 DEF FreeNext
<1> QED
  BY <1>2, <1>3, <1>4, <1>5, <1>6, <1>7, <1>8, ConsumesRange, StepKinds

\* The page table is a function of the pages.
TableIsFunction == page = [p \in Pages |-> page[p]]

\* So it stays: a step replaces it by another or changes it at one page.
LEMMA TableStays ==
    ASSUME VbarInv, VbarAssumption, TableIsFunction, [Next]_vars
    PROVE  TableIsFunction'
<1>1. DOMAIN page = Pages
  BY DEF VbarInv, TypesOK, PagesOK
<1>2. ASSUME page' = page PROVE TableIsFunction'
  BY <1>2 DEF TableIsFunction
<1>4. ASSUME NEW q, NEW r, page' = [page EXCEPT ![q] = r] PROVE TableIsFunction'
  BY <1>1, <1>4 DEF TableIsFunction
<1>6. ASSUME NEW t, NEW P, GiveUp(t, P) PROVE TableIsFunction'
  BY <1>6 DEF GiveUp, Unpinned, TableIsFunction
<1>7. ASSUME NEW t \in Threads, ReclaimNext(t) PROVE TableIsFunction'
  <2>1. \A need, keep : Pressure(t, need, keep) => page' = page
    BY DEF Pressure, memory
  <2>2. \A v, n : SetWatermark(t, v, n) \/ FreeMemory(t, v, n) => page' = page
    BY DEF SetWatermark, FreeMemory
  <2>3. Snapshot(t) \/ Synchronized(t) => page' = page
    BY DEF Snapshot, Synchronized, memory
  <2>4. ASSUME Freeze(t) PROVE TableIsFunction'
    BY <2>4 DEF Freeze, TableIsFunction
  <2>5. ASSUME SynchronizeFails(t) PROVE TableIsFunction'
    BY <2>5 DEF SynchronizeFails, TableIsFunction
  <2>6. ASSUME Commit(t) PROVE TableIsFunction'
    BY <2>6 DEF Commit, TableIsFunction
  <2> QED
    BY <1>2, <1>7, <2>1, <2>2, <2>3, <2>4, <2>5, <2>6 DEF ReclaimNext
<1>8. ASSUME NEW t \in Threads, FaultNext(t) PROVE TableIsFunction'
  <2>1. \A v, first, last, deficit : Fault(t, v, first, last, deficit) => page' = page
    BY DEF Fault, memory
  <2>2. \A fits : EnterFault(t, fits) => page' = page
    BY DEF EnterFault
  <2>3. FaultMiss(t) => page' = page
    BY DEF FaultMiss, memory
  <2>4. FaultHit(t) => \E q, r : page' = [page EXCEPT ![q] = r]
    BY DEF FaultHit
  <2>5. FaultUnknown(t) => GiveUp(t, page)
    BY DEF FaultUnknown
  <2>6. FaultRestore(t) => (\E P : GiveUp(t, P)) \/ \E q, r : page' = [page EXCEPT ![q] = r]
    BY DEF FaultRestore
  <2>7. \A deficit : FaultMap(t, deficit) =>
           page' = page \/ (\E P : GiveUp(t, P)) \/ \E q, r : page' = [page EXCEPT ![q] = r]
    BY DEF FaultMap
  <2>8. ASSUME ReturnFault(t) PROVE TableIsFunction'
    BY <2>8 DEF ReturnFault, TableIsFunction
  <2> QED
    BY <1>2, <1>4, <1>6, <1>8, <2>1, <2>2, <2>3, <2>4, <2>5, <2>6, <2>7, <2>8 DEF FaultNext
<1>9. ASSUME NEW t \in Threads, ConsumerNext(t) PROVE TableIsFunction'
  <2>1. \A own, q : Submit(t, own, q) => page' = page
    BY DEF Submit, memory
  <2>2. \A pc, q : TakeToken(t, pc, q) => page' = page
    BY DEF TakeToken, memory
  <2>3. ASSUME Register(t) PROVE TableIsFunction'
    BY <2>3 DEF Register, TableIsFunction
  <2>4. ASSUME Unpin(t) PROVE TableIsFunction'
    BY <2>4 DEF Unpin, TableIsFunction
  <2>5. ASSUME Release(t) PROVE TableIsFunction'
    BY <2>5 DEF Release, TableIsFunction
  <2>6. ASSUME NEW R, Acquire(t, R) PROVE TableIsFunction'
    BY <2>6 DEF Acquire, TableIsFunction
  <2>7. \/ \E own, q : Submit(t, own, q)
        \/ \E pc, q : TakeToken(t, pc, q)
        \/ Register(t) \/ Unpin(t) \/ Release(t)
        \/ \E R : Acquire(t, R)
    BY <1>9, Zenon DEF ConsumerNext
  <2> QED
    BY <1>2, <2>1, <2>2, <2>3, <2>4, <2>5, <2>6, <2>7
<1>10. ASSUME NEW t \in Threads, FreeNext(t) PROVE TableIsFunction'
  <2>1. \A v : Free(t, v) => page' = page
    BY DEF Free
  <2>2. CheckFree(t) \/ BeginTeardown(t) => page' = page
    BY DEF CheckFree, BeginTeardown, memory
  <2>3. TeardownPage(t) => page' = page \/ \E q, r : page' = [page EXCEPT ![q] = r]
    BY DEF TeardownPage
  <2>4. \A refused : EndTeardown(t, refused) => page' = page
    BY DEF EndTeardown
  <2> QED
    BY <1>2, <1>4, <1>10, <2>1, <2>2, <2>3, <2>4 DEF FreeNext
<1>11. ASSUME \/ \E v \in Vbars : Allocate(v) \/ Prioritize(v) \/ Deprioritize(v)
              \/ \E v \in Vbars : CopyAcquire(v) \/ CopyRelease(v)
              \/ Quiet \/ (UNCHANGED vars) \/ \E o \in inflight : Finish(o)
       PROVE  TableIsFunction'
  BY <1>2, <1>11 DEF Allocate, Prioritize, Deprioritize, CopyAcquire, CopyRelease, Quiet, vars, memory, Finish
<1>12. ASSUME LimitNext PROVE TableIsFunction'
  <2>1. \E V, n : SetLimit(V, n)
    BY <1>12, Zenon DEF LimitNext
  <2> QED
    BY <1>2, <2>1 DEF SetLimit
<1> QED
  BY <1>7, <1>8, <1>9, <1>10, <1>11, <1>12, StepKinds

\* What TypeOK says, with what it takes to keep it.
TypesInv == /\ Usage /\ ContentInv /\ FreesOK /\ OrderOK /\ RangesTyped /\ TableIsFunction
            /\ vbar \in [Vbars -> VbarRecords]
            /\ \A t \in Threads : NeedOK(call[t])

\* At first nothing is listed, needed or leased.
LEMMA TypesInit == VbarAssumption /\ Init => TypesInv
<1> SUFFICES ASSUME VbarAssumption, Init PROVE TypesInv
  OBVIOUS
<1>1. Usage /\ ContentInv
  BY UsageInit, ContentInit
<1>2. FreesOK
  BY DEF Init, FreesOK, NoCall
<1>3. OrderOK
  <2>1. order = <<>> /\ \A v \in Vbars : vbar[v].state = "none"
    BY DEF Init
  <2> QED
    BY <2>1 DEF OrderOK, Once, Has, InList
<1>4. RangesTyped
  <2>1. /\ \A t \in Threads : lease[t] = NoRange /\ hold[t] = NoRange
        /\ inflight = {} /\ async \in Modes
    BY DEF Init
  <2> QED
    BY <2>1, LeaseFields DEF RangesTyped
<1>5. TableIsFunction
  BY DEF Init, TableIsFunction
<1>6. vbar \in [Vbars -> VbarRecords]
  <2>1. NPages \in 0..NPages /\ 0 \in 0..NPages /\ 0 \in 0..MaxCopies
    BY DEF VbarAssumption
  <2> QED
    BY <2>1 DEF Init, VbarRecords
<1>7. \A t \in Threads : NeedOK(call[t])
  BY NoCallNeeds DEF Init
<1> QED
  BY <1>1, <1>2, <1>3, <1>4, <1>5, <1>6, <1>7 DEF TypesInv

\* Every step keeps it.
LEMMA TypesStep == VbarAssumption /\ VbarInv /\ TypesInv /\ [Next]_vars => TypesInv'
<1> SUFFICES ASSUME VbarAssumption, VbarInv, TypesInv, [Next]_vars PROVE TypesInv'
  OBVIOUS
<1>1. /\ Usage /\ ContentInv /\ FreesOK /\ OrderOK /\ RangesTyped /\ TableIsFunction /\ BoundsOK
      /\ vbar \in [Vbars -> VbarRecords] /\ \A t \in Threads : NeedOK(call[t])
      /\ \A p \in Pages : Honest(page[p])
  BY DEF TypesInv, ContentInv
<1>2. Usage' /\ ContentInv'
  BY <1>1, UsageKept, ContentStep
<1>3. FreesOK' /\ OrderOK' /\ RangesTyped' /\ TableIsFunction'
  BY <1>1, FreesStay, OrderStays, RangesStayTyped, TableStays
<1>4. vbar' \in [Vbars -> VbarRecords]
  BY <1>1, <1>2, VbarsTyped
<1>5. ASSUME NEW t \in Threads PROVE NeedOK(call'[t])
  BY <1>1, NeedStays
<1>6. \A t \in Threads : NeedOK(call[t])'
  BY <1>5 DEF NeedOK
<1> QED
  BY <1>2, <1>3, <1>4, <1>6 DEF TypesInv

\* The state has the types its declarations give it.
LEMMA TypesHold == VbarAssumption /\ VbarInv /\ TypesInv => TypeOK
<1> SUFFICES ASSUME VbarAssumption, VbarInv, TypesInv PROVE TypeOK
  OBVIOUS
<1>1. /\ Usage /\ ContentInv /\ OrderOK /\ RangesTyped /\ TableIsFunction /\ BoundsOK
      /\ vbar \in [Vbars -> VbarRecords] /\ \A t \in Threads : NeedOK(call[t])
  BY DEF TypesInv, ContentInv
<1>2. page \in [Pages -> PageRecords]
  <2>1. \A p \in Pages : page[p] \in PageRecords
    BY <1>1 DEF ContentInv, Honest
  <2> QED
    BY <1>1, <2>1 DEF TableIsFunction
<1>3. \A v \in Vbars : Cardinality({i \in 1..Len(order) : order[i] = v}) = IF InList(v) THEN 1 ELSE 0
  <2> TAKE v \in Vbars
  <2>1. Cardinality({i \in 1..Len(order) : order[i] = v}) = IF Has(order, v) THEN 1 ELSE 0
    BY <1>1, OnceCounts DEF OrderOK
  <2> QED
    BY <1>1, <2>1 DEF OrderOK
<1>4. total \in Nat
  BY <1>1, UseTypes DEF Usage
<1>5. lock \in Threads \cup {NoThread}
  BY DEF VbarInv, TypesOK
<1>6. /\ submitted \in [Queues -> 0..MaxOps]
      /\ calls \in 0..MaxCalls /\ faults \in 0..MaxFaults
  BY <1>1 DEF BoundsOK
<1>7. /\ async \in Modes /\ inflight \subseteq Operator
      /\ \A t \in Threads : /\ call[t].need \in Nat
                            /\ \A k \in call[t].candidates : k \in Candidate
                            /\ lease[t] \in LeaseRecord /\ hold[t] \in LeaseRecord
  BY <1>1 DEF RangesTyped, NeedOK
<1> QED
  BY <1>1, <1>2, <1>3, <1>4, <1>5, <1>6, <1>7 DEF TypeOK, PageRecords, VbarRecords

\* The state keeps its types, whatever the driver refuses: above all, the priority
\* list has each VBAR that exists exactly once, and no counter goes below 0.
THEOREM StateTyped == Spec => []TypeOK
<1>1. Init => TypesInv
  BY TypesInit, VbarAssumption
<1>2. VbarInv /\ TypesInv /\ [Next]_vars => TypesInv'
  BY TypesStep, VbarAssumption
<1>3. VbarInv /\ TypesInv => TypeOK
  BY TypesHold, VbarAssumption
<1> QED
  BY <1>1, <1>2, <1>3, VbarInvariant, PTL DEF Spec
=============================================================================
