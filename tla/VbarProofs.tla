----------------------------- MODULE VbarProofs -----------------------------
(***************************************************************************)
(* Proofs about the page table, for every number of VBARs, pages, threads  *)
(* and queues: the pins of a page are those of the leases and faults that  *)
(* have it, a frozen page belongs to exactly one reclaim, and no mapping   *)
(* goes away under a copy.                                                 *)
(*                                                                         *)
(* VbarInv is inductive.  It says where each call may be and what it has   *)
(* then (CallsOK), which pages a fault on its way has pinned (FaultsOK,    *)
(* PinsOK), and which candidates are still current (FrozenOK).  A part of  *)
(* it is proved of one kind of step at a time; the sections follow the     *)
(* parts.                                                                  *)
(***************************************************************************)
EXTENDS VbarPages, FiniteSetTheorems, TLAPS

-----------------------------------------------------------------------------
(* Types.                                                                    *)

PageFields == {"handle", "mapped", "pin", "serial", "evicting", "gen", "external",
               "capture", "tokens", "unknown", "content", "known"}
VbarFields == {"state", "watermark", "limit", "resident", "copies"}
CallFields == {"at", "pc", "vbar", "first", "last", "tries", "checked", "token", "kind",
               "need", "keep", "frontier", "candidates", "waits", "then"}
RangeFields == {"vbar", "first", "last", "kind", "queues"}

\* A page of the table, as far as the proofs look into it.
IsPage(r) ==
    /\ DOMAIN r = PageFields
    /\ r.handle \in BOOLEAN /\ r.mapped \in {"unmapped", "mapped", "unknown"}
    /\ r.mapped # "unmapped" => r.handle
    /\ r.pin \in Nat /\ r.external \in Nat /\ r.capture \in Nat
    /\ r.evicting \in BOOLEAN /\ r.gen \in Nat
    /\ r.tokens \in [Queues -> Nat] /\ r.unknown \in BOOLEAN

IsRange(R) ==
    /\ DOMAIN R = RangeFields
    /\ RangePages(R) \subseteq Pages
    /\ R.queues \subseteq Queues

TokenRecords == [queue : Queues \cup {NoQueue}, upto : Nat]
Operators == [queue : Queues, n : Nat, pages : SUBSET Pages]

PagesOK == DOMAIN page = Pages /\ \A p \in Pages : IsPage(page[p])

VbarsOK == DOMAIN vbar = Vbars /\ \A v \in Vbars : DOMAIN vbar[v] = VbarFields

\* Ranges lie in the table, and holds are of the kinds in use.
RangesOK ==
    /\ DOMAIN lease = Threads /\ DOMAIN hold = Threads
    /\ \A t \in Threads :
          /\ IsRange(lease[t]) /\ IsRange(hold[t])
          /\ RangePages(hold[t]) # {} => hold[t].kind \in HoldKinds

\* The operators in flight are among those submitted.
DeviceOK ==
    /\ async \in BOOLEAN
    /\ submitted \in [Queues -> Nat]
    /\ inflight \subseteq Operators
    /\ \A o \in inflight : o.n <= submitted[o.queue]

TypesOK ==
    /\ PagesOK /\ VbarsOK /\ RangesOK /\ DeviceOK
    /\ lock \in Threads \cup {NoThread}
    /\ DOMAIN call = Threads

-----------------------------------------------------------------------------
(* Where a call may be.                                                      *)

Reclaims == {"snapshot", "freeze", "sync", "commit"}
Closing  == {"drain", "check", "redrain", "recheck", "teardown"}
Consumes == {"register", "unpin", "release"}

\* A fault that has entered the lock, at a page or reclaiming on its way.
Faulting(c) == c.pc = "page" \/ c.then = "page"
Enters(c)   == c.pc = "enter" \/ c.then = "enter"

IsCall(c) == DOMAIN c = CallFields

\* What is known of a call, given whether its thread has the lock.
CallOK(c, mine) ==
    /\ IsCall(c)
    /\ \A k \in c.candidates : k.page \in Pages /\ k.gen \in Nat
    /\ c.tries \in Nat
    /\ c.candidates # {} => c.pc \in {"sync", "commit"}
    /\ c.pc \in {"idle", "enter", "page"} \cup Consumes \cup Reclaims \cup Closing
    /\ c.then \in {"idle", "enter", "page"}
    /\ c.then # "idle" => c.kind = "retired" /\ c.pc \in Reclaims
    /\ c.kind \in {"none", "retired", "reference", "model", "free"}
    /\ c.kind = "none" <=> c.pc \notin Reclaims \cup Closing
    /\ c.kind = "free" <=> c.pc \in Closing
    /\ c.kind = "retired" => async /\ c.pc # "sync"
    /\ c.kind # "retired" => c.pc # "snapshot"
    /\ mine <=> Faulting(c) \/ c.pc = "teardown"
    /\ Faulting(c) \/ Enters(c) =>
          /\ c.vbar \in Vbars
          /\ c.first \in 1..NPages /\ c.last \in 1..NPages /\ c.first <= c.last
    /\ Faulting(c) => c.at \in Nat /\ c.first <= c.at /\ c.at <= c.last + 1
    /\ c.pc = "teardown" => c.at \in Nat \ {0}
    /\ c.pc \in Closing => c.vbar \in Vbars
    /\ c.pc \in Consumes => c.token \in TokenRecords

CallsOK ==
    \A t \in Threads :
       /\ CallOK(call[t], lock = t)
       /\ Faulting(call[t]) \/ Enters(call[t]) => lease[t] = NoRange

\* A thread that is in no call knows nothing and has no lock.
LEMMA NoCallOK == CallOK(NoCall, FALSE)
BY DEF CallOK, NoCall, IsCall, CallFields, Reclaims, Closing, Consumes, Faulting, Enters

\* The call a reclaim returns to.
Resumed(c, then) == [c EXCEPT !.pc = then]

\* A reclaim starts from a call that is not one, or goes straight to its end.
LEMMA ReclaimOK ==
    ASSUME NEW c, NEW mine \in BOOLEAN, NEW need, NEW keep, NEW then \in {"enter", "page"},
           CallOK(Resumed(c, then), mine), async \in BOOLEAN
    PROVE  /\ CallOK(Reclaim(c, need, keep, then), mine)
           /\ Reclaim(c, need, keep, then).pc \in {"snapshot", then}
           /\ \A f \in {"at", "vbar", "first", "last", "tries", "candidates"} :
                 Reclaim(c, need, keep, then)[f] = c[f]
BY DEF CallOK, IsCall, CallFields, Reclaims, Closing, Consumes, Faulting, Enters, Reclaim, Resumed

\* A reclaim that stops returns where it was called from, or starts again for a
\* fault.
LEMMA StoppedOK ==
    ASSUME NEW c, NEW mine \in BOOLEAN, NEW left, CallOK(c, mine), async \in BOOLEAN,
           c.pc \in {"freeze", "sync", "commit", "drain", "redrain"}
    PROVE  /\ CallOK(Stopped(c, left), mine)
           /\ Stopped(c, left).candidates = {}
           /\ Stopped(c, left).pc \in {"idle", "enter", "page", "snapshot"}
           /\ \/ c.then = "idle" /\ Stopped(c, left) = NoCall /\ ~mine
              \/ /\ c.then # "idle"
                 /\ \A f \in {"at", "vbar", "first", "last", "tries"} :
                       Stopped(c, left)[f] = c[f]
<1> DEFINE back == [c EXCEPT !.pc = c.then, !.kind = "none", !.need = 0,
                             !.keep = NoVbar, !.frontier = NoTokens,
                             !.candidates = {}, !.waits = {}, !.then = "idle"]
<1>1. CASE c.then = "idle"
  <2>1. Stopped(c, left) = NoCall
    BY <1>1 DEF Stopped
  <2>2. ~mine
    BY <1>1 DEF CallOK, Faulting, Closing
  <2>3. mine = FALSE
    BY <2>2
  <2>4. NoCall.candidates = {} /\ NoCall.pc = "idle"
    BY DEF NoCall
  <2> QED
    BY <1>1, <2>1, <2>3, <2>4, NoCallOK
<1>2. CASE c.then # "idle"
  <2>1. /\ CallOK(back, mine) /\ back.pc = c.then /\ back.candidates = {}
        /\ \A f \in {"at", "vbar", "first", "last", "tries"} : back[f] = c[f]
    BY <1>2 DEF CallOK, IsCall, CallFields, Reclaims, Closing, Consumes, Faulting, Enters
  <2>2. CASE c.keep = NoVbar
    BY <1>2, <2>1, <2>2 DEF Stopped, CallOK
  <2>3. CASE c.keep # NoVbar
    <3>1. Stopped(c, left) = Reclaim(back, left, NoVbar, c.then)
      BY <1>2, <2>3 DEF Stopped
    <3>5. c.then \in {"enter", "page"}
      BY <1>2 DEF CallOK
    <3>2. c.then \in {"enter", "page"} /\ CallOK(Resumed(back, c.then), mine)
      <4>1. Resumed(back, c.then) = back
        BY <2>1 DEF CallOK, IsCall, CallFields, Resumed
      <4> QED
        BY <1>2, <2>1, <3>5, <4>1
    <3> HIDE DEF back
    <3>3. /\ CallOK(Reclaim(back, left, NoVbar, c.then), mine)
          /\ Reclaim(back, left, NoVbar, c.then).pc \in {"snapshot", c.then}
          /\ \A f \in {"at", "vbar", "first", "last", "tries", "candidates"} :
                Reclaim(back, left, NoVbar, c.then)[f] = back[f]
      BY ONLY <3>2, ReclaimOK, async \in BOOLEAN, mine \in BOOLEAN
    <3>4. Reclaim(back, left, NoVbar, c.then).candidates = {}
      BY <2>1, <3>3
    <3> QED
      BY <1>2, <2>1, <3>1, <3>2, <3>3, <3>4
  <2> QED
    BY <2>2, <2>3
<1> QED
  BY <1>1, <1>2

\* No other thread's call changes.
Only(t) == DOMAIN call' = Threads /\ \A u \in Threads \ {t} : call'[u] = call[u]

\* A thread that leaves its call, or goes on in it, keeps the calls of others as
\* they were.
LEMMA CallsStep ==
    ASSUME CallsOK, NEW t \in Threads, Only(t), async' = async,
           {lock, lock'} \subseteq {NoThread, t} \/ lock' = lock,
           NoThread \notin Threads,
           CallOK(call[t], lock = t)',
           \A u \in Threads \ {t} : lease'[u] = lease[u],
           (Faulting(call[t]) \/ Enters(call[t]))' => lease'[t] = NoRange
    PROVE  CallsOK'
<1>1. ASSUME NEW u \in Threads
      PROVE  CallOK(call[u], lock = u)' /\ (Faulting(call[u]) \/ Enters(call[u]) => lease[u] = NoRange)'
  <2>1. CASE u = t
    BY <2>1
  <2>2. CASE u # t
    <3>1. (lock' = u) = (lock = u)
      BY <2>2
    <3>2. call'[u] = call[u] /\ lease'[u] = lease[u]
      BY <2>2 DEF Only
    <3>3. CallOK(call[u], lock = u)
      BY DEF CallsOK
    <3>4. CallOK(call[u], lock = u)'
      BY <3>1, <3>2, <3>3 DEF CallOK
    <3> QED
      BY <3>2, <3>4 DEF CallsOK, Faulting, Enters
  <2> QED
    BY <2>1, <2>2
<1> QED
  BY <1>1 DEF CallsOK

-----------------------------------------------------------------------------
(* What the operations on a page do to it.                                   *)

SameOwners(r, s) == s.pin = r.pin /\ s.external = r.external /\ s.capture = r.capture

\* The freeze of the page is not another one; a page that was not frozen is not
\* frozen now.
Thaws(r, s) == /\ s.gen >= r.gen
               /\ s.evicting => r.evicting /\ s.gen = r.gen

\* What work on the page relies on stays: its mapping, and what is known of its
\* consumers.
Keeps(r, s) == /\ IsMapped(r) <=> IsMapped(s)
               /\ r.unknown => s.unknown
               /\ \A q \in Queues : s.tokens[q] >= r.tokens[q]

\* vbar_page_cancel_eviction changes only the freeze of a page.
LEMMA CanceledPage ==
    ASSUME NEW r, IsPage(r)
    PROVE  /\ IsPage(Canceled(r))
           /\ SameOwners(r, Canceled(r)) /\ Thaws(r, Canceled(r)) /\ Keeps(r, Canceled(r))
           /\ ~Canceled(r).evicting
           /\ Canceled(r).handle = r.handle /\ Canceled(r).mapped = r.mapped
           /\ Canceled(r).unknown = r.unknown /\ Canceled(r).tokens = r.tokens
           /\ ~r.evicting => Canceled(r) = r
           /\ Canceled(r).gen = IF r.evicting THEN r.gen + 1 ELSE r.gen
<1>1. CASE r.evicting
  <2>1. IsPage(Canceled(r)) /\ ~Canceled(r).evicting /\ Canceled(r).gen = r.gen + 1
    BY <1>1 DEF IsPage, PageFields, Canceled
  <2>2. /\ SameOwners(r, Canceled(r))
        /\ Canceled(r).handle = r.handle /\ Canceled(r).mapped = r.mapped
        /\ Canceled(r).unknown = r.unknown /\ Canceled(r).tokens = r.tokens
    BY <1>1 DEF IsPage, PageFields, Canceled, SameOwners
  <2> QED
    BY <1>1, <2>1, <2>2 DEF IsPage, Thaws, Keeps, IsMapped
<1>2. CASE ~r.evicting
  BY <1>2 DEF IsPage, Canceled, SameOwners, Thaws, Keeps, IsMapped
<1> QED
  BY <1>1, <1>2

\* mod1 leaves a page that nobody has frozen, with the owners it had, whatever
\* the driver refuses.
LEMMA ReleasedPage ==
    ASSUME NEW r, IsPage(r), IsMapped(r), NEW o \in Released(r)
    PROVE  /\ IsPage(o.page)
           /\ SameOwners(r, o.page) /\ Thaws(r, o.page)
           /\ ~o.page.evicting
<1> DEFINE kept == [r EXCEPT !.evicting = FALSE]
           gone == [kept EXCEPT !.handle = FALSE, !.mapped = "unmapped",
                                !.tokens = NoTokens, !.unknown = FALSE, !.content = FALSE]
           bare == [kept EXCEPT !.mapped = "unmapped", !.unknown = TRUE]
<1>1. /\ IsPage(kept) /\ SameOwners(r, kept) /\ Thaws(r, kept) /\ ~kept.evicting
      /\ kept.handle
  <2>1. IsPage(kept) /\ ~kept.evicting /\ kept.handle
    BY DEF IsPage, PageFields, IsMapped
  <2>2. SameOwners(r, kept) /\ Thaws(r, kept)
    BY DEF IsPage, PageFields, SameOwners, Thaws
  <2> QED
    BY <2>1, <2>2
<1>2. \/ \E n \in {0, 1} : o = Outcome(kept, 0, 0, n, "kept")
      \/ o = Outcome(gone, -1, -1, 0, "freed")
      \/ o = Outcome(bare, 0, -1, 2, "kept")
      \/ o = Outcome(Limbo(kept), 0, -1, 3, "kept")
  BY DEF Released
<1>3. o.page \in {kept, gone, bare, Limbo(kept)}
  <2> HIDE DEF kept, gone, bare
  <2> QED
    BY <1>2 DEF Outcome
<1>4. NoTokens \in [Queues -> Nat]
  BY DEF NoTokens
<1> HIDE DEF kept
<1>5. /\ IsPage(gone) /\ IsPage(bare) /\ IsPage(Limbo(kept))
      /\ ~gone.evicting /\ ~bare.evicting /\ ~Limbo(kept).evicting
  <2>1. IsPage(gone) /\ ~gone.evicting
    BY <1>1, <1>4 DEF IsPage, PageFields
  <2>2. IsPage(bare) /\ ~bare.evicting
    BY <1>1 DEF IsPage, PageFields
  <2>3. IsPage(Limbo(kept)) /\ ~Limbo(kept).evicting
    BY <1>1 DEF IsPage, PageFields, Limbo
  <2> QED
    BY <2>1, <2>2, <2>3
<1>6. /\ SameOwners(r, gone) /\ Thaws(r, gone)
      /\ SameOwners(r, bare) /\ Thaws(r, bare)
      /\ SameOwners(r, Limbo(kept)) /\ Thaws(r, Limbo(kept))
  <2>1. SameOwners(r, gone) /\ Thaws(r, gone)
    BY <1>1 DEF IsPage, PageFields, SameOwners, Thaws
  <2>2. SameOwners(r, bare) /\ Thaws(r, bare)
    BY <1>1 DEF IsPage, PageFields, SameOwners, Thaws
  <2>3. SameOwners(r, Limbo(kept)) /\ Thaws(r, Limbo(kept))
    BY <1>1 DEF IsPage, PageFields, SameOwners, Thaws, Limbo
  <2> QED
    BY <2>1, <2>2, <2>3
<1> HIDE DEF gone, bare
<1> QED
  BY <1>1, <1>3, <1>5, <1>6

\* vbar_restore_page_mapping maps the page when it says so, and only then.
LEMMA RestoredPage ==
    ASSUME NEW r, IsPage(r), r.handle, NEW counted, NEW o \in Restored(r, counted)
    PROVE  /\ IsPage(o.page)
           /\ SameOwners(r, o.page) /\ Thaws(r, o.page)
           /\ o.result = "ok" => IsMapped(o.page)
           /\ o.result # "ok" /\ ~IsMapped(r) => ~IsMapped(o.page)
<1> DEFINE with == [r EXCEPT !.mapped = "mapped"]
           bare == [r EXCEPT !.mapped = "unmapped"]
<1>1. \/ o = Outcome(with, 0, counted, 0, "ok")
      \/ o = Outcome(bare, 0, 0, 1, "error")
      \/ o = Outcome(Limbo(r), 0, 0, 2, "error")
  BY DEF Restored
<1>2. \/ o.page = with /\ o.result = "ok"
      \/ o.page \in {bare, Limbo(r)} /\ o.result # "ok"
  <2> HIDE DEF with, bare
  <2> QED
    BY <1>1 DEF Outcome
<1>3. /\ IsPage(with) /\ IsPage(bare) /\ IsPage(Limbo(r)) /\ IsMapped(with)
      /\ ~IsMapped(bare) /\ ~IsMapped(Limbo(r))
  <2>1. IsPage(with) /\ IsMapped(with)
    BY DEF IsPage, PageFields, IsMapped
  <2>2. IsPage(bare) /\ ~IsMapped(bare)
    BY DEF IsPage, PageFields, IsMapped
  <2>3. IsPage(Limbo(r)) /\ ~IsMapped(Limbo(r))
    BY DEF IsPage, PageFields, Limbo, IsMapped
  <2> QED
    BY ONLY <2>1, <2>2, <2>3
<1>4. \A s \in {with, bare, Limbo(r)} : SameOwners(r, s) /\ Thaws(r, s)
  <2>1. SameOwners(r, with) /\ Thaws(r, with)
    BY DEF IsPage, PageFields, SameOwners, Thaws
  <2>2. SameOwners(r, bare) /\ Thaws(r, bare)
    BY DEF IsPage, PageFields, SameOwners, Thaws
  <2>3. SameOwners(r, Limbo(r)) /\ Thaws(r, Limbo(r))
    BY DEF IsPage, PageFields, SameOwners, Thaws, Limbo
  <2> QED
    BY ONLY <2>1, <2>2, <2>3
<1> HIDE DEF with, bare
<1> QED
  BY <1>2, <1>3, <1>4

\* vbar_map_new_page maps an absent page when it says so, and only then.
LEMMA MappedNewPage ==
    ASSUME NEW r, IsPage(r), NEW o \in MappedNew(r)
    PROVE  /\ IsPage(o.page)
           /\ SameOwners(r, o.page) /\ Thaws(r, o.page)
           /\ o.result = "ok" => IsMapped(o.page)
           /\ o.result # "ok" /\ ~IsMapped(r) => ~IsMapped(o.page)
<1>1. CASE r.handle /\ r.mapped = "unknown"
  <2>1. o = Outcome(r, 0, 0, 0, "error")
    BY <1>1 DEF MappedNew
  <2>2. o.page = r /\ o.result = "error"
    BY <2>1 DEF Outcome
  <2>3. SameOwners(r, r) /\ Thaws(r, r) /\ ~IsMapped(r)
    BY <1>1 DEF IsPage, SameOwners, Thaws, IsMapped
  <2> QED
    BY <2>2, <2>3
<1>2. CASE r.handle /\ r.mapped # "unknown"
  <2>1. o \in Restored(r, 0)
    BY <1>2 DEF MappedNew
  <2> QED
    BY <1>2, <2>1, RestoredPage
<1>3. CASE ~r.handle
  <2> DEFINE fresh == [r EXCEPT !.handle = TRUE, !.content = FALSE]
             with  == [fresh EXCEPT !.mapped = "mapped"]
  <2>1. /\ IsPage(fresh) /\ SameOwners(r, fresh) /\ Thaws(r, fresh) /\ fresh.handle
        /\ ~IsMapped(fresh)
    <3>1. IsPage(fresh) /\ fresh.handle /\ ~IsMapped(fresh)
      BY <1>3 DEF IsPage, PageFields, IsMapped
    <3>2. SameOwners(r, fresh) /\ Thaws(r, fresh)
      BY DEF IsPage, PageFields, SameOwners, Thaws
    <3> QED
      BY <3>1, <3>2
  <2>2. SameOwners(r, r) /\ Thaws(r, r)
    BY DEF IsPage, SameOwners, Thaws
  <2>3. \/ o = Outcome(with, 1, 0, 0, "ok")
        \/ o = Outcome(r, 0, 0, 0, "oom")
        \/ \E why \in {"oom", "error"} : \/ o = Outcome(r, 0, 0, 1, why)
                                         \/ o = Outcome(fresh, 1, 0, 2, why)
                                         \/ o = Outcome(Limbo(fresh), 1, 0, 2, why)
    BY <1>3 DEF MappedNew
  <2>4. \/ o.page = with /\ o.result = "ok"
        \/ o.page \in {r, fresh, Limbo(fresh)} /\ o.result # "ok"
    <3> HIDE DEF with, fresh
    <3> QED
      BY <2>3 DEF Outcome
  <2> HIDE DEF fresh
  <2>5. IsPage(with) /\ SameOwners(r, with) /\ Thaws(r, with) /\ IsMapped(with)
    BY <2>1 DEF IsPage, PageFields, SameOwners, Thaws, IsMapped
  <2>6. \A s \in {r, fresh, Limbo(fresh)} :
           IsPage(s) /\ SameOwners(r, s) /\ Thaws(r, s) /\ ~IsMapped(s)
    <3> DEFINE s == Limbo(fresh)
    <3>1. IsPage(s) /\ ~IsMapped(s)
      BY <2>1 DEF IsPage, PageFields, Limbo, IsMapped
    <3>2. SameOwners(r, s) /\ Thaws(r, s)
      BY <2>1 DEF IsPage, PageFields, SameOwners, Thaws, Limbo
    <3>3. ~IsMapped(r)
      BY <1>3 DEF IsMapped
    <3> HIDE DEF s
    <3> QED
      BY <2>1, <2>2, <3>1, <3>2, <3>3 DEF s
  <2> HIDE DEF with
  <2> QED
    BY <2>4, <2>5, <2>6
<1> QED
  BY <1>1, <1>2, <1>3

\* A consumer that gives up the page leaves the page to its owners.
LEMMA DependsPage ==
    ASSUME NEW r, IsPage(r), NEW token \in TokenRecords, async \in BOOLEAN
    PROVE  /\ IsPage(Depends(r, token))
           /\ SameOwners(r, Depends(r, token)) /\ Thaws(r, Depends(r, token))
           /\ Keeps(r, Depends(r, token))
           /\ ~Depends(r, token).evicting
<1> DEFINE s == Canceled(r)
<1>1. /\ IsPage(s) /\ SameOwners(r, s) /\ Thaws(r, s) /\ Keeps(r, s) /\ ~s.evicting
  BY CanceledPage
<1> HIDE DEF s
<1>2. CASE token.queue = NoQueue
  <2>1. Depends(r, token) = s \/ Depends(r, token) = [s EXCEPT !.unknown = TRUE]
    BY <1>2 DEF Depends, s
  <2> QED
    BY <1>1, <2>1 DEF IsPage, PageFields, SameOwners, Thaws, Keeps, IsMapped
<1>3. CASE token.queue # NoQueue
  <2>1. \/ Depends(r, token) = s
        \/ /\ token.queue \in Queues /\ token.upto > s.tokens[token.queue]
           /\ Depends(r, token) = [s EXCEPT !.tokens[token.queue] = token.upto]
    BY <1>3 DEF Depends, Recorded, TokenRecords, s
  <2>2. CASE Depends(r, token) = s
    BY <1>1, <2>2
  <2>3. CASE /\ token.queue \in Queues /\ token.upto > s.tokens[token.queue]
             /\ Depends(r, token) = [s EXCEPT !.tokens[token.queue] = token.upto]
    <3> DEFINE T == [s.tokens EXCEPT ![token.queue] = token.upto]
    <3>1. T \in [Queues -> Nat] /\ \A q \in Queues : T[q] >= s.tokens[q]
      BY <1>1, <2>3 DEF IsPage, TokenRecords
    <3>2. Depends(r, token) = [s EXCEPT !.tokens = T]
      BY <1>1, <2>3 DEF IsPage, PageFields
    <3> HIDE DEF T
    <3> QED
      BY <1>1, <3>1, <3>2 DEF IsPage, PageFields, SameOwners, Thaws, Keeps, IsMapped
  <2> QED
    BY <2>1, <2>2, <2>3
<1> QED
  BY <1>2, <1>3

WithPins(r, n) == [r EXCEPT !.pin = n]

\* A page gets or loses pins, or holds, and nothing else.
LEMMA CountedPage ==
    ASSUME NEW r, IsPage(r), NEW n \in Nat, NEW kind,
           NEW s \in {WithPins(r, n), WithHolds(r, kind, n)}
    PROVE  IsPage(s) /\ Thaws(r, s) /\ Keeps(r, s) /\ s.evicting = r.evicting
<1>1. CASE s = WithPins(r, n)
  BY <1>1 DEF IsPage, PageFields, Thaws, Keeps, IsMapped, WithPins
<1>2. CASE s = WithHolds(r, kind, n) /\ kind = "external"
  BY <1>2 DEF IsPage, PageFields, Thaws, Keeps, IsMapped, WithHolds
<1>3. CASE s = WithHolds(r, kind, n) /\ kind # "external"
  BY <1>3 DEF IsPage, PageFields, Thaws, Keeps, IsMapped, WithHolds
<1> QED
  BY <1>1, <1>2, <1>3

\* Taking or leaving a pin or a hold sets that count and no other.
LEMMA PageCounts ==
    ASSUME NEW r, IsPage(r), NEW n, NEW kind
    PROVE  /\ WithPins(r, n).pin = n
           /\ WithPins(r, n).external = r.external /\ WithPins(r, n).capture = r.capture
           /\ WithHolds(r, kind, n).pin = r.pin
           /\ WithHolds(r, kind, n).external = IF kind = "external" THEN n ELSE r.external
           /\ WithHolds(r, kind, n).capture = IF kind = "external" THEN r.capture ELSE n
<1>1. /\ WithPins(r, n).pin = n
      /\ WithPins(r, n).external = r.external /\ WithPins(r, n).capture = r.capture
  BY DEF IsPage, PageFields, WithPins
<1>2. CASE kind = "external"
  BY <1>1, <1>2 DEF IsPage, PageFields, WithHolds
<1>3. CASE kind # "external"
  BY <1>1, <1>3 DEF IsPage, PageFields, WithHolds
<1> QED
  BY <1>2, <1>3

\* The pin of a fault, on a page that was mapped or has just been.
LEMMA PinnedPage ==
    ASSUME NEW r, IsPage(r)
    PROVE  /\ IsPage(Pinned(r)) /\ Thaws(r, Pinned(r)) /\ Keeps(r, Pinned(r))
           /\ ~Pinned(r).evicting
           /\ Pinned(r).pin = r.pin + 1
           /\ Pinned(r).external = r.external /\ Pinned(r).capture = r.capture
<1> DEFINE s == Canceled(r)
           x == Pinned(r)
<1>1. IsPage(s) /\ SameOwners(r, s) /\ Thaws(r, s) /\ Keeps(r, s) /\ ~s.evicting
  BY CanceledPage
<1>2. s.pin + 1 \in Nat /\ x = WithPins(s, s.pin + 1)
  BY <1>1 DEF Pinned, IsPage, WithPins
<1> HIDE DEF s, x
<1>3. IsPage(x) /\ Thaws(s, x) /\ Keeps(s, x) /\ ~x.evicting
  BY <1>1, <1>2, CountedPage
<1>4. x.pin = s.pin + 1 /\ x.external = s.external /\ x.capture = s.capture
  BY <1>1, <1>2, PageCounts
<1>5. x.pin = r.pin + 1 /\ x.external = r.external /\ x.capture = r.capture
  BY <1>1, <1>4 DEF SameOwners
<1>6. Thaws(r, x) /\ Keeps(r, x)
  BY <1>1, <1>3 DEF IsPage, Thaws, Keeps
<1> QED
  BY <1>3, <1>5, <1>6 DEF x

\* A page that was paged in has one more pin and no freeze.
LEMMA PagedInPage ==
    ASSUME NEW r, IsPage(r)
    PROVE  /\ IsPage(PagedIn(r)) /\ Thaws(r, PagedIn(r)) /\ Keeps(r, PagedIn(r))
           /\ ~PagedIn(r).evicting
           /\ PagedIn(r).pin = r.pin + 1
           /\ PagedIn(r).external = r.external /\ PagedIn(r).capture = r.capture
<1>1. IsPage(PagedIn(r)) /\ ~PagedIn(r).evicting /\ PagedIn(r).pin = r.pin + 1
  BY DEF IsPage, PageFields, PagedIn
<1>2. /\ PagedIn(r).external = r.external /\ PagedIn(r).capture = r.capture
      /\ PagedIn(r).gen = r.gen /\ PagedIn(r).unknown = r.unknown /\ PagedIn(r).tokens = r.tokens
      /\ PagedIn(r).handle = r.handle /\ PagedIn(r).mapped = r.mapped
  BY DEF IsPage, PageFields, PagedIn
<1> QED
  BY <1>1, <1>2 DEF IsPage, Thaws, Keeps, IsMapped

\* A consumer lets go of a page, and its last pin or hold with it.
LEMMA LetGoPage ==
    ASSUME NEW r, IsPage(r), NEW d, IsPage(d), Thaws(r, d), Keeps(r, d), ~d.evicting,
           NEW n \in Nat, NEW kind, NEW s \in {WithPins(d, n), WithHolds(d, kind, n)}
    PROVE  IsPage(s) /\ Thaws(r, s) /\ Keeps(r, s) /\ ~s.evicting
<1>1. IsPage(s) /\ Thaws(d, s) /\ Keeps(d, s) /\ s.evicting = d.evicting
  BY CountedPage
<1> QED
  BY <1>1 DEF IsPage, Thaws, Keeps

-----------------------------------------------------------------------------
(* The calls of the threads stay well-formed.                                *)

\* What the calls of a thread, the lock and the ranges say when the thread acts.
Acts(t) == /\ CallOK(call[t], lock = t) /\ (lock = t) \in BOOLEAN
           /\ async \in BOOLEAN /\ DOMAIN call = Threads /\ NoThread \notin Threads
           /\ Faulting(call[t]) \/ Enters(call[t]) => lease[t] = NoRange
           /\ call[t] = NoCall => lock # t

\* The invariants say what a thread needs to know to act.
LEMMA ThreadActs ==
    ASSUME TypesOK, CallsOK, VbarAssumption, NEW t \in Threads
    PROVE  Acts(t)
<1>1. /\ CallOK(call[t], lock = t) /\ (lock = t) \in BOOLEAN
      /\ async \in BOOLEAN /\ DOMAIN call = Threads /\ NoThread \notin Threads
      /\ Faulting(call[t]) \/ Enters(call[t]) => lease[t] = NoRange
  BY DEF CallsOK, TypesOK, DeviceOK, VbarAssumption
<1>2. ASSUME call[t] = NoCall PROVE lock # t
  BY <1>1, <1>2 DEF NoCall, CallOK, Faulting
<1> QED
  BY <1>1, <1>2 DEF Acts

\* A reclaim goes on, or returns to the fault it is part of.
GoesOn(t, d) == /\ CallOK(d, lock = t)
                /\ Faulting(d) \/ Enters(d) => Faulting(call[t]) \/ Enters(call[t])

\* A step of a reclaim leaves every thread at a place of its call it may be at.
LEMMA ReclaimCalls ==
    ASSUME TypesOK, CallsOK, VbarAssumption, NEW t \in Threads, ReclaimNext(t)
    PROVE  CallsOK' /\ (DOMAIN call = Threads)'
<1> DEFINE c == call[t]
           mine == lock = t
<1>1. Acts(t)
  BY ThreadActs
<1>2. UNCHANGED <<lock, lease, async>>
  BY DEF ReclaimNext, Pressure, SetWatermark, FreeMemory, Snapshot, Freeze, Commit, Synchronized,
         SynchronizeFails, device, owners, memory
<1>3. SUFFICES Only(t) /\ GoesOn(t, call'[t])
  <2>1. ASSUME Only(t), GoesOn(t, call'[t]) PROVE CallOK(call[t], lock = t)'
    BY <1>2, <2>1 DEF GoesOn, CallOK
  <2>2. ASSUME Only(t), GoesOn(t, call'[t])
        PROVE  (Faulting(call[t]) \/ Enters(call[t]))' => lease'[t] = NoRange
    BY <1>1, <1>2, <2>2 DEF Acts, GoesOn, Faulting, Enters
  <2>3. ASSUME Only(t), GoesOn(t, call'[t]) PROVE CallsOK'
    BY <1>1, <1>2, <2>1, <2>2, <2>3, CallsStep DEF Acts
  <2> QED
    BY <2>3 DEF Only
<1>4. ASSUME NEW left, c.pc \in {"freeze", "sync", "commit", "drain", "redrain"}
      PROVE  GoesOn(t, Stopped(c, left))
  <2> DEFINE d == Stopped(c, left)
  <2>1. CallOK(d, mine) /\ d.pc \in {"idle", "enter", "page", "snapshot"}
    BY <1>1, <1>4, StoppedOK DEF Acts
  <2>2. Faulting(d) \/ Enters(d) => Faulting(c) \/ Enters(c)
    <3>1. CASE c.then = "idle"
      <4>1. d = NoCall
        BY <3>1 DEF Stopped
      <4> QED
        BY <4>1 DEF NoCall, Faulting, Enters
    <3>2. CASE c.then # "idle"
      BY <1>1, <3>2 DEF Faulting, Enters, Acts, CallOK
    <3> QED
      BY <3>1, <3>2
  <2> QED
    BY <2>1, <2>2 DEF GoesOn
<1>5. ASSUME NEW need \in 1..MaxNeed, NEW keep \in {NoVbar} \cup Vbars, Pressure(t, need, keep)
      PROVE  Only(t) /\ GoesOn(t, call'[t])
  <2>1. c = NoCall /\ mine = FALSE /\ need > 0
    BY <1>1, <1>5, VbarAssumption DEF Pressure, Acts, VbarAssumption
  <2>2. CASE async
    <3> DEFINE d == [NoCall EXCEPT !.pc = "snapshot", !.kind = "retired", !.need = need,
                                   !.keep = keep, !.then = "idle"]
    <3>1. Only(t) /\ call'[t] = d
      BY <1>1, <1>5, <2>1, <2>2 DEF Pressure, Reclaim, Only, Acts
    <3>2. GoesOn(t, d)
      BY <2>1, <2>2 DEF GoesOn, CallOK, NoCall, IsCall, CallFields, Reclaims, Closing, Consumes, Faulting, Enters
    <3> QED
      BY <3>1, <3>2
  <2>3. CASE ~async
    <3> DEFINE d == [NoCall EXCEPT !.pc = "freeze", !.kind = "reference",
                                   !.need = need, !.keep = keep]
    <3>1. Only(t) /\ call'[t] = d
      BY <1>1, <1>5, <2>1, <2>3 DEF Pressure, Reclaim, Only, Acts
    <3>2. GoesOn(t, d)
      BY <2>1, <2>3 DEF GoesOn, CallOK, NoCall, IsCall, CallFields, Reclaims, Closing, Consumes, Faulting, Enters
    <3> QED
      BY <3>1, <3>2
  <2> QED
    BY <2>2, <2>3
<1>6. ASSUME NEW v \in Vbars, NEW n \in 0..NPages, SetWatermark(t, v, n) \/ FreeMemory(t, v, n)
      PROVE  Only(t) /\ GoesOn(t, call'[t])
  <2>1. c = NoCall /\ mine = FALSE
    BY <1>1, <1>6 DEF SetWatermark, FreeMemory, Acts
  <2>2. /\ Only(t)
        /\ \/ call'[t] = NoCall
           \/ \E first, last, need : call'[t] = FreeRange(v, first, last, need)
    <3>1. CASE SetWatermark(t, v, n)
      BY <1>1, <3>1 DEF SetWatermark, Acts, Only
    <3>2. CASE FreeMemory(t, v, n)
      BY <1>1, <3>2 DEF FreeMemory, Acts, Only
    <3> QED
      BY <1>6, <3>1, <3>2
  <2>3. GoesOn(t, call'[t])
    <3>1. CASE call'[t] = NoCall
      BY <2>1, <3>1, NoCallOK DEF GoesOn, NoCall, Faulting, Enters
    <3>2. ASSUME NEW first, NEW last, NEW need PROVE GoesOn(t, FreeRange(v, first, last, need))
      BY <2>1 DEF GoesOn, CallOK, NoCall, IsCall, CallFields, Reclaims, Closing, Consumes,
         Faulting, Enters, FreeRange
    <3> QED
      BY <2>2, <3>1, <3>2
  <2> QED
    BY <2>2, <2>3
<1>7. ASSUME Snapshot(t)
      PROVE  Only(t) /\ GoesOn(t, call'[t])
  <2>1. PICK f : call' = [call EXCEPT ![t].pc = "freeze", ![t].frontier = f]
    BY <1>7 DEF Snapshot
  <2> DEFINE d == [c EXCEPT !.pc = "freeze", !.frontier = f]
  <2>2. Only(t) /\ call'[t] = d /\ c.pc = "snapshot"
    BY <1>1, <1>7, <2>1 DEF Snapshot, Acts, Only
  <2>3. GoesOn(t, d)
    BY <1>1, <2>2 DEF Acts, GoesOn, CallOK, IsCall, CallFields, Reclaims, Closing, Consumes, Faulting, Enters
  <2> QED
    BY <2>2, <2>3
<1>8. ASSUME Freeze(t)
      PROVE  Only(t) /\ GoesOn(t, call'[t])
  <2>1. PICK K \in Scans(t) :
           call' = [call EXCEPT ![t] =
                    IF K = {} THEN Stopped(c, c.need)
                    ELSE [c EXCEPT
                            !.pc = IF c.kind = "retired" THEN "commit" ELSE "sync",
                            !.waits = IF c.kind = "retired" THEN {} ELSE inflight,
                            !.candidates = {[page |-> p, serial |-> page[p].serial,
                                             gen |-> page[p].gen + 1] : p \in K}]]
    BY <1>8 DEF Freeze
  <2>2. c.pc = "freeze"
    BY <1>8 DEF Freeze
  <2>3. CASE K = {}
    BY <1>1, <1>4, <2>1, <2>2, <2>3 DEF Acts, Only
  <2>4. CASE K # {}
    <3> DEFINE k(p) == [page |-> p, serial |-> page[p].serial, gen |-> page[p].gen + 1]
               pc == IF c.kind = "retired" THEN "commit" ELSE "sync"
               waits == IF c.kind = "retired" THEN {} ELSE inflight
               cands == {k(p) : p \in K}
               d == [c EXCEPT !.pc = pc, !.waits = waits, !.candidates = cands]
    <3>1. Only(t) /\ call'[t] = d
      BY <1>1, <2>1, <2>4 DEF Acts, Only
    <3>2. K \subseteq Pages
      BY <2>1 DEF Scans, Candidates, Eligible
    <3>3. \A x \in cands : x.page \in Pages /\ x.gen \in Nat
      BY <3>2 DEF TypesOK, PagesOK, IsPage
    <3>4. GoesOn(t, d)
      <4> HIDE DEF cands, waits
      <4> QED
        BY <1>1, <2>2, <3>3
        DEF Acts, GoesOn, CallOK, IsCall, CallFields, Reclaims, Closing, Consumes, Faulting, Enters
    <3> QED
      BY <3>1, <3>4
  <2> QED
    BY <2>3, <2>4
<1>9. ASSUME Commit(t)
      PROVE  Only(t) /\ GoesOn(t, call'[t])
  <2>1. PICK freed : call' = [call EXCEPT ![t] =
                       IF Over(freed, c.need) THEN Stopped(c, c.need - freed)
                       ELSE [c EXCEPT !.pc = "freeze", !.need = @ - freed,
                                      !.candidates = {}]]
    BY <1>9 DEF Commit
  <2>2. c.pc = "commit"
    BY <1>9 DEF Commit
  <2>3. CASE Over(freed, c.need)
    BY <1>1, <1>4, <2>1, <2>2, <2>3 DEF Acts, Only
  <2>4. CASE ~Over(freed, c.need)
    <3> DEFINE left == c.need - freed
               d == [c EXCEPT !.pc = "freeze", !.need = left, !.candidates = {}]
    <3>1. Only(t) /\ call'[t] = d
      BY <1>1, <2>1, <2>4 DEF Acts, Only
    <3>2. GoesOn(t, d)
      <4> HIDE DEF left
      <4> QED
        BY <1>1, <2>2
        DEF Acts, GoesOn, CallOK, IsCall, CallFields, Reclaims, Closing, Consumes, Faulting, Enters
    <3> QED
      BY <3>1, <3>2
  <2> QED
    BY <2>3, <2>4
<1>10. ASSUME Synchronized(t)
       PROVE  Only(t) /\ GoesOn(t, call'[t])
  <2> DEFINE d == [c EXCEPT !.waits = {},
                            !.pc = CASE @ = "sync"    -> "commit"
                                     [] @ = "drain"   -> "check"
                                     [] @ = "redrain" -> "recheck"]
  <2>1. Only(t) /\ call'[t] = d /\ c.pc \in {"sync", "drain", "redrain"}
    BY <1>1, <1>10 DEF Synchronized, Acts, Only
  <2>2. GoesOn(t, d)
    <3>1. CASE c.pc = "sync"
      BY <1>1, <3>1
      DEF Acts, GoesOn, CallOK, IsCall, CallFields, Reclaims, Closing, Consumes, Faulting, Enters
    <3>2. CASE c.pc = "drain"
      BY <1>1, <3>2
      DEF Acts, GoesOn, CallOK, IsCall, CallFields, Reclaims, Closing, Consumes, Faulting, Enters
    <3>3. CASE c.pc = "redrain"
      BY <1>1, <3>3
      DEF Acts, GoesOn, CallOK, IsCall, CallFields, Reclaims, Closing, Consumes, Faulting, Enters
    <3> QED
      BY <2>1, <3>1, <3>2, <3>3
  <2> QED
    BY <2>1, <2>2
<1>11. ASSUME SynchronizeFails(t)
       PROVE  Only(t) /\ GoesOn(t, call'[t])
  BY <1>1, <1>4, <1>11 DEF SynchronizeFails, Acts, Only
<1> QED
  BY <1>5, <1>6, <1>7, <1>8, <1>9, <1>10, <1>11 DEF ReclaimNext

\* The call of thread t becomes d, and its lock and lease fit it.
Becomes(t, d) == /\ Only(t) /\ call'[t] = d /\ CallOK(d, lock' = t)
                 /\ Faulting(d) \/ Enters(d) => lease'[t] = NoRange
                 /\ {lock, lock'} \subseteq {NoThread, t} \/ lock' = lock

\* A thread that goes on in a call it may be in leaves the others where they were.
LEMMA BecomesStep ==
    ASSUME CallsOK, NEW t \in Threads, NEW d, Becomes(t, d), async' = async,
           NoThread \notin Threads, \A u \in Threads \ {t} : lease'[u] = lease[u]
    PROVE  CallsOK' /\ (DOMAIN call = Threads)'
<1>1. CallOK(call[t], lock = t)'
  BY DEF Becomes, CallOK
<1>2. (Faulting(call[t]) \/ Enters(call[t]))' => lease'[t] = NoRange
  BY DEF Becomes, Faulting, Enters
<1>3. Only(t) /\ ({lock, lock'} \subseteq {NoThread, t} \/ lock' = lock)
  BY DEF Becomes
<1> QED
  BY <1>1, <1>2, <1>3, CallsStep DEF Only

\* A call that is over.
LEMMA Returns ==
    ASSUME NEW t \in Threads, Acts(t), call' = [call EXCEPT ![t] = NoCall],
           \/ lock' = NoThread /\ lock \in {NoThread, t}
           \/ lock' = lock /\ lock # t
    PROVE  Becomes(t, NoCall)
<1>1. (lock' = t) = FALSE
  BY DEF Acts
<1> QED
  BY <1>1, NoCallOK DEF Becomes, Acts, Only, NoCall, Faulting, Enters

\* A fault goes on as a, after a reclaim or not.
Retries(a, d) == d = a \/ \E need, keep : d = Reclaim(a, need, keep, "page")

\* So does a step of a fault, which takes the lock and gives it back.
LEMMA FaultCalls ==
    ASSUME TypesOK, CallsOK, VbarAssumption, NEW t \in Threads, FaultNext(t)
    PROVE  CallsOK' /\ (DOMAIN call = Threads)'
<1> DEFINE c == call[t]
           mine == lock = t
           Kept == CallsOK' /\ (DOMAIN call = Threads)'
<1>1. Acts(t)
  BY ThreadActs
<1>2. ASSUME NEW v \in Vbars, NEW first \in 1..NPages, NEW last \in 1..NPages,
             NEW deficit \in 0..MaxNeed, first <= last, Fault(t, v, first, last, deficit)
      PROVE  Kept
  <2> DEFINE start == [NoCall EXCEPT !.vbar = v, !.first = first, !.last = last]
             d == Reclaim(start, deficit, NoVbar, "enter")
  <2>1. c = NoCall /\ mine = FALSE /\ lease[t] = NoRange /\ UNCHANGED <<lock, lease, async>>
    BY <1>1, <1>2 DEF Fault, Acts, owners, device
  <2>2. Only(t) /\ call'[t] = d
    BY <1>1, <1>2 DEF Fault, Only, Acts
  <2>3. CallOK(Resumed(start, "enter"), FALSE)
    BY <1>2 DEF CallOK, NoCall, IsCall, CallFields, Reclaims, Closing, Consumes, Faulting, Enters, Resumed
  <2>4. CallOK(d, FALSE)
    <3> HIDE DEF start
    <3> QED
      BY <1>1, <2>3, ReclaimOK DEF Acts
  <2>5. Becomes(t, d)
    BY <2>1, <2>2, <2>4 DEF Becomes
  <2> QED
    BY <1>1, <2>1, <2>5, BecomesStep DEF Acts
<1>3. ASSUME NEW fits \in BOOLEAN, EnterFault(t, fits) PROVE Kept
  <2>1. /\ c.pc = "enter" /\ lock = NoThread /\ lease' = lease /\ async' = async
        /\ \/ call' = [call EXCEPT ![t] = NoCall] /\ lock' = lock
           \/ call' = [call EXCEPT ![t].pc = "page", ![t].at = c.first] /\ lock' = t
    BY <1>3 DEF EnterFault, owners, device
  <2>2. CASE call' = [call EXCEPT ![t] = NoCall] /\ lock' = lock
    <3>1. Becomes(t, NoCall)
      BY <1>1, <2>1, <2>2, Returns DEF Acts
    <3> QED
      BY <1>1, <2>1, <3>1, BecomesStep DEF Acts
  <2>3. CASE call' = [call EXCEPT ![t].pc = "page", ![t].at = c.first] /\ lock' = t
    <3> DEFINE d == [c EXCEPT !.pc = "page", !.at = c.first]
    <3>1. Only(t) /\ call'[t] = d
      BY <1>1, <2>3 DEF Acts, Only
    <3>2. CallOK(d, TRUE)
      BY <1>1, <2>1 DEF Acts, CallOK, IsCall, CallFields, Reclaims, Closing, Consumes, Faulting, Enters
    <3>3. lease[t] = NoRange
      BY <1>1, <2>1 DEF Acts, Enters
    <3>4. Becomes(t, d)
      BY <2>1, <2>3, <3>1, <3>2, <3>3 DEF Becomes
    <3> QED
      BY <1>1, <2>1, <3>4, BecomesStep DEF Acts
  <2> QED
    BY <2>1, <2>2, <2>3
<1>4. ASSUME call' = [call EXCEPT ![t] = NoCall], lock' = NoThread, c.pc \in {"page", "teardown"},
             async' = async, \A u \in Threads \ {t} : lease'[u] = lease[u]
      PROVE  Kept
  <2>1. lock = t
    BY <1>1, <1>4 DEF Acts, CallOK, Faulting
  <2>2. Becomes(t, NoCall)
    BY <1>1, <1>4, <2>1, Returns
  <2> QED
    BY <1>1, <1>4, <2>2, BecomesStep DEF Acts
<1>5. ASSUME AtPage(t), NEW d, Only(t), call'[t] = d, lock' = lock, async' = async, lease' = lease,
             d.pc = "page" => CallOK(d, TRUE),
             d.pc = "snapshot" => CallOK(d, TRUE), d.pc \in {"page", "snapshot"}
      PROVE  Kept
  <2>1. c.pc = "page" /\ lock = t /\ lease[t] = NoRange
    BY <1>1, <1>5 DEF Acts, AtPage, CallOK, Faulting
  <2>2. Becomes(t, d)
    BY <1>5, <2>1 DEF Becomes
  <2> QED
    BY <1>1, <1>5, <2>2, BecomesStep DEF Acts
<1>6. ASSUME AtPage(t), call' = [call EXCEPT ![t] = Advanced(@)],
             lock' = lock, async' = async, lease' = lease
      PROVE  Kept
  <2> DEFINE d == Advanced(c)
  <2>1. Only(t) /\ call'[t] = d
    BY <1>1, <1>6 DEF Acts, Only
  <2>2. CallOK(d, TRUE) /\ d.pc = "page"
    BY <1>1, <1>6 DEF AtPage, Acts, Advanced, CallOK, IsCall, CallFields, Reclaims, Closing, Consumes,
       Faulting, Enters
  <2> HIDE DEF d
  <2> QED
    BY <1>5, <1>6, <2>1, <2>2
<1>7. ASSUME NEW a, CallOK(a, TRUE), a.pc = "page", a = Resumed(a, "page"), Retries(a, call'[t]),
             AtPage(t), Only(t), lock' = lock, async' = async, lease' = lease
      PROVE  Kept
  <2>1. CASE call'[t] = a
    BY <1>5, <1>7, <2>1
  <2>2. ASSUME NEW need, NEW keep, call'[t] = Reclaim(a, need, keep, "page") PROVE Kept
    <3>1. CallOK(Resumed(a, "page"), TRUE)
      BY <1>7
    <3>2. /\ CallOK(Reclaim(a, need, keep, "page"), TRUE)
          /\ Reclaim(a, need, keep, "page").pc \in {"snapshot", "page"}
      BY <1>1, <3>1, ReclaimOK DEF Acts
    <3> QED
      BY <1>5, <1>7, <2>2, <3>2
  <2> QED
    BY <1>7, <2>1, <2>2 DEF Retries
<1>8. ASSUME FaultHit(t) \/ FaultUnknown(t) \/ FaultRestore(t) \/ ReturnFault(t) PROVE Kept
  <2>1. CASE FaultHit(t)
    BY <1>6, <2>1 DEF FaultHit, owners, device
  <2>2. CASE FaultUnknown(t)
    BY <1>4, <2>2 DEF FaultUnknown, GiveUp, AtPage, owners, device
  <2>3. CASE FaultRestore(t)
    <3>1. /\ AtPage(t) /\ lease' = lease /\ async' = async
          /\ \/ call' = [call EXCEPT ![t] = Advanced(@)] /\ lock' = lock
             \/ call' = [call EXCEPT ![t] = NoCall] /\ lock' = NoThread
      BY <2>3 DEF FaultRestore, GiveUp, owners, device
    <3> QED
      BY <1>4, <1>6, <3>1 DEF AtPage
  <2>4. CASE ReturnFault(t)
    BY <1>1, <1>4, <2>4 DEF ReturnFault, device, RangesOK, TypesOK
  <2> QED
    BY <1>8, <2>1, <2>2, <2>3, <2>4
<1>9. ASSUME FaultMiss(t) PROVE Kept
  <2> DEFINE a == [c EXCEPT !.tries = 1, !.checked = TRUE]
             missing == total + (c.last - c.at + 1) - Capacity
  <2>1. /\ AtPage(t) /\ lock' = lock /\ lease' = lease /\ async' = async
        /\ Only(t) /\ Retries(a, call'[t])
    BY <1>1, <1>9 DEF FaultMiss, Acts, Only, Retries, owners, device
  <2>2. CallOK(a, TRUE) /\ a.pc = "page"
    BY <1>1, <2>1 DEF AtPage, Acts, CallOK, IsCall, CallFields, Reclaims, Closing, Consumes,
       Faulting, Enters
  <2>3. a = Resumed(a, "page")
    BY <1>1, <2>1 DEF AtPage, Acts, CallOK, IsCall, CallFields, Resumed
  <2> HIDE DEF a, missing
  <2> QED
    BY <1>7, <2>1, <2>2, <2>3
<1>10. ASSUME NEW deficit \in 0..MaxNeed, FaultMap(t, deficit) PROVE Kept
  <2> DEFINE a == [c EXCEPT !.tries = @ + 1]
             After(need) == IF c.tries = 1 THEN Reclaim(a, need, c.vbar, "page")
                            ELSE Reclaim(a, ReclaimFloor, NoVbar, "page")
  <2>1. AtPage(t) /\ lease' = lease /\ async' = async
    BY <1>10 DEF FaultMap, owners, device
  <2>2. \/ \E need : call' = [call EXCEPT ![t] = After(need)] /\ lock' = lock
        \/ call' = [call EXCEPT ![t] = Advanced(@)] /\ lock' = lock
        \/ call' = [call EXCEPT ![t] = NoCall] /\ lock' = NoThread
    <3>1. CASE deficit > 0
      BY <1>10, <3>1 DEF FaultMap
    <3>2. CASE ~(deficit > 0)
      BY <1>10, <3>2 DEF FaultMap, GiveUp
    <3> QED
      BY <3>1, <3>2
  <2>3. CallOK(a, TRUE) /\ a.pc = "page"
    BY <1>1, <2>1 DEF AtPage, Acts, CallOK, IsCall, CallFields, Reclaims, Closing, Consumes,
       Faulting, Enters
  <2>4. a = Resumed(a, "page")
    BY <1>1, <2>1 DEF AtPage, Acts, CallOK, IsCall, CallFields, Resumed
  <2>5. ASSUME NEW need, call' = [call EXCEPT ![t] = After(need)], lock' = lock PROVE Kept
    <3>1. Only(t) /\ call'[t] = After(need)
      BY <1>1, <2>5 DEF Acts, Only
    <3>2. Retries(a, call'[t])
      BY <3>1 DEF Retries
    <3> HIDE DEF a
    <3> QED
      BY <1>7, <2>1, <2>3, <2>4, <2>5, <3>1, <3>2
  <2> HIDE DEF a, After
  <2>6. CASE call' = [call EXCEPT ![t] = Advanced(@)] /\ lock' = lock
    BY <1>6, <2>1, <2>6
  <2>7. CASE call' = [call EXCEPT ![t] = NoCall] /\ lock' = NoThread
    BY <1>4, <2>1, <2>7 DEF AtPage
  <2> QED
    BY <2>2, <2>5, <2>6, <2>7
<1> QED
  BY <1>2, <1>3, <1>8, <1>9, <1>10 DEF FaultNext

\* So does a step of a consumer.
LEMMA ConsumerCalls ==
    ASSUME TypesOK, CallsOK, VbarAssumption, NEW t \in Threads, ConsumerNext(t)
    PROVE  CallsOK' /\ (DOMAIN call = Threads)'
<1> DEFINE c == call[t]
           Kept == CallsOK' /\ (DOMAIN call = Threads)'
<1>1. Acts(t) /\ DOMAIN lease = Threads
  BY ThreadActs DEF TypesOK, RangesOK
<1>2. ASSUME NEW own \in {"lease", "hold"}, NEW q \in Queues, Submit(t, own, q) PROVE Kept
  <2>1. c = NoCall /\ lock # t
    BY <1>1, <1>2 DEF Submit, Acts
  <2>2. UNCHANGED <<call, lock, async>> /\ \A u \in Threads \ {t} : lease'[u] = lease[u]
    BY <1>1, <1>2 DEF Submit, Used
  <2>3. Only(t) /\ call'[t] = NoCall
    BY <1>1, <2>1, <2>2 DEF Only, Acts
  <2>4. (lock' = t) = FALSE
    BY <2>1, <2>2
  <2>5. Becomes(t, NoCall)
    BY <2>2, <2>3, <2>4, NoCallOK DEF Becomes, NoCall, Faulting, Enters
  <2> QED
    BY <1>1, <2>2, <2>5, BecomesStep DEF Acts
<1>3. ASSUME NEW pc \in Consumes, NEW q \in {NoQueue} \cup Queues, TakeToken(t, pc, q) PROVE Kept
  <2> DEFINE d == [NoCall EXCEPT !.pc = pc, !.token = TokenOf(q)]
  <2>1. c = NoCall /\ lock # t /\ UNCHANGED <<lock, lease, async>>
    BY <1>1, <1>3 DEF TakeToken, Acts, owners, device
  <2>2. Only(t) /\ call'[t] = d
    BY <1>1, <1>3, <2>1 DEF TakeToken, Only, Acts
  <2>3. TokenOf(q) \in TokenRecords
    <3>1. q # NoQueue => submitted[q] \in Nat
      BY DEF TypesOK, DeviceOK
    <3> QED
      BY <3>1 DEF TokenOf, TokenRecords
  <2>4. CallOK(d, FALSE) /\ ~Faulting(d) /\ ~Enters(d)
    BY <2>3 DEF CallOK, NoCall, IsCall, CallFields, Reclaims, Closing, Consumes, Faulting, Enters
  <2>5. (lock' = t) = FALSE
    BY <2>1
  <2> HIDE DEF d
  <2>6. Becomes(t, d)
    BY <2>1, <2>2, <2>4, <2>5 DEF Becomes
  <2> QED
    BY <1>1, <2>1, <2>6, BecomesStep DEF Acts
<1>4. ASSUME Register(t) \/ Unpin(t) \/ Release(t) PROVE Kept
  <2>1. /\ call' = [call EXCEPT ![t] = NoCall] /\ lock = NoThread /\ lock' = lock /\ async' = async
        /\ \A u \in Threads \ {t} : lease'[u] = lease[u]
    BY <1>1, <1>4 DEF Register, Unpin, Release, device
  <2>2. Becomes(t, NoCall)
    BY <1>1, <2>1, Returns
  <2> QED
    BY <1>1, <2>1, <2>2, BecomesStep DEF Acts
<1>5. ASSUME NEW R, Acquire(t, R) PROVE Kept
  <2>1. c = NoCall /\ UNCHANGED <<call, lock, lease, async>>
    BY <1>5 DEF Acquire, device
  <2>2. Only(t) /\ call'[t] = NoCall
    BY <1>1, <2>1 DEF Only, Acts
  <2>3. (lock' = t) = FALSE
    BY <1>1, <2>1 DEF Acts
  <2>4. Becomes(t, NoCall)
    BY <2>1, <2>2, <2>3, NoCallOK DEF Becomes, NoCall, Faulting, Enters
  <2> QED
    BY <1>1, <2>1, <2>4, BecomesStep DEF Acts
<1> QED
  BY <1>2, <1>3, <1>4, <1>5 DEF ConsumerNext, Consumes

\* So does a step of vbar_free.
LEMMA FreeCalls ==
    ASSUME TypesOK, CallsOK, VbarAssumption, NEW t \in Threads, FreeNext(t)
    PROVE  CallsOK' /\ (DOMAIN call = Threads)'
<1> DEFINE c == call[t]
           Kept == CallsOK' /\ (DOMAIN call = Threads)'
<1>1. Acts(t)
  BY ThreadActs
<1>2. lease' = lease /\ async' = async
  BY DEF FreeNext, Free, CheckFree, BeginTeardown, TeardownPage, EndTeardown, owners, device
<1>3. ASSUME call' = [call EXCEPT ![t] = NoCall],
             \/ lock' = NoThread /\ lock \in {NoThread, t}
             \/ lock' = lock /\ lock # t
      PROVE  Kept
  <2>1. Becomes(t, NoCall)
    BY <1>1, <1>3, Returns
  <2> QED
    BY <1>1, <1>2, <2>1, BecomesStep DEF Acts
<1>4. ASSUME NEW d, Only(t), call'[t] = d, CallOK(d, lock' = t), ~Faulting(d), ~Enters(d),
             {lock, lock'} \subseteq {NoThread, t} \/ lock' = lock
      PROVE  Kept
  <2>1. Becomes(t, d)
    BY <1>4 DEF Becomes
  <2> QED
    BY <1>1, <1>2, <2>1, BecomesStep DEF Acts
<1>5. ASSUME NEW v \in Vbars, Free(t, v) PROVE Kept
  <2> DEFINE d == [NoCall EXCEPT !.pc = "drain", !.kind = "free", !.vbar = v, !.waits = inflight]
  <2>1. (lock' = t) = FALSE /\ lock' = lock
    BY <1>1, <1>5 DEF Free, Acts
  <2>2. Only(t) /\ call'[t] = d
    BY <1>1, <1>5 DEF Free, Only, Acts
  <2>3. CallOK(d, FALSE) /\ ~Faulting(d) /\ ~Enters(d)
    BY DEF CallOK, NoCall, IsCall, CallFields, Reclaims, Closing, Consumes, Faulting, Enters
  <2> HIDE DEF d
  <2> QED
    BY <1>4, <2>1, <2>2, <2>3
<1>6. ASSUME CheckFree(t) PROVE Kept
  <2>1. /\ c.pc = "check" /\ lock = NoThread /\ lock' = lock
        /\ \/ call' = [call EXCEPT ![t] = NoCall]
           \/ call' = [call EXCEPT ![t] = [c EXCEPT !.pc = "redrain", !.waits = inflight]]
    BY <1>6 DEF CheckFree
  <2>2. CASE call' = [call EXCEPT ![t] = NoCall]
    BY <1>1, <1>3, <2>1, <2>2 DEF Acts
  <2>3. CASE call' = [call EXCEPT ![t] = [c EXCEPT !.pc = "redrain", !.waits = inflight]]
    <3> DEFINE d == [c EXCEPT !.pc = "redrain", !.waits = inflight]
    <3>1. Only(t) /\ call'[t] = d
      BY <1>1, <2>3 DEF Only, Acts
    <3>2. (lock' = t) = (lock = t)
      BY <2>1
    <3>3. CallOK(d, lock = t) /\ ~Faulting(d) /\ ~Enters(d)
      BY <1>1, <2>1
      DEF Acts, CallOK, IsCall, CallFields, Reclaims, Closing, Consumes, Faulting, Enters
    <3> HIDE DEF d
    <3> QED
      BY <1>4, <2>1, <3>1, <3>2, <3>3
  <2> QED
    BY <2>1, <2>2, <2>3
<1>7. ASSUME BeginTeardown(t) PROVE Kept
  <2> DEFINE d == [c EXCEPT !.pc = "teardown", !.at = 1]
  <2>1. c.pc = "recheck" /\ lock = NoThread /\ lock' = t
    BY <1>7 DEF BeginTeardown
  <2>2. Only(t) /\ call'[t] = d
    BY <1>1, <1>7 DEF BeginTeardown, Only, Acts
  <2>3. (lock' = t) = TRUE
    BY <2>1
  <2>4. CallOK(d, TRUE) /\ ~Faulting(d) /\ ~Enters(d)
    BY <1>1, <2>1
    DEF Acts, CallOK, IsCall, CallFields, Reclaims, Closing, Consumes, Faulting, Enters
  <2> HIDE DEF d
  <2> QED
    BY <1>4, <2>1, <2>2, <2>3, <2>4
<1>8. ASSUME TeardownPage(t) PROVE Kept
  <2>1. /\ c.pc = "teardown"
        /\ \/ call' = [call EXCEPT ![t] = NoCall] /\ lock' = NoThread
           \/ call' = [call EXCEPT ![t].at = @ + 1] /\ lock' = lock
    BY <1>8 DEF TeardownPage
  <2>2. lock = t
    BY <1>1, <2>1 DEF Acts, CallOK
  <2>3. CASE call' = [call EXCEPT ![t] = NoCall] /\ lock' = NoThread
    BY <1>3, <2>2, <2>3
  <2>4. CASE call' = [call EXCEPT ![t].at = @ + 1] /\ lock' = lock
    <3> DEFINE d == [c EXCEPT !.at = @ + 1]
    <3>1. Only(t) /\ call'[t] = d
      BY <1>1, <2>4 DEF Only, Acts
    <3>2. (lock' = t) = TRUE
      BY <2>2, <2>4
    <3>3. CallOK(d, TRUE) /\ ~Faulting(d) /\ ~Enters(d)
      BY <1>1, <2>1, <2>2
      DEF Acts, CallOK, IsCall, CallFields, Reclaims, Closing, Consumes, Faulting, Enters
    <3> HIDE DEF d
    <3> QED
      BY <1>4, <2>4, <3>1, <3>2, <3>3
  <2> QED
    BY <2>1, <2>3, <2>4
<1>9. ASSUME NEW refused \in BOOLEAN, EndTeardown(t, refused) PROVE Kept
  <2>1. c.pc = "teardown" /\ call' = [call EXCEPT ![t] = NoCall] /\ lock' = NoThread
    BY <1>9 DEF EndTeardown
  <2>2. lock = t
    BY <1>1, <2>1 DEF Acts, CallOK
  <2> QED
    BY <1>3, <2>1, <2>2
<1> QED
  BY <1>5, <1>6, <1>7, <1>8, <1>9 DEF FreeNext

\* Every step leaves every call where it may be.
LEMMA CallsStay ==
    ASSUME TypesOK, CallsOK, VbarAssumption, [Next]_vars
    PROVE  CallsOK' /\ (DOMAIN call = Threads)'
<1>1. ASSUME UNCHANGED <<call, lock, lease, async>> PROVE CallsOK' /\ (DOMAIN call = Threads)'
  BY <1>1 DEF TypesOK, CallsOK, CallOK, Faulting, Enters
<1>2. ASSUME ListNext \/ LimitNext PROVE UNCHANGED <<call, lock, lease, async>>
  BY <1>2 DEF ListNext, LimitNext, Allocate, Prioritize, Deprioritize, CopyAcquire, CopyRelease,
     SetLimit, owners, device
<1>3. ASSUME NEW o \in inflight, Finish(o) PROVE UNCHANGED <<call, lock, lease, async>>
  BY <1>3 DEF Finish, owners
<1>4. ASSUME Quiet \/ UNCHANGED vars PROVE UNCHANGED <<call, lock, lease, async>>
  BY <1>4 DEF Quiet, vars, owners, device
<1> QED
  BY <1>1, <1>2, <1>3, <1>4, ReclaimCalls, FaultCalls, ConsumerCalls, FreeCalls DEF Next

-----------------------------------------------------------------------------
(* What each step does to the pages.                                         *)

\* No page gets or loses an owner, is frozen or loses its mapping.
Steady(r, s) == IsPage(s) /\ SameOwners(r, s) /\ Thaws(r, s) /\ Keeps(r, s)

\* A page that is left alone keeps what work on it relies on.
LEMMA SteadySame == ASSUME NEW r, IsPage(r) PROVE Steady(r, r)
BY DEF IsPage, Steady, SameOwners, Thaws, Keeps

\* So does a page that is only given back.
LEMMA SteadyCanceled == ASSUME NEW r, IsPage(r) PROVE Steady(r, Canceled(r))
BY CanceledPage DEF Steady

\* The page s is the page r, frozen.
FrozenAs(r, s) == /\ IsPage(s) /\ SameOwners(r, s) /\ Keeps(r, s)
                  /\ s.evicting /\ s.gen = r.gen + 1
                  /\ s.unknown = r.unknown /\ s.tokens = r.tokens

\* The candidates a scan that froze the pages K leaves.
Froze(t, K) ==
    /\ call'[t].pc = IF call[t].kind = "retired" THEN "commit" ELSE "sync"
    /\ call'[t].candidates = {[page |-> p, serial |-> page[p].serial, gen |-> page[p].gen + 1] : p \in K}
    /\ call'[t].waits = IF call[t].kind = "retired" THEN {} ELSE inflight
    /\ \A f \in {"kind", "vbar", "first", "last", "at", "tries", "then", "frontier"} : call'[t][f] = call[t][f]

\* A scan freezes idle pages and records each one with the generation it gave it.
LEMMA FreezePages ==
    ASSUME PagesOK, NEW t \in Threads, Acts(t), Freeze(t)
    PROVE  \E K \in SUBSET Eligible(call[t]) :
             /\ DOMAIN page' = Pages
             /\ \A p \in Pages \ K : page'[p] = page[p]
             /\ \A p \in K : FrozenAs(page[p], page'[p])
             /\ K # {} => Unlocked(t) /\ Froze(t, K)
             /\ K = {} => call'[t] = Stopped(call[t], call[t].need)
<1> DEFINE c == call[t]
           Frozen(r) == [r EXCEPT !.evicting = TRUE, !.gen = @ + 1]
           cand(p) == [page |-> p, serial |-> page[p].serial, gen |-> page[p].gen + 1]
           pc == IF c.kind = "retired" THEN "commit" ELSE "sync"
           waits == IF c.kind = "retired" THEN {} ELSE inflight
           d(K) == [c EXCEPT !.pc = pc, !.waits = waits, !.candidates = {cand(p) : p \in K}]
<1>1. PICK K \in Scans(t) :
         /\ page' = [p \in Pages |-> IF p \in K THEN Frozen(page[p]) ELSE page[p]]
         /\ call' = [call EXCEPT ![t] = IF K = {} THEN Stopped(c, c.need) ELSE d(K)]
  BY DEF Freeze
<1>2. K \subseteq Eligible(c) /\ K \subseteq Pages /\ (K # {} => Unlocked(t))
  BY <1>1 DEF Scans, Candidates, Eligible
<1>3. /\ DOMAIN page' = Pages
      /\ \A p \in Pages \ K : page'[p] = page[p]
      /\ \A p \in K : page'[p] = Frozen(page[p])
  BY <1>1, <1>2
<1>4. ASSUME NEW p \in K PROVE FrozenAs(page[p], page'[p])
  <2> DEFINE r == page[p]
             s == page'[p]
  <2>1. IsPage(r) /\ s = Frozen(r)
    BY <1>2, <1>3 DEF PagesOK
  <2> HIDE DEF r, s
  <2>2. IsPage(s) /\ s.evicting /\ s.gen = r.gen + 1
    BY <2>1 DEF IsPage, PageFields
  <2>3. /\ SameOwners(r, s) /\ s.unknown = r.unknown /\ s.tokens = r.tokens
        /\ s.handle = r.handle /\ s.mapped = r.mapped
    BY <2>1 DEF IsPage, PageFields, SameOwners
  <2>4. Keeps(r, s)
    BY <2>1, <2>3 DEF Keeps, IsMapped, IsPage
  <2> QED
    BY <2>2, <2>3, <2>4 DEF FrozenAs, r, s
<1>5. ASSUME K # {} PROVE Froze(t, K)
  <2>1. call'[t] = d(K)
    BY <1>1, <1>5 DEF Acts
  <2>2. DOMAIN c = CallFields
    BY DEF Acts, CallOK, IsCall
  <2> DEFINE cands == {cand(p) : p \in K}
  <2>3. /\ call'[t].pc = pc /\ call'[t].candidates = cands /\ call'[t].waits = waits
        /\ \A f \in {"kind", "vbar", "first", "last", "at", "tries", "then", "frontier"} : call'[t][f] = call[t][f]
    <3> HIDE DEF cands, waits, pc
    <3> QED
      BY <2>1, <2>2 DEF CallFields, cands
  <2> QED
    BY <2>3 DEF Froze
<1>6. K = {} => call'[t] = Stopped(c, c.need)
  BY <1>1 DEF Acts
<1> QED
  BY <1>2, <1>3, <1>4, <1>5, <1>6

\* A page the thread may free; the others it froze are given back.
Freed(t, p) == \E k \in call[t].candidates : Current(k) /\ k.page = p

\* A commit frees the candidates that are still current, and gives back the rest
\* of its own; a page it does not free keeps its mapping and its consumers.
LEMMA CommitPages ==
    ASSUME PagesOK, NEW t \in Threads, Acts(t), Commit(t)
    PROVE  /\ DOMAIN page' = Pages
           /\ \A p \in Pages :
                /\ IsPage(page'[p]) /\ SameOwners(page[p], page'[p]) /\ Thaws(page[p], page'[p])
                /\ ~Freed(t, p) => Keeps(page[p], page'[p])
                /\ IsMapped(page'[p]) => IsMapped(page[p])
           /\ \A k \in call[t].candidates : StillFrozen(k) => ~page'[k.page].evicting
           /\ call'[t].candidates = {}
<1> DEFINE c    == call[t]
           K    == {k \in c.candidates : Current(k)}
           C(p) == \E k \in K : k.page = p
           S(p) == \E k \in c.candidates \ K : k.page = p /\ StillFrozen(k)
           P    == {k.page : k \in K}
<1>1. PICK out \in [P -> UNION {Released(page[p]) : p \in P}] :
         /\ \A p \in P : out[p] \in Released(page[p])
         /\ page' = [p \in Pages |-> IF C(p) THEN out[p].page
                                     ELSE IF S(p) THEN Canceled(page[p]) ELSE page[p]]
         /\ \E freed : call' = [call EXCEPT ![t] =
                       IF Over(freed, c.need) THEN Stopped(c, c.need - freed)
                       ELSE [c EXCEPT !.pc = "freeze", !.need = @ - freed,
                                      !.candidates = {}]]
  BY DEF Commit
<1>2. DOMAIN page' = Pages
  BY <1>1
<1>3. ASSUME NEW p \in Pages
      PROVE  /\ IsPage(page'[p]) /\ SameOwners(page[p], page'[p]) /\ Thaws(page[p], page'[p])
             /\ ~Freed(t, p) => Keeps(page[p], page'[p])
             /\ IsMapped(page'[p]) => IsMapped(page[p])
             /\ C(p) \/ S(p) => ~page'[p].evicting
  <2>1. IsPage(page[p])
    BY DEF PagesOK
  <2>2. CASE C(p)
    <3>1. p \in P /\ page'[p] = out[p].page /\ Freed(t, p)
      BY <1>1, <2>2 DEF Freed
    <3>2. out[p] \in Released(page[p]) /\ IsMapped(page[p])
      BY <1>1, <3>1 DEF Current
    <3> QED
      BY <2>1, <3>1, <3>2, ReleasedPage
  <2>3. CASE ~C(p) /\ S(p)
    <3>1. page'[p] = Canceled(page[p])
      BY <1>1, <2>3
    <3> QED
      BY <2>1, <3>1, CanceledPage DEF Keeps
  <2>4. CASE ~C(p) /\ ~S(p)
    <3>1. page'[p] = page[p]
      BY <1>1, <2>4
    <3> QED
      BY <2>1, <2>4, <3>1, SteadySame DEF Steady, Keeps
  <2> QED
    BY <2>2, <2>3, <2>4
<1>4. ASSUME NEW k \in c.candidates, StillFrozen(k) PROVE ~page'[k.page].evicting
  <2>1. k.page \in Pages
    BY DEF Acts, CallOK
  <2>2. C(k.page) \/ S(k.page)
    BY <1>4
  <2> QED
    BY <1>3, <2>1, <2>2
<1>5. call'[t].candidates = {}
  <2>1. PICK freed : call'[t] = IF Over(freed, c.need) THEN Stopped(c, c.need - freed)
                                ELSE [c EXCEPT !.pc = "freeze", !.need = @ - freed, !.candidates = {}]
    BY <1>1 DEF Acts
  <2>2. CASE Over(freed, c.need)
    <3> DEFINE left == c.need - freed
    <3>1. c.pc \in {"freeze", "sync", "commit", "drain", "redrain"} /\ call'[t] = Stopped(c, left)
      BY <2>1, <2>2 DEF Commit
    <3> HIDE DEF left
    <3>2. Stopped(c, left).candidates = {}
      BY <3>1, StoppedOK DEF Acts
    <3> QED
      BY <3>1, <3>2
  <2>3. CASE ~Over(freed, c.need)
    BY <2>1, <2>3 DEF Acts, CallOK, IsCall, CallFields
  <2> QED
    BY <2>2, <2>3
<1> QED
  BY <1>2, <1>3, <1>4, <1>5

\* A reclaim that cannot wait for the device gives its pages back.
LEMMA SynchronizeFailsPages ==
    ASSUME PagesOK, NEW t \in Threads, Acts(t), SynchronizeFails(t)
    PROVE  /\ DOMAIN page' = Pages /\ \A p \in Pages : Steady(page[p], page'[p])
           /\ \A k \in call[t].candidates : StillFrozen(k) => ~page'[k.page].evicting
           /\ call'[t].candidates = {}
<1> DEFINE c == call[t]
           S(p) == \E k \in c.candidates : k.page = p /\ StillFrozen(k)
<1>1. /\ page' = [p \in Pages |-> IF S(p) THEN Canceled(page[p]) ELSE page[p]]
      /\ call' = [call EXCEPT ![t] = Stopped(c, c.need)]
      /\ c.pc \in {"freeze", "sync", "commit", "drain", "redrain"}
  BY DEF SynchronizeFails
<1>2. ASSUME NEW p \in Pages
      PROVE  Steady(page[p], page'[p]) /\ (S(p) => ~page'[p].evicting)
  <2>1. IsPage(page[p])
    BY DEF PagesOK
  <2> QED
    BY <1>1, <2>1, CanceledPage, SteadySame DEF Steady
<1>3. ASSUME NEW k \in c.candidates, StillFrozen(k) PROVE ~page'[k.page].evicting
  <2>1. k.page \in Pages /\ S(k.page)
    BY <1>3 DEF Acts, CallOK
  <2> QED
    BY <1>2, <2>1
<1>4. call'[t].candidates = {}
  <2>1. call'[t] = Stopped(c, c.need)
    BY <1>1 DEF Acts
  <2> QED
    BY <1>1, <2>1, StoppedOK DEF Acts
<1> QED
  BY <1>1, <1>2, <1>3, <1>4

\* A fault that maps a page maps one that was not: it alone has had the lock since
\* it looked at the page.
FaultsOK ==
    \A t \in Threads : Faulting(call[t]) /\ call[t].tries > 0 =>
       call[t].at <= call[t].last /\ ~IsMapped(page[FaultPage(t)])

\* The three ways a step of a fault ends: it pins its page and goes on, ...
FaultPasses(t) ==
    LET p == FaultPage(t)  r == page[p]  s == page'[p] IN
    /\ call'[t] = Advanced(call[t]) /\ lock' = lock
    /\ \A q \in Pages \ {p} : page'[q] = page[q]
    /\ IsPage(s) /\ Thaws(r, s) /\ ~s.evicting
    /\ s.pin = r.pin + 1 /\ s.external = r.external /\ s.capture = r.capture
    /\ IsMapped(s) /\ (IsMapped(r) => Keeps(r, s))

\* ... it tries again, ...
FaultRetries(t) ==
    LET p == FaultPage(t)  r == page[p]  s == page'[p] IN
    /\ \A f \in {"at", "vbar", "first", "last"} : call'[t][f] = call[t][f]
    /\ call'[t].kind # "free" /\ call'[t].candidates = {} /\ lock' = lock
    /\ \A q \in Pages \ {p} : page'[q] = page[q]
    /\ IsPage(s) /\ SameOwners(r, s) /\ Thaws(r, s) /\ ~IsMapped(r)
    /\ ~IsMapped(s)

\* ... or it gives up.
FaultStops(t) ==
    /\ call'[t] = NoCall /\ lock' = NoThread
    /\ \A q \in Pages :
          LET r == page[q]  s == page'[q] IN
          /\ IsPage(s) /\ Thaws(r, s) /\ (IsMapped(r) => Keeps(r, s))
          /\ s.pin = IF q \in FaultRange(t) /\ r.pin > 0 THEN r.pin - 1 ELSE r.pin
          /\ s.external = r.external /\ s.capture = r.capture

\* A fault at a page has the lock, and its page is one of the table.
LEMMA AtPageFacts ==
    ASSUME NEW t \in Threads, Acts(t), AtPage(t), VbarAssumption
    PROVE  /\ call[t].pc = "page" /\ call[t].kind = "none" /\ call[t].then = "idle" /\ lock = t
           /\ FaultPage(t) \in Pages /\ call[t].candidates = {}
           /\ FaultRange(t) = {call[t].vbar} \X (call[t].first..(call[t].at - 1))
<1>1. call[t].pc = "page" /\ lock = t /\ call[t].kind = "none" /\ call[t].then = "idle"
  BY DEF AtPage, Acts, CallOK, Faulting, Reclaims, Closing
<1>2. call[t].vbar \in Vbars /\ call[t].at \in 1..NPages
  BY <1>1 DEF AtPage, Acts, CallOK, Faulting, VbarAssumption
<1>3. call[t].candidates = {}
  BY <1>1 DEF Acts, CallOK
<1> QED
  BY <1>1, <1>2, <1>3 DEF FaultPage, Pages, FaultRange

\* A fault that gives up takes back the pins of the pages it has passed.
LEMMA GivesUpPages ==
    ASSUME PagesOK, NEW t \in Threads, Acts(t), AtPage(t), VbarAssumption, NEW P, GiveUp(t, P),
           DOMAIN P = Pages,
           \A q \in Pages : /\ IsPage(P[q]) /\ SameOwners(page[q], P[q]) /\ Thaws(page[q], P[q])
                            /\ IsMapped(page[q]) => Keeps(page[q], P[q])
    PROVE  FaultStops(t) /\ DOMAIN page' = Pages
<1>1. page' = Unpinned(call[t], P) /\ call'[t] = NoCall /\ lock' = NoThread
  BY DEF GiveUp, Acts
<1>2. FaultRange(t) = {call[t].vbar} \X (call[t].first..(call[t].at - 1))
  BY AtPageFacts
<1>3. /\ DOMAIN page' = Pages
      /\ \A q \in Pages : page'[q] = IF q \in FaultRange(t) /\ P[q].pin > 0
                                     THEN [P[q] EXCEPT !.pin = @ - 1] ELSE P[q]
  BY <1>1, <1>2 DEF Unpinned
<1>4. ASSUME NEW q \in Pages
      PROVE  LET r == page[q]  s == page'[q] IN
             /\ IsPage(s) /\ Thaws(r, s) /\ (IsMapped(r) => Keeps(r, s))
             /\ s.pin = IF q \in FaultRange(t) /\ r.pin > 0 THEN r.pin - 1 ELSE r.pin
             /\ s.external = r.external /\ s.capture = r.capture
  <2> DEFINE r == page[q]
             m == P[q]
             s == page'[q]
  <2>1. /\ IsPage(r) /\ IsPage(m) /\ SameOwners(r, m) /\ Thaws(r, m)
        /\ IsMapped(r) => Keeps(r, m)
    BY DEF PagesOK
  <2>2. s = IF q \in FaultRange(t) /\ m.pin > 0 THEN [m EXCEPT !.pin = @ - 1] ELSE m
    BY <1>3
  <2> HIDE DEF r, m, s
  <2>3. CASE q \in FaultRange(t) /\ m.pin > 0
    <3>1. s = WithPins(m, m.pin - 1) /\ m.pin - 1 \in Nat
      BY <2>1, <2>2, <2>3 DEF WithPins, IsPage
    <3>2. IsPage(s) /\ Thaws(m, s) /\ Keeps(m, s)
      BY <2>1, <3>1, CountedPage
    <3>3. s.pin = m.pin - 1 /\ s.external = m.external /\ s.capture = m.capture
      BY <2>1, <3>1, PageCounts
    <3>4. Thaws(r, s) /\ (IsMapped(r) => Keeps(r, s))
      BY <2>1, <3>2 DEF Thaws, Keeps, IsPage
    <3> QED
      BY <2>1, <2>3, <3>2, <3>3, <3>4 DEF SameOwners, r, s
  <2>4. CASE ~(q \in FaultRange(t) /\ m.pin > 0)
    <3>1. s = m
      BY <2>2, <2>4
    <3> QED
      BY <2>1, <2>4, <3>1 DEF SameOwners, r, s
  <2> QED
    BY <2>3, <2>4
<1> QED
  BY <1>1, <1>3, <1>4 DEF FaultStops

\* A page that is mapped is pinned and passed.
LEMMA FaultHitPages ==
    ASSUME PagesOK, NEW t \in Threads, Acts(t), VbarAssumption, FaultHit(t)
    PROVE  FaultPasses(t) /\ DOMAIN page' = Pages
<1> DEFINE p == FaultPage(t)
<1>1. /\ AtPage(t) /\ IsMapped(page[p]) /\ page' = [page EXCEPT ![p] = Pinned(@)]
      /\ call' = [call EXCEPT ![t] = Advanced(@)] /\ lock' = lock
  BY DEF FaultHit
<1>2. p \in Pages /\ IsPage(page[p]) /\ DOMAIN page = Pages
  BY <1>1, AtPageFacts DEF PagesOK
<1>3. /\ DOMAIN page' = Pages /\ page'[p] = Pinned(page[p])
      /\ \A q \in Pages \ {p} : page'[q] = page[q]
  BY <1>1, <1>2
<1>4. call'[t] = Advanced(call[t])
  BY <1>1 DEF Acts
<1> HIDE DEF p
<1>5. /\ IsPage(page'[p]) /\ Thaws(page[p], page'[p]) /\ Keeps(page[p], page'[p])
      /\ ~page'[p].evicting /\ page'[p].pin = page[p].pin + 1
      /\ page'[p].external = page[p].external /\ page'[p].capture = page[p].capture
  BY <1>2, <1>3, PinnedPage
<1>6. IsMapped(page'[p])
  BY <1>1, <1>5 DEF Keeps
<1> QED
  BY <1>1, <1>3, <1>4, <1>5, <1>6 DEF FaultPasses, p

\* A page whose mapping nobody knows ends the fault.
LEMMA FaultUnknownPages ==
    ASSUME PagesOK, NEW t \in Threads, Acts(t), VbarAssumption, FaultUnknown(t)
    PROVE  FaultStops(t) /\ DOMAIN page' = Pages
<1>1. AtPage(t) /\ GiveUp(t, page) /\ DOMAIN page = Pages
  BY DEF FaultUnknown, PagesOK
<1>2. \A q \in Pages : Steady(page[q], page[q]) /\ IsPage(page[q])
  BY SteadySame DEF PagesOK
<1> QED
  BY <1>1, <1>2, GivesUpPages DEF Steady

\* A page on its way to be mapped: the outcome is pinned, or given up.
LEMMA OutcomePages ==
    ASSUME PagesOK, NEW t \in Threads, Acts(t), VbarAssumption, AtPage(t), ~IsMapped(page[FaultPage(t)]),
           NEW s, IsPage(s), SameOwners(page[FaultPage(t)], s), Thaws(page[FaultPage(t)], s)
    PROVE  /\ IsMapped(s) /\ call' = [call EXCEPT ![t] = Advanced(@)] /\ lock' = lock
              /\ (page' = [page EXCEPT ![FaultPage(t)] = Pinned(s)] \/
                  page' = [page EXCEPT ![FaultPage(t)] = PagedIn(s)])
              => FaultPasses(t) /\ DOMAIN page' = Pages
           /\ GiveUp(t, [page EXCEPT ![FaultPage(t)] = s]) => FaultStops(t) /\ DOMAIN page' = Pages
<1> DEFINE p == FaultPage(t)
           r == page[p]
<1>1. p \in Pages /\ IsPage(r) /\ DOMAIN page = Pages
  BY AtPageFacts DEF PagesOK
<1>2. ASSUME IsMapped(s), call' = [call EXCEPT ![t] = Advanced(@)], lock' = lock, NEW x,
             x = Pinned(s) \/ x = PagedIn(s), page' = [page EXCEPT ![p] = x]
      PROVE  FaultPasses(t) /\ DOMAIN page' = Pages
  <2>1. /\ DOMAIN page' = Pages /\ page'[p] = x /\ \A q \in Pages \ {p} : page'[q] = page[q]
        /\ call'[t] = Advanced(call[t])
    BY <1>1, <1>2 DEF Acts
  <2>2. /\ IsPage(x) /\ Thaws(s, x) /\ Keeps(s, x) /\ ~x.evicting
        /\ x.pin = s.pin + 1 /\ x.external = s.external /\ x.capture = s.capture
    BY <1>2, PinnedPage, PagedInPage
  <2> HIDE DEF r
  <2>3. Thaws(r, x) /\ x.pin = r.pin + 1 /\ x.external = r.external /\ x.capture = r.capture
    BY <1>1, <2>2 DEF Thaws, SameOwners, IsPage, r
  <2>4. IsMapped(x)
    BY <1>2, <2>2 DEF Keeps
  <2> QED
    BY <1>2, <2>1, <2>2, <2>3, <2>4 DEF FaultPasses, r
<1>3. ASSUME GiveUp(t, [page EXCEPT ![p] = s]) PROVE FaultStops(t) /\ DOMAIN page' = Pages
  <2> DEFINE P == [page EXCEPT ![p] = s]
  <2>1. DOMAIN P = Pages /\ P[p] = s /\ \A q \in Pages \ {p} : P[q] = page[q]
    BY <1>1
  <2>2. ASSUME NEW q \in Pages
        PROVE  /\ IsPage(P[q]) /\ SameOwners(page[q], P[q]) /\ Thaws(page[q], P[q])
               /\ IsMapped(page[q]) => Keeps(page[q], P[q])
    <3> HIDE DEF P, p
    <3>1. CASE q = p
      BY <2>1, <3>1 DEF p
    <3>2. CASE q # p
      <4>1. IsPage(page[q]) /\ P[q] = page[q]
        BY <2>1, <3>2 DEF PagesOK
      <4> QED
        BY <4>1, SteadySame DEF Steady
    <3> QED
      BY <3>1, <3>2
  <2>3. GiveUp(t, P)
    BY <1>3
  <2> HIDE DEF P
  <2> QED
    BY <2>1, <2>2, <2>3, GivesUpPages
<1> QED
  BY <1>2, <1>3

\* A page that kept its handle is mapped again and passed, or ends the fault.
LEMMA FaultRestorePages ==
    ASSUME PagesOK, NEW t \in Threads, Acts(t), VbarAssumption, FaultRestore(t)
    PROVE  (FaultPasses(t) \/ FaultStops(t)) /\ DOMAIN page' = Pages
<1> DEFINE p == FaultPage(t)
<1>1. AtPage(t) /\ page[p].handle /\ ~IsMapped(page[p])
  BY DEF FaultRestore, IsMapped
<1>2. PICK o \in Restored(page[p], 1) :
         \/ /\ o.result = "ok"
            /\ page' = [page EXCEPT ![p] = Pinned(o.page)]
            /\ call' = [call EXCEPT ![t] = Advanced(@)] /\ lock' = lock
         \/ GiveUp(t, [page EXCEPT ![p] = o.page])
  BY DEF FaultRestore
<1>3. p \in Pages /\ IsPage(page[p])
  BY <1>1, AtPageFacts DEF PagesOK
<1>4. /\ IsPage(o.page) /\ SameOwners(page[p], o.page) /\ Thaws(page[p], o.page)
      /\ o.result = "ok" => IsMapped(o.page)
  BY <1>1, <1>3, RestoredPage
<1>5. CASE /\ o.result = "ok"
           /\ page' = [page EXCEPT ![p] = Pinned(o.page)]
           /\ call' = [call EXCEPT ![t] = Advanced(@)] /\ lock' = lock
  BY <1>1, <1>4, <1>5, OutcomePages
<1>6. CASE GiveUp(t, [page EXCEPT ![p] = o.page])
  BY <1>1, <1>4, <1>6, OutcomePages
<1> QED
  BY <1>2, <1>5, <1>6

\* A fault that reclaims, or is about to map its page, is still at that page.
LEMMA RetriesCall ==
    ASSUME NEW t \in Threads, Acts(t), VbarAssumption, AtPage(t), NEW a, IsCall(a), Retries(a, call'[t]),
           \A f \in {"at", "vbar", "first", "last", "kind", "candidates"} : a[f] = call[t][f]
    PROVE  /\ \A f \in {"at", "vbar", "first", "last"} : call'[t][f] = call[t][f]
           /\ call'[t].kind # "free" /\ call'[t].candidates = {}
<1>1. a.kind = "none" /\ a.candidates = {}
  BY AtPageFacts
<1>2. CASE call'[t] = a
  BY <1>1, <1>2
<1>3. ASSUME NEW need, NEW keep, call'[t] = Reclaim(a, need, keep, "page")
      PROVE  /\ \A f \in {"at", "vbar", "first", "last"} : call'[t][f] = call[t][f]
             /\ call'[t].kind # "free" /\ call'[t].candidates = {}
  <2>1. CASE need > 0 /\ async
    <3>1. call'[t] = [a EXCEPT !.pc = "snapshot", !.kind = "retired", !.need = need,
                               !.keep = keep, !.then = "page"]
      BY <1>3, <2>1 DEF Reclaim
    <3> QED
      BY <1>1, <3>1 DEF IsCall, CallFields
  <2>2. CASE ~(need > 0 /\ async)
    <3>1. call'[t] = [a EXCEPT !.pc = "page"]
      BY <1>3, <2>2 DEF Reclaim
    <3> QED
      BY <1>1, <3>1 DEF IsCall, CallFields
  <2> QED
    BY <2>1, <2>2
<1> QED
  BY <1>2, <1>3 DEF Retries

\* The check of the capacity touches no page.
LEMMA FaultMissPages ==
    ASSUME PagesOK, NEW t \in Threads, Acts(t), VbarAssumption, FaultMiss(t)
    PROVE  FaultRetries(t) /\ page' = page
<1> DEFINE c == call[t]
           a == [c EXCEPT !.tries = 1, !.checked = TRUE]
           missing == total + (c.last - c.at + 1) - Capacity
<1>1. /\ AtPage(t) /\ ~IsMapped(page[FaultPage(t)]) /\ page' = page /\ lock' = lock
      /\ call'[t] = a \/ call'[t] = Reclaim(a, missing, NoVbar, "page")
  BY DEF FaultMiss, IsMapped, memory, Acts
<1>2. /\ IsCall(a)
      /\ \A f \in {"at", "vbar", "first", "last", "kind", "candidates"} : a[f] = call[t][f]
  BY DEF Acts, CallOK, IsCall, CallFields
<1>3. Retries(a, call'[t])
  BY <1>1 DEF Retries
<1> HIDE DEF a
<1>4. /\ \A f \in {"at", "vbar", "first", "last"} : call'[t][f] = call[t][f]
      /\ call'[t].kind # "free" /\ call'[t].candidates = {}
  BY <1>1, <1>2, <1>3, RetriesCall
<1>5. FaultPage(t) \in Pages /\ IsPage(page[FaultPage(t)])
  BY <1>1, AtPageFacts DEF PagesOK
<1> QED
  BY <1>1, <1>4, <1>5, SteadySame DEF FaultRetries, Steady

\* A page is mapped and passed, tried again, or ends the fault.
LEMMA FaultMapPages ==
    ASSUME PagesOK, FaultsOK, NEW t \in Threads, Acts(t), VbarAssumption,
           NEW deficit \in 0..MaxNeed, FaultMap(t, deficit)
    PROVE  (FaultPasses(t) \/ FaultRetries(t) \/ FaultStops(t)) /\ DOMAIN page' = Pages
<1> DEFINE c == call[t]
           p == FaultPage(t)
           a == [c EXCEPT !.tries = @ + 1]
           After(need) == IF c.tries = 1 THEN Reclaim(a, need, c.vbar, "page")
                                         ELSE Reclaim(a, ReclaimFloor, NoVbar, "page")
<1>1. AtPage(t) /\ c.tries > 0
  BY DEF FaultMap
<1>2. /\ p \in Pages /\ IsPage(page[p]) /\ ~IsMapped(page[p]) /\ DOMAIN page = Pages
      /\ \A q \in Pages : IsPage(page[q])
  BY <1>1, AtPageFacts DEF PagesOK, FaultsOK, Faulting
<1>3. /\ IsCall(a)
      /\ \A f \in {"at", "vbar", "first", "last", "kind", "candidates"} : a[f] = call[t][f]
  BY DEF Acts, CallOK, IsCall, CallFields
<1>4. ASSUME NEW need, call' = [call EXCEPT ![t] = After(need)], lock' = lock, NEW s, IsPage(s),
             SameOwners(page[p], s), Thaws(page[p], s), ~IsMapped(s),
             DOMAIN page' = Pages, page'[p] = s, \A q \in Pages \ {p} : page'[q] = page[q]
      PROVE  FaultRetries(t)
  <2>1. call'[t] = After(need)
    BY <1>4 DEF Acts
  <2>2. Retries(a, call'[t])
    BY <2>1 DEF Retries
  <2> HIDE DEF a, After
  <2>3. /\ \A f \in {"at", "vbar", "first", "last"} : call'[t][f] = call[t][f]
        /\ call'[t].kind # "free" /\ call'[t].candidates = {}
    BY <1>1, <1>3, <2>2, RetriesCall
  <2> QED
    BY <1>2, <1>4, <2>3 DEF FaultRetries
<1>5. CASE deficit > 0
  <2>1. call' = [call EXCEPT ![t] = After(deficit)] /\ lock' = lock /\ page' = page
    BY <1>5 DEF FaultMap
  <2>2. SameOwners(page[p], page[p]) /\ Thaws(page[p], page[p])
    BY <1>2, SteadySame DEF Steady
  <2> HIDE DEF After, p
  <2> QED
    BY <1>2, <1>4, <2>1, <2>2
<1>6. CASE ~(deficit > 0)
  <2>1. PICK o \in MappedNew(page[p]) :
           \/ /\ o.result = "ok"
              /\ page' = [page EXCEPT ![p] = PagedIn(o.page)]
              /\ call' = [call EXCEPT ![t] = Advanced(@)] /\ lock' = lock
           \/ /\ o.result # "ok"
              /\ page' = [page EXCEPT ![p] = o.page]
              /\ call' = [call EXCEPT ![t] = After(1)] /\ lock' = lock
           \/ GiveUp(t, [page EXCEPT ![p] = o.page])
    BY <1>6 DEF FaultMap
  <2>2. /\ IsPage(o.page) /\ SameOwners(page[p], o.page) /\ Thaws(page[p], o.page)
        /\ o.result = "ok" => IsMapped(o.page)
        /\ o.result # "ok" => ~IsMapped(o.page)
    BY <1>2, MappedNewPage
  <2>3. CASE /\ o.result = "ok"
             /\ page' = [page EXCEPT ![p] = PagedIn(o.page)]
             /\ call' = [call EXCEPT ![t] = Advanced(@)] /\ lock' = lock
    BY <1>1, <1>2, <2>2, <2>3, OutcomePages
  <2>4. CASE /\ o.result # "ok"
             /\ page' = [page EXCEPT ![p] = o.page]
             /\ call' = [call EXCEPT ![t] = After(1)] /\ lock' = lock
    <3>1. DOMAIN page' = Pages /\ page'[p] = o.page /\ \A q \in Pages \ {p} : page'[q] = page[q]
      BY <1>2, <2>4
    <3> HIDE DEF After, p
    <3> QED
      BY <1>4, <2>2, <2>4, <3>1
  <2>5. CASE GiveUp(t, [page EXCEPT ![p] = o.page])
    BY <1>1, <1>2, <2>2, <2>5, OutcomePages
  <2> QED
    BY <2>1, <2>3, <2>4, <2>5
<1> QED
  BY <1>5, <1>6

\* A fault that returns only marks its pages as filled.
LEMMA ReturnFaultPages ==
    ASSUME PagesOK, NEW t \in Threads, ReturnFault(t)
    PROVE  DOMAIN page' = Pages /\ \A p \in Pages : Steady(page[p], page'[p])
<1> DEFINE Filled(r) == IF r.known = r.serial THEN r
                        ELSE [r EXCEPT !.known = r.serial, !.content = TRUE]
<1>1. PICK R : page' = [p \in Pages |-> IF p \in R THEN Filled(page[p]) ELSE page[p]]
  BY DEF ReturnFault
<1>2. ASSUME NEW p \in Pages PROVE Steady(page[p], page'[p])
  <2> DEFINE r == page[p]
             s == page'[p]
  <2>1. IsPage(r) /\ (s = r \/ s = [r EXCEPT !.known = r.serial, !.content = TRUE])
    BY <1>1 DEF PagesOK
  <2> HIDE DEF r, s
  <2>2. CASE s = r
    BY <2>1, <2>2, SteadySame DEF r, s
  <2>3. CASE s = [r EXCEPT !.known = r.serial, !.content = TRUE]
    <3>1. IsPage(s)
      BY <2>1, <2>3 DEF IsPage, PageFields
    <3>2. SameOwners(r, s) /\ Thaws(r, s) /\ Keeps(r, s)
      BY <2>1, <2>3 DEF IsPage, PageFields, SameOwners, Thaws, Keeps, IsMapped
    <3> QED
      BY <3>1, <3>2 DEF Steady, r, s
  <2> QED
    BY <2>1, <2>2, <2>3
<1> QED
  BY <1>1, <1>2

\* Registering a stream records a token and gives the pages back.
LEMMA RegisterPages ==
    ASSUME PagesOK, NEW t \in Threads, Acts(t), Register(t)
    PROVE  DOMAIN page' = Pages /\ \A p \in Pages : Steady(page[p], page'[p])
<1> DEFINE token == call[t].token
<1>1. token \in TokenRecords /\ async \in BOOLEAN
  BY DEF Register, Acts, CallOK, Consumes
<1>2. PICK R : page' = [p \in Pages |-> IF p \in R /\ IsMapped(page[p]) /\ page[p].pin > 0
                                        THEN Depends(page[p], token) ELSE page[p]]
  BY DEF Register
<1> HIDE DEF token
<1>3. ASSUME NEW p \in Pages PROVE Steady(page[p], page'[p])
  <2>1. IsPage(page[p])
    BY DEF PagesOK
  <2>2. page'[p] = page[p] \/ page'[p] = Depends(page[p], token)
    BY <1>2
  <2> QED
    BY <1>1, <2>1, <2>2, SteadySame, DependsPage DEF Steady
<1> QED
  BY <1>2, <1>3

\* An unpin takes one pin from each page of the lease, and from no other.
LEMMA UnpinPages ==
    ASSUME PagesOK, NEW t \in Threads, Acts(t), Unpin(t)
    PROVE  /\ DOMAIN page' = Pages
           /\ \A p \in Pages :
                LET r == page[p]  s == page'[p] IN
                /\ IsPage(s) /\ Thaws(r, s) /\ Keeps(r, s)
                /\ s.external = r.external /\ s.capture = r.capture
                /\ s.pin = IF p \in RangePages(lease[t]) /\ r.pin > 0 THEN r.pin - 1 ELSE r.pin
<1> DEFINE token == call[t].token
<1>1. token \in TokenRecords /\ async \in BOOLEAN
  BY DEF Unpin, Acts, CallOK, Consumes
<1>2. page' = [p \in Pages |->
          IF p \in RangePages(lease[t]) /\ page[p].pin > 0
          THEN [Depends(page[p], token) EXCEPT !.pin = @ - 1] ELSE page[p]]
  BY DEF Unpin
<1> HIDE DEF token
<1>3. ASSUME NEW p \in Pages
      PROVE  LET r == page[p]  s == page'[p] IN
             /\ IsPage(s) /\ Thaws(r, s) /\ Keeps(r, s)
             /\ s.external = r.external /\ s.capture = r.capture
             /\ s.pin = IF p \in RangePages(lease[t]) /\ r.pin > 0 THEN r.pin - 1 ELSE r.pin
  <2> DEFINE r == page[p]
             s == page'[p]
             d == Depends(r, token)
  <2>1. IsPage(r)
    BY DEF PagesOK
  <2>2. CASE p \in RangePages(lease[t]) /\ r.pin > 0
    <3>1. s = [d EXCEPT !.pin = @ - 1]
      BY <1>2, <2>2
    <3> HIDE DEF r, s
    <3>2. IsPage(d) /\ SameOwners(r, d) /\ Thaws(r, d) /\ Keeps(r, d) /\ ~d.evicting
      BY <1>1, <2>1, DependsPage
    <3> HIDE DEF d
    <3>3. d.pin - 1 \in Nat /\ s = WithPins(d, d.pin - 1)
      BY <2>2, <3>1, <3>2 DEF IsPage, SameOwners, WithPins
    <3>4. IsPage(s) /\ Thaws(r, s) /\ Keeps(r, s)
      BY <2>1, <3>2, <3>3, LetGoPage
    <3>5. s.pin = d.pin - 1 /\ s.external = d.external /\ s.capture = d.capture
      BY <3>2, <3>3, PageCounts
    <3> QED
      BY <2>2, <3>2, <3>4, <3>5 DEF SameOwners, r, s
  <2>3. CASE ~(p \in RangePages(lease[t]) /\ r.pin > 0)
    <3>1. s = r
      BY <1>2, <2>3
    <3> HIDE DEF r, s
    <3> QED
      BY <2>1, <2>3, <3>1, SteadySame DEF Steady, r, s
  <2> QED
    BY <2>2, <2>3
<1> QED
  BY <1>2, <1>3

\* A hold of kind adds to one of the two counts of a page, as n says.
CountsHold(r, s, kind, n) ==
    /\ s.pin = r.pin
    /\ s.external = IF kind = "external" THEN n ELSE r.external
    /\ s.capture = IF kind = "external" THEN r.capture ELSE n

\* A hold adds one to its count of each page of its range, all of them mapped.
LEMMA AcquirePages ==
    ASSUME PagesOK, NEW t \in Threads, NEW R, Acquire(t, R)
    PROVE  /\ DOMAIN page' = Pages
           /\ \A p \in Pages :
                LET r == page[p]  s == page'[p] IN
                /\ IsPage(s) /\ Thaws(r, s) /\ Keeps(r, s)
                /\ p \notin RangePages(R) => s = r
                /\ p \in RangePages(R) =>
                      /\ CountsHold(r, s, R.kind, Holds(r, R.kind) + 1)
                      /\ IsMapped(r) /\ ~s.evicting
<1>1. /\ page' = [p \in Pages |->
             IF p \in RangePages(R)
             THEN WithHolds(Canceled(page[p]), R.kind, Holds(page[p], R.kind) + 1)
             ELSE page[p]]
      /\ \A p \in RangePages(R) : IsMapped(page[p])
  BY DEF Acquire
<1>2. ASSUME NEW p \in Pages
      PROVE  LET r == page[p]  s == page'[p] IN
             /\ IsPage(s) /\ Thaws(r, s) /\ Keeps(r, s)
             /\ p \notin RangePages(R) => s = r
             /\ p \in RangePages(R) =>
                   /\ CountsHold(r, s, R.kind, Holds(r, R.kind) + 1)
                   /\ IsMapped(r) /\ ~s.evicting
  <2> DEFINE r == page[p]
             s == page'[p]
             n == Holds(r, R.kind) + 1
  <2>1. IsPage(r)
    BY DEF PagesOK
  <2>2. CASE p \in RangePages(R)
    <3>1. s = WithHolds(Canceled(r), R.kind, n) /\ IsMapped(r)
      BY <1>1, <2>2
    <3>2. n \in Nat
      BY <2>1 DEF IsPage, Holds
    <3> HIDE DEF r, s, n
    <3>3. /\ IsPage(Canceled(r)) /\ SameOwners(r, Canceled(r)) /\ Thaws(r, Canceled(r))
          /\ Keeps(r, Canceled(r)) /\ ~Canceled(r).evicting
      BY <2>1, CanceledPage
    <3>4. IsPage(s) /\ Thaws(r, s) /\ Keeps(r, s) /\ ~s.evicting
      BY <2>1, <3>1, <3>2, <3>3, LetGoPage
    <3>5. CountsHold(r, s, R.kind, n)
      BY <3>1, <3>3, PageCounts DEF CountsHold, SameOwners
    <3> QED
      BY <2>2, <3>1, <3>4, <3>5 DEF r, s, n
  <2>3. CASE p \notin RangePages(R)
    <3>1. s = r
      BY <1>1, <2>3
    <3> HIDE DEF r, s
    <3> QED
      BY <2>1, <2>3, <3>1, SteadySame DEF Steady, r, s
  <2> QED
    BY <2>2, <2>3
<1> QED
  BY <1>1, <1>2

\* A release takes that one away again.
LEMMA ReleasePages ==
    ASSUME PagesOK, NEW t \in Threads, Acts(t), Release(t)
    PROVE  /\ DOMAIN page' = Pages
           /\ \A p \in Pages :
                LET r == page[p]  s == page'[p]  R == hold[t] IN
                /\ IsPage(s) /\ Thaws(r, s) /\ Keeps(r, s)
                /\ p \notin RangePages(R) => s = r
                /\ p \in RangePages(R) =>
                      /\ CountsHold(r, s, R.kind, Holds(r, R.kind) - 1)
                      /\ IsMapped(r) /\ ~s.evicting
<1> DEFINE R == hold[t]
           token == call[t].token
           Let(r) == IF token.queue = NoQueue THEN [Canceled(r) EXCEPT !.unknown = TRUE]
                                              ELSE Depends(r, token)
<1>1. token \in TokenRecords /\ async \in BOOLEAN
  BY DEF Release, Acts, CallOK, Consumes
<1>2. /\ page' = [p \in Pages |->
             IF p \in RangePages(R)
             THEN WithHolds(Let(page[p]), R.kind, Holds(page[p], R.kind) - 1)
             ELSE page[p]]
      /\ \A p \in RangePages(R) : IsMapped(page[p]) /\ Holds(page[p], R.kind) > 0
  BY DEF Release
<1>3. ASSUME NEW r, IsPage(r)
      PROVE  /\ IsPage(Let(r)) /\ SameOwners(r, Let(r)) /\ Thaws(r, Let(r))
             /\ Keeps(r, Let(r)) /\ ~Let(r).evicting
  <2>1. CASE token.queue = NoQueue
    <3> DEFINE d == Canceled(r)
               s == Let(r)
    <3>1. IsPage(d) /\ SameOwners(r, d) /\ Thaws(r, d) /\ Keeps(r, d) /\ ~d.evicting
      BY <1>3, CanceledPage
    <3>2. s = [d EXCEPT !.unknown = TRUE]
      BY <2>1
    <3> HIDE DEF d, s
    <3>3. IsPage(s) /\ ~s.evicting
      BY <3>1, <3>2 DEF IsPage, PageFields
    <3>4. SameOwners(d, s) /\ Thaws(d, s) /\ Keeps(d, s)
      BY <3>1, <3>2 DEF IsPage, PageFields, SameOwners, Thaws, Keeps, IsMapped
    <3>5. SameOwners(r, s) /\ Thaws(r, s) /\ Keeps(r, s)
      BY <1>3, <3>1, <3>3, <3>4 DEF SameOwners, Thaws, Keeps, IsPage
    <3> QED
      BY <3>3, <3>5 DEF s
  <2>2. CASE token.queue # NoQueue
    <3>1. Let(r) = Depends(r, token)
      BY <2>2
    <3> HIDE DEF Let, token
    <3> QED
      BY <1>1, <1>3, <3>1, DependsPage
  <2> QED
    BY <2>1, <2>2
<1>4. ASSUME NEW p \in Pages
      PROVE  LET r == page[p]  s == page'[p] IN
             /\ IsPage(s) /\ Thaws(r, s) /\ Keeps(r, s)
             /\ p \notin RangePages(R) => s = r
             /\ p \in RangePages(R) =>
                   /\ CountsHold(r, s, R.kind, Holds(r, R.kind) - 1)
                   /\ IsMapped(r) /\ ~s.evicting
  <2> DEFINE r == page[p]
             s == page'[p]
             n == Holds(r, R.kind) - 1
             d == Let(r)
  <2>1. IsPage(r)
    BY DEF PagesOK
  <2>2. CASE p \in RangePages(R)
    <3>1. s = WithHolds(d, R.kind, n) /\ IsMapped(r)
      BY <1>2, <2>2
    <3>2. n \in Nat
      BY <1>2, <2>1, <2>2 DEF IsPage, Holds
    <3>3. IsPage(d) /\ SameOwners(r, d) /\ Thaws(r, d) /\ Keeps(r, d) /\ ~d.evicting
      BY <1>3, <2>1
    <3> HIDE DEF r, s, n, d
    <3>4. IsPage(s) /\ Thaws(r, s) /\ Keeps(r, s) /\ ~s.evicting
      BY <2>1, <3>1, <3>2, <3>3, LetGoPage
    <3>5. CountsHold(r, s, R.kind, n)
      BY <3>1, <3>3, PageCounts DEF CountsHold, SameOwners
    <3> QED
      BY <2>2, <3>1, <3>4, <3>5 DEF r, s, n
  <2>3. CASE p \notin RangePages(R)
    <3>1. s = r
      BY <1>2, <2>3
    <3> HIDE DEF r, s
    <3> QED
      BY <2>1, <2>3, <3>1, SteadySame DEF Steady, r, s
  <2> QED
    BY <2>2, <2>3
<1> QED
  BY <1>2, <1>4

\* A page of the teardown is given back, or not touched, or only given back by the
\* reclaim that had frozen it.
LEMMA TeardownPages ==
    ASSUME PagesOK, NEW t \in Threads, Acts(t), VbarAssumption, TeardownPage(t)
    PROVE  LET p == <<call[t].vbar, call[t].at>>  r == page[p]  s == page'[p] IN
           /\ p \in Pages /\ DOMAIN page' = Pages
           /\ \A q \in Pages \ {p} : page'[q] = page[q]
           /\ IsPage(s) /\ SameOwners(r, s) /\ Thaws(r, s)
           /\ call'[t] # NoCall => ~s.evicting
           /\ Keeps(r, s) \/ (~Busy(call[t].vbar, call[t].at) /\ ~s.evicting)
<1> DEFINE c == call[t]
           p == <<c.vbar, c.at>>
           r == page[p]
           s == page'[p]
<1>1. c.pc = "teardown" /\ p \in Pages /\ IsPage(r) /\ DOMAIN page = Pages
  <2>1. c.pc = "teardown" /\ c.at \in 1..NPages /\ c.vbar \in Vbars
    BY DEF TeardownPage, Acts, CallOK, Closing, VbarAssumption
  <2> QED
    BY <2>1 DEF PagesOK, Pages
<1>2. CASE Busy(c.vbar, c.at)
  <2>1. page' = page /\ call' = [call EXCEPT ![t] = NoCall]
    BY <1>2 DEF TeardownPage
  <2>2. call'[t] = NoCall
    BY <2>1 DEF Acts
  <2>3. SameOwners(r, r) /\ Thaws(r, r) /\ Keeps(r, r)
    BY <1>1, SteadySame DEF Steady
  <2> QED
    BY <1>1, <1>2, <2>1, <2>2, <2>3
<1>3. CASE ~Busy(c.vbar, c.at)
  <2> DEFINE d == Canceled(r)
  <2>1. PICK x : page' = [page EXCEPT ![p] = x] /\ (x = d \/ \E o \in Released(d) : IsMapped(d) /\ x = o.page)
    BY <1>3 DEF TeardownPage
  <2>2. s = x /\ DOMAIN page' = Pages /\ \A q \in Pages \ {p} : page'[q] = page[q]
    BY <1>1, <2>1
  <2>3. IsPage(d) /\ SameOwners(r, d) /\ Thaws(r, d) /\ Keeps(r, d) /\ ~d.evicting
    BY <1>1, CanceledPage
  <2> HIDE DEF d, r, s
  <2>4. IsPage(x) /\ SameOwners(d, x) /\ Thaws(d, x) /\ ~x.evicting
    <3>1. CASE x = d
      BY <2>3, <3>1, SteadySame DEF Steady
    <3>2. ASSUME NEW o \in Released(d), IsMapped(d), x = o.page
          PROVE IsPage(x) /\ SameOwners(d, x) /\ Thaws(d, x) /\ ~x.evicting
      BY <2>3, <3>2, ReleasedPage
    <3> QED
      BY <2>1, <3>1, <3>2
  <2>5. SameOwners(r, x) /\ Thaws(r, x)
    BY <1>1, <2>3, <2>4 DEF SameOwners, Thaws, IsPage
  <2> QED
    BY <1>1, <1>3, <2>2, <2>4, <2>5 DEF r, s
<1> QED
  BY <1>2, <1>3

-----------------------------------------------------------------------------
(* Pins and holds are counted.                                               *)

In(b) == IF b THEN 1 ELSE 0

\* A set of threads to which, or from which, only t may have moved.
LEMMA CountMoves ==
    ASSUME NEW T, IsFiniteSet(T), NEW t \in T, NEW S \in SUBSET T, NEW S2 \in SUBSET T,
           \A u \in T \ {t} : u \in S <=> u \in S2
    PROVE  /\ Cardinality(S) \in Nat /\ Cardinality(S2) \in Nat
           /\ Cardinality(S2) = Cardinality(S) - In(t \in S) + In(t \in S2)
<1>1. /\ IsFiniteSet(S) /\ IsFiniteSet(S2)
      /\ Cardinality(S) \in Nat /\ Cardinality(S2) \in Nat
  BY FS_Subset, FS_CardinalityType
<1>2. CASE t \in S /\ t \in S2
  <2>1. S = S2
    BY <1>2
  <2> QED
    BY <1>1, <1>2, <2>1 DEF In
<1>3. CASE t \notin S /\ t \notin S2
  <2>1. S = S2
    BY <1>3
  <2> QED
    BY <1>1, <1>3, <2>1 DEF In
<1>4. CASE t \in S /\ t \notin S2
  <2>1. S2 = S \ {t}
    BY <1>4
  <2>2. Cardinality(S2) = Cardinality(S) - 1
    BY <1>1, <1>4, <2>1, FS_RemoveElement
  <2> QED
    BY <1>1, <1>4, <2>2 DEF In
<1>5. CASE t \notin S /\ t \in S2
  <2>1. S2 = S \cup {t}
    BY <1>5
  <2>2. Cardinality(S2) = Cardinality(S) + 1
    BY <1>1, <1>5, <2>1, FS_AddElement
  <2> QED
    BY <1>1, <1>5, <2>2 DEF In
<1> QED
  BY <1>2, <1>3, <1>4, <1>5

Outside(p, R) == p \in RangePages(R) /\ R.kind = "external"
Inside(p, R)  == p \in RangePages(R) /\ R.kind # "external"

Leasers(p)  == {t \in Threads : p \in RangePages(lease[t])}
Faulters(p) == {t \in Threads : p \in FaultRange(t)}
Outer(p)    == {t \in Threads : Outside(p, hold[t])}
Inner(p)    == {t \in Threads : Inside(p, hold[t])}

\* PinsAreLeases, and the same of the two kinds of holds.
PinsOK ==
    \A p \in Pages :
       /\ page[p].pin = Cardinality(Leasers(p)) + Cardinality(Faulters(p))
       /\ page[p].external = Cardinality(Outer(p))
       /\ page[p].capture = Cardinality(Inner(p))
       /\ page[p].pin > 0 \/ Held(page[p]) => IsMapped(page[p])

\* The pins and holds of a step are those of the ranges thread t gives and takes.
LEMMA PinsStep ==
    ASSUME PinsOK, VbarAssumption, NEW t \in Threads,
           \A u \in Threads \ {t} : /\ FaultRange(u)' = FaultRange(u)
                                    /\ RangePages(lease[u])' = RangePages(lease[u])
                                    /\ hold'[u] = hold[u],
           \A p \in Pages :
              LET r == page[p]  s == page'[p] IN
              /\ s.pin = r.pin - In(p \in RangePages(lease[t])) + In(p \in RangePages(lease[t])')
                               - In(p \in FaultRange(t)) + In(p \in FaultRange(t)')
              /\ s.external = r.external - In(Outside(p, hold[t])) + In(Outside(p, hold[t])')
              /\ s.capture = r.capture - In(Inside(p, hold[t])) + In(Inside(p, hold[t])')
              /\ s.pin > 0 \/ Held(s) => IsMapped(s)
    PROVE  PinsOK'
<1> SUFFICES ASSUME NEW p \in Pages
             PROVE  /\ page'[p].pin = Cardinality(Leasers(p)') + Cardinality(Faulters(p)')
                    /\ page'[p].external = Cardinality(Outer(p)')
                    /\ page'[p].capture = Cardinality(Inner(p)')
  BY DEF PinsOK
<1>1. IsFiniteSet(Threads)
  BY DEF VbarAssumption
<1>2. /\ Cardinality(Leasers(p)) \in Nat
      /\ Cardinality(Leasers(p)') = Cardinality(Leasers(p)) - In(p \in RangePages(lease[t]))
                                    + In(p \in RangePages(lease[t])')
  <2>1. /\ Leasers(p) \in SUBSET Threads /\ Leasers(p)' \in SUBSET Threads
        /\ \A u \in Threads \ {t} : u \in Leasers(p) <=> u \in Leasers(p)'
        /\ (t \in Leasers(p)) = (p \in RangePages(lease[t]))
        /\ (t \in Leasers(p)') = (p \in RangePages(lease[t])')
    BY DEF Leasers
  <2> QED
    BY ONLY <1>1, <2>1, t \in Threads, CountMoves
<1>3. /\ Cardinality(Faulters(p)) \in Nat
      /\ Cardinality(Faulters(p)') = Cardinality(Faulters(p)) - In(p \in FaultRange(t))
                                     + In(p \in FaultRange(t)')
  <2>1. /\ Faulters(p) \in SUBSET Threads /\ Faulters(p)' \in SUBSET Threads
        /\ \A u \in Threads \ {t} : u \in Faulters(p) <=> u \in Faulters(p)'
        /\ (t \in Faulters(p)) = (p \in FaultRange(t))
        /\ (t \in Faulters(p)') = (p \in FaultRange(t)')
    BY DEF Faulters
  <2> QED
    BY ONLY <1>1, <2>1, t \in Threads, CountMoves
<1>4. /\ Cardinality(Outer(p)) \in Nat
      /\ Cardinality(Outer(p)') = Cardinality(Outer(p)) - In(Outside(p, hold[t]))
                                  + In(Outside(p, hold[t])')
  <2>1. /\ Outer(p) \in SUBSET Threads /\ Outer(p)' \in SUBSET Threads
        /\ \A u \in Threads \ {t} : u \in Outer(p) <=> u \in Outer(p)'
        /\ (t \in Outer(p)) = Outside(p, hold[t])
        /\ (t \in Outer(p)') = Outside(p, hold[t])'
    BY DEF Outer, Outside
  <2> QED
    BY ONLY <1>1, <2>1, t \in Threads, CountMoves
<1>5. /\ Cardinality(Inner(p)) \in Nat
      /\ Cardinality(Inner(p)') = Cardinality(Inner(p)) - In(Inside(p, hold[t]))
                                  + In(Inside(p, hold[t])')
  <2>1. /\ Inner(p) \in SUBSET Threads /\ Inner(p)' \in SUBSET Threads
        /\ \A u \in Threads \ {t} : u \in Inner(p) <=> u \in Inner(p)'
        /\ (t \in Inner(p)) = Inside(p, hold[t])
        /\ (t \in Inner(p)') = Inside(p, hold[t])'
    BY DEF Inner, Inside
  <2> QED
    BY ONLY <1>1, <2>1, t \in Threads, CountMoves
<1> QED
  BY <1>2, <1>3, <1>4, <1>5 DEF PinsOK, In

\* A step that gives or takes no range, and leaves the owners of each page.
LEMMA PinsStay ==
    ASSUME PinsOK,
           \A u \in Threads : /\ FaultRange(u)' = FaultRange(u)
                              /\ RangePages(lease[u])' = RangePages(lease[u])
                              /\ RangePages(hold[u])' = RangePages(hold[u])
                              /\ hold'[u].kind = hold[u].kind,
           \A p \in Pages :
              LET r == page[p]  s == page'[p] IN
              SameOwners(r, s) /\ (r.pin > 0 \/ Held(r) => (IsMapped(r) => IsMapped(s)))
    PROVE  PinsOK'
<1> SUFFICES ASSUME NEW p \in Pages
             PROVE  /\ page'[p].pin = Cardinality(Leasers(p)') + Cardinality(Faulters(p)')
                    /\ page'[p].external = Cardinality(Outer(p)')
                    /\ page'[p].capture = Cardinality(Inner(p)')
                    /\ page'[p].pin > 0 \/ Held(page'[p]) => IsMapped(page'[p])
  BY DEF PinsOK
<1>1. Leasers(p)' = Leasers(p) /\ Faulters(p)' = Faulters(p)
  BY DEF Leasers, Faulters
<1>2. Outer(p)' = Outer(p) /\ Inner(p)' = Inner(p)
  BY DEF Outer, Inner, Outside, Inside
<1>3. SameOwners(page[p], page'[p]) /\ (Held(page'[p]) <=> Held(page[p]))
  BY DEF SameOwners, Held
<1> QED
  BY <1>1, <1>2, <1>3 DEF PinsOK, SameOwners

\* A step of thread t is a step of no other fault.
LEMMA OtherFaults ==
    ASSUME NEW t \in Threads, Only(t), NoThread \notin Threads,
           {lock, lock'} \subseteq {NoThread, t} \/ lock' = lock, NEW u \in Threads \ {t}
    PROVE  FaultRange(u)' = FaultRange(u)
<1>1. call'[u] = call[u] /\ (lock' = u <=> lock = u)
  BY DEF Only
<1> QED
  BY <1>1 DEF FaultRange

-----------------------------------------------------------------------------
(* The types are kept.                                                       *)

\* A step of thread t leaves the calls and the ranges of the others alone.
Mine(t) == /\ Only(t) /\ async' = async
           /\ {lock, lock'} \subseteq {NoThread, t} \/ lock' = lock
           /\ \A u \in Threads \ {t} : lease'[u] = lease[u] /\ hold'[u] = hold[u]

\* Every action of a thread is a step of that thread alone.
LEMMA MineStep ==
    ASSUME TypesOK, CallsOK, VbarAssumption, NEW t \in Threads,
           ReclaimNext(t) \/ FaultNext(t) \/ ConsumerNext(t) \/ FreeNext(t)
    PROVE  Mine(t)
<1>1. /\ Acts(t) /\ DOMAIN call = Threads /\ DOMAIN lease = Threads /\ DOMAIN hold = Threads
      /\ lock \in Threads \cup {NoThread}
  BY ThreadActs DEF TypesOK, RangesOK
<1>2. CASE ReclaimNext(t)
  <2>1. UNCHANGED <<lock, lease, hold, async>>
    BY <1>2 DEF ReclaimNext, Pressure, SetWatermark, FreeMemory, Snapshot, Freeze, Commit, Synchronized,
         SynchronizeFails, device, owners, memory
  <2>2. Only(t)
    <3>1. ASSUME NEW d, call' = [call EXCEPT ![t] = d] PROVE Only(t)
      BY <1>1, <3>1 DEF Only
    <3>2. \E d : call' = [call EXCEPT ![t] = d]
      <4>1. CASE Snapshot(t)
        BY <4>1 DEF Snapshot
      <4>2. CASE Freeze(t)
        BY <4>2 DEF Freeze
      <4>3. CASE Commit(t)
        BY <4>3 DEF Commit
      <4>4. CASE Synchronized(t)
        BY <4>4 DEF Synchronized
      <4>5. CASE SynchronizeFails(t)
        BY <4>5 DEF SynchronizeFails
      <4>6. ASSUME NEW need, NEW keep, Pressure(t, need, keep)
            PROVE  \E d : call' = [call EXCEPT ![t] = d]
        BY <4>6 DEF Pressure
      <4>7. ASSUME NEW v, NEW n, SetWatermark(t, v, n) \/ FreeMemory(t, v, n)
            PROVE  \E d : call' = [call EXCEPT ![t] = d]
        BY <4>7 DEF SetWatermark, FreeMemory
      <4> QED
        BY <1>2, <4>1, <4>2, <4>3, <4>4, <4>5, <4>6, <4>7 DEF ReclaimNext
    <3> QED
      BY <3>1, <3>2
  <2> QED
    BY <2>1, <2>2 DEF Mine
<1>3. CASE FaultNext(t)
  <2>1. hold' = hold /\ async' = async
    BY <1>3 DEF FaultNext, Fault, EnterFault, FaultHit, FaultUnknown, FaultRestore, FaultMiss,
         FaultMap, ReturnFault, owners, device
  <2>2. \/ lock' = lock \/ (lock = NoThread /\ lock' = t) \/ (lock = t /\ lock' = NoThread)
    <3>1. ASSUME NEW P, GiveUp(t, P), AtPage(t) PROVE lock = t /\ lock' = NoThread
      BY <1>1, <3>1, AtPageFacts DEF GiveUp
    <3>2. CASE FaultUnknown(t)
      BY <3>1, <3>2 DEF FaultUnknown
    <3>3. CASE FaultRestore(t)
      BY <3>1, <3>3 DEF FaultRestore
    <3>4. ASSUME NEW deficit \in 0..MaxNeed, FaultMap(t, deficit)
          PROVE  lock' = lock \/ (lock = t /\ lock' = NoThread)
      BY <3>1, <3>4 DEF FaultMap
    <3>5. CASE ReturnFault(t)
      BY <1>1, <3>5 DEF ReturnFault, Acts, CallOK, Faulting
    <3>6. ASSUME NEW v, NEW first, NEW last, NEW deficit, Fault(t, v, first, last, deficit)
          PROVE  lock' = lock
      BY <3>6 DEF Fault
    <3>7. ASSUME NEW fits, EnterFault(t, fits) PROVE lock' = lock \/ (lock = NoThread /\ lock' = t)
      BY <3>7 DEF EnterFault
    <3>8. CASE FaultHit(t) \/ FaultMiss(t)
      BY <3>8 DEF FaultHit, FaultMiss
    <3> QED
      BY <1>3, <3>2, <3>3, <3>4, <3>5, <3>6, <3>7, <3>8 DEF FaultNext
  <2>3. \A u \in Threads \ {t} : lease'[u] = lease[u]
    <3>1. lease' = lease \/ \E R : lease' = [lease EXCEPT ![t] = R]
      BY <1>3 DEF FaultNext, Fault, EnterFault, FaultHit, FaultUnknown, FaultRestore, FaultMiss,
           FaultMap, ReturnFault, owners
    <3> QED
      BY <1>1, <3>1
  <2>4. Only(t)
    <3>1. ASSUME NEW d, call' = [call EXCEPT ![t] = d] PROVE Only(t)
      BY <1>1, <3>1 DEF Only
    <3>2. \E d : call' = [call EXCEPT ![t] = d]
      <4>1. ASSUME NEW P, GiveUp(t, P) PROVE \E d : call' = [call EXCEPT ![t] = d]
        BY <4>1 DEF GiveUp
      <4>2. CASE FaultUnknown(t)
        BY <4>1, <4>2 DEF FaultUnknown
      <4>3. CASE FaultRestore(t)
        BY <4>1, <4>3 DEF FaultRestore
      <4>4. ASSUME NEW deficit, FaultMap(t, deficit) PROVE \E d : call' = [call EXCEPT ![t] = d]
        BY <4>1, <4>4 DEF FaultMap
      <4>5. CASE ReturnFault(t)
        BY <4>5 DEF ReturnFault
      <4>6. ASSUME NEW v, NEW first, NEW last, NEW deficit, Fault(t, v, first, last, deficit)
            PROVE  \E d : call' = [call EXCEPT ![t] = d]
        BY <4>6 DEF Fault
      <4>7. ASSUME NEW fits, EnterFault(t, fits) PROVE \E d : call' = [call EXCEPT ![t] = d]
        BY <4>7 DEF EnterFault
      <4>8. CASE FaultHit(t) \/ FaultMiss(t)
        BY <4>8 DEF FaultHit, FaultMiss
      <4> QED
        BY <1>3, <4>2, <4>3, <4>4, <4>5, <4>6, <4>7, <4>8 DEF FaultNext
    <3> QED
      BY <3>1, <3>2
  <2> QED
    BY <2>1, <2>2, <2>3, <2>4 DEF Mine
<1>4. CASE ConsumerNext(t)
  <2>1. lock' = lock /\ async' = async
    <3>1. ASSUME NEW own, NEW q, Submit(t, own, q) \/ \E pc : TakeToken(t, pc, q)
          PROVE  lock' = lock /\ async' = async
      BY <3>1 DEF Submit, TakeToken, device
    <3>2. CASE Register(t) \/ Unpin(t)
      BY <3>2 DEF Register, Unpin, device
    <3>3. CASE Release(t)
      BY <3>3 DEF Release, device
    <3>4. ASSUME NEW R, Acquire(t, R) PROVE lock' = lock /\ async' = async
      BY <3>4 DEF Acquire, device
    <3> QED
      BY <1>4, <3>1, <3>2, <3>3, <3>4 DEF ConsumerNext
  <2>2. /\ lease' = lease \/ \E R : lease' = [lease EXCEPT ![t] = R]
        /\ hold' = hold \/ \E R : hold' = [hold EXCEPT ![t] = R]
    <3>1. ASSUME NEW own, NEW q, Submit(t, own, q)
          PROVE  /\ lease' = lease \/ \E R : lease' = [lease EXCEPT ![t] = R]
                 /\ hold' = hold \/ \E R : hold' = [hold EXCEPT ![t] = R]
      BY <3>1 DEF Submit, Used
    <3>2. ASSUME NEW pc, NEW q, TakeToken(t, pc, q) PROVE lease' = lease /\ hold' = hold
      BY <3>2 DEF TakeToken, owners
    <3>3. CASE Register(t) \/ Unpin(t)
      BY <3>3 DEF Register, Unpin
    <3>4. CASE Release(t)
      BY <3>4 DEF Release
    <3>5. ASSUME NEW R, Acquire(t, R) PROVE lease' = lease /\ hold' = [hold EXCEPT ![t] = R]
      BY <3>5 DEF Acquire
    <3> QED
      BY <1>4, <3>1, <3>2, <3>3, <3>4, <3>5 DEF ConsumerNext
  <2>3. \A u \in Threads \ {t} : lease'[u] = lease[u] /\ hold'[u] = hold[u]
    BY <1>1, <2>2
  <2>4. call' = call \/ \E d : call' = [call EXCEPT ![t] = d]
    <3>1. ASSUME NEW own, NEW q, Submit(t, own, q) PROVE call' = call
      BY <3>1 DEF Submit
    <3>2. ASSUME NEW pc, NEW q, TakeToken(t, pc, q) PROVE \E d : call' = [call EXCEPT ![t] = d]
      BY <3>2 DEF TakeToken
    <3>3. CASE Register(t) \/ Unpin(t)
      BY <3>3 DEF Register, Unpin
    <3>4. CASE Release(t)
      BY <3>4 DEF Release
    <3>5. ASSUME NEW R, Acquire(t, R) PROVE call' = call
      BY <3>5 DEF Acquire
    <3> QED
      BY <1>4, <3>1, <3>2, <3>3, <3>4, <3>5 DEF ConsumerNext
  <2>5. Only(t)
    BY <1>1, <2>4 DEF Only
  <2> QED
    BY <2>1, <2>3, <2>5 DEF Mine
<1>5. CASE FreeNext(t)
  <2>1. UNCHANGED <<lease, hold, async>>
    BY <1>5 DEF FreeNext, Free, CheckFree, BeginTeardown, TeardownPage, EndTeardown, owners, device
  <2>2. \/ lock' = lock \/ (lock = NoThread /\ lock' = t) \/ (lock = t /\ lock' = NoThread)
    <3>1. call[t].pc = "teardown" => lock = t
      BY <1>1 DEF Acts, CallOK
    <3> QED
      BY <1>5, <3>1 DEF FreeNext, Free, CheckFree, BeginTeardown, TeardownPage, EndTeardown
  <2>3. \E d : call' = [call EXCEPT ![t] = d]
    BY <1>5 DEF FreeNext, Free, CheckFree, BeginTeardown, TeardownPage, EndTeardown
  <2>4. Only(t)
    BY <1>1, <2>3 DEF Only
  <2> QED
    BY <2>1, <2>2, <2>4 DEF Mine
<1> QED
  BY <1>2, <1>3, <1>4, <1>5

\* No step makes a page record of another kind.
LEMMA PagesStay ==
    ASSUME TypesOK, CallsOK, FaultsOK, VbarAssumption, [Next]_vars
    PROVE  PagesOK'
<1>1. PagesOK
  BY DEF TypesOK
<1>2. ASSUME page' = page PROVE PagesOK'
  BY <1>1, <1>2 DEF PagesOK
<1>3. CASE ListNext \/ LimitNext
  BY <1>2, <1>3 DEF ListNext, LimitNext, Allocate, Prioritize, Deprioritize, CopyAcquire, CopyRelease,
     SetLimit
<1>4. ASSUME NEW o \in inflight, Finish(o) PROVE PagesOK'
  BY <1>2, <1>4 DEF Finish, memory
<1>5. CASE Quiet \/ UNCHANGED vars
  BY <1>2, <1>5 DEF Quiet, vars, memory
<1>6. ASSUME NEW t \in Threads, ReclaimNext(t) PROVE PagesOK'
  <2>1. Acts(t)
    BY ThreadActs
  <2>2. CASE Freeze(t)
    <3>1. PICK K \in SUBSET Eligible(call[t]) :
             /\ DOMAIN page' = Pages
             /\ \A p \in Pages \ K : page'[p] = page[p]
             /\ \A p \in K : FrozenAs(page[p], page'[p])
      BY <1>1, <2>1, <2>2, FreezePages
    <3> QED
      BY <1>1, <3>1 DEF PagesOK, FrozenAs
  <2>3. CASE Commit(t)
    BY <1>1, <2>1, <2>3, CommitPages DEF PagesOK
  <2>4. CASE SynchronizeFails(t)
    BY <1>1, <2>1, <2>4, SynchronizeFailsPages DEF PagesOK, Steady
  <2>5. CASE Snapshot(t) \/ Synchronized(t)
    BY <1>2, <2>5 DEF Snapshot, Synchronized, memory
  <2>6. ASSUME NEW need, NEW keep, Pressure(t, need, keep) PROVE PagesOK'
    BY <1>2, <2>6 DEF Pressure, memory
  <2>7. ASSUME NEW v, NEW n, SetWatermark(t, v, n) \/ FreeMemory(t, v, n) PROVE PagesOK'
    BY <1>2, <2>7 DEF SetWatermark, FreeMemory
  <2> QED
    BY <1>6, <2>2, <2>3, <2>4, <2>5, <2>6, <2>7 DEF ReclaimNext
<1>7. ASSUME NEW t \in Threads, FaultNext(t) PROVE PagesOK'
  <2>1. Acts(t)
    BY ThreadActs
  <2>2. ASSUME FaultPasses(t) \/ FaultRetries(t), DOMAIN page' = Pages PROVE PagesOK'
    BY <1>1, <2>2 DEF PagesOK, FaultPasses, FaultRetries
  <2>3. ASSUME FaultStops(t), DOMAIN page' = Pages PROVE PagesOK'
    BY <2>3 DEF PagesOK, FaultStops
  <2>4. CASE FaultHit(t)
    BY <1>1, <2>1, <2>2, <2>4, FaultHitPages
  <2>5. CASE FaultUnknown(t)
    BY <1>1, <2>1, <2>3, <2>5, FaultUnknownPages
  <2>6. CASE FaultRestore(t)
    BY <1>1, <2>1, <2>2, <2>3, <2>6, FaultRestorePages
  <2>7. CASE FaultMiss(t)
    BY <1>2, <2>7 DEF FaultMiss, memory
  <2>8. ASSUME NEW deficit \in 0..MaxNeed, FaultMap(t, deficit) PROVE PagesOK'
    BY <1>1, <2>1, <2>2, <2>3, <2>8, FaultMapPages
  <2>9. CASE ReturnFault(t)
    BY <1>1, <2>9, ReturnFaultPages DEF PagesOK, Steady
  <2>10. ASSUME NEW v, NEW first, NEW last, NEW deficit, Fault(t, v, first, last, deficit)
         PROVE  PagesOK'
    BY <1>2, <2>10 DEF Fault, memory
  <2>11. ASSUME NEW fits, EnterFault(t, fits) PROVE PagesOK'
    BY <1>2, <2>11 DEF EnterFault
  <2> QED
    BY <1>7, <2>4, <2>5, <2>6, <2>7, <2>8, <2>9, <2>10, <2>11 DEF FaultNext
<1>8. ASSUME NEW t \in Threads, ConsumerNext(t) PROVE PagesOK'
  <2>1. Acts(t)
    BY ThreadActs
  <2>2. ASSUME NEW own, NEW q, Submit(t, own, q) \/ \E pc : TakeToken(t, pc, q) PROVE PagesOK'
    BY <1>2, <2>2 DEF Submit, TakeToken, memory
  <2>3. CASE Register(t)
    BY <1>1, <2>1, <2>3, RegisterPages DEF PagesOK, Steady
  <2>4. CASE Unpin(t)
    BY <1>1, <2>1, <2>4, UnpinPages DEF PagesOK
  <2>5. CASE Release(t)
    BY <1>1, <2>1, <2>5, ReleasePages DEF PagesOK
  <2>6. ASSUME NEW R, Acquire(t, R) PROVE PagesOK'
    BY <1>1, <2>6, AcquirePages DEF PagesOK
  <2> QED
    BY <1>8, <2>2, <2>3, <2>4, <2>5, <2>6 DEF ConsumerNext
<1>9. ASSUME NEW t \in Threads, FreeNext(t) PROVE PagesOK'
  <2>1. Acts(t)
    BY ThreadActs
  <2>2. CASE TeardownPage(t)
    BY <1>1, <2>1, <2>2, TeardownPages DEF PagesOK
  <2>3. ASSUME NEW v, Free(t, v) PROVE PagesOK'
    BY <1>2, <2>3 DEF Free
  <2>4. CASE CheckFree(t) \/ BeginTeardown(t)
    BY <1>2, <2>4 DEF CheckFree, BeginTeardown, memory
  <2>5. ASSUME NEW refused, EndTeardown(t, refused) PROVE PagesOK'
    BY <1>2, <2>5 DEF EndTeardown
  <2> QED
    BY <1>9, <2>2, <2>3, <2>4, <2>5 DEF FreeNext
<1> QED
  BY <1>3, <1>4, <1>5, <1>6, <1>7, <1>8, <1>9 DEF Next

\* What the watermark limits and a commit do to the VBARs.
LEMMA LimitVbars ==
    ASSUME LimitNext
    PROVE  /\ DOMAIN vbar' = Vbars
           /\ \A v \in Vbars : vbar'[v] = vbar[v] \/ \E n : vbar'[v] = [vbar[v] EXCEPT !.limit = n]
<1>1. \E V, n : SetLimit(V, n)
  BY DEF LimitNext
<1>2. PICK V, n : SetLimit(V, n)
  BY <1>1
<1>3. vbar' = [v \in Vbars |-> IF v \in V THEN [vbar[v] EXCEPT !.limit = n] ELSE vbar[v]]
  BY <1>2 DEF SetLimit
<1> QED
  BY <1>3

\* A commit changes no more of a VBAR than its count of resident pages.
LEMMA CommitVbars ==
    ASSUME NEW t, Commit(t)
    PROVE  /\ DOMAIN vbar' = Vbars
           /\ \A v \in Vbars : \E n : vbar'[v] = [vbar[v] EXCEPT !.resident = n]
<1>1. DOMAIN vbar' = Vbars
  BY ZenonT(30) DEF Commit
<1>2. ASSUME NEW v \in Vbars PROVE \E n : vbar'[v] = [vbar[v] EXCEPT !.resident = n]
  BY ZenonT(30) DEF Commit
<1> QED
  BY <1>1, <1>2

\* A record of vbar keeps its fields.
LEMMA VbarsStay ==
    ASSUME TypesOK, VbarAssumption, [Next]_vars
    PROVE  VbarsOK'
<1>1. VbarsOK
  BY DEF TypesOK
<1>2. ASSUME vbar' = vbar PROVE VbarsOK'
  BY <1>1, <1>2 DEF VbarsOK
<1>3. ASSUME NEW v, NEW b, vbar' = [vbar EXCEPT ![v] = b], v \in Vbars => DOMAIN b = VbarFields
      PROVE  VbarsOK'
  BY <1>1, <1>3 DEF VbarsOK
<1>4. CASE ListNext
  <2>1. PICK v \in Vbars : Allocate(v) \/ Prioritize(v) \/ Deprioritize(v) \/ CopyAcquire(v)
                           \/ CopyRelease(v)
    BY <1>4 DEF ListNext
  <2>2. \/ vbar' = vbar
        \/ vbar' = [vbar EXCEPT ![v].state = "live"]
        \/ vbar' = [vbar EXCEPT ![v].watermark = NPages]
        \/ vbar' = [vbar EXCEPT ![v].copies = @ + 1]
        \/ vbar' = [vbar EXCEPT ![v].copies = @ - 1]
    BY <2>1 DEF Allocate, Prioritize, Deprioritize, CopyAcquire, CopyRelease
  <2> QED
    BY <1>1, <2>2 DEF VbarsOK
<1>5. CASE LimitNext
  BY <1>1, <1>5, LimitVbars DEF VbarsOK
<1>6. ASSUME NEW t \in Threads, ReclaimNext(t) PROVE VbarsOK'
  <2>1. CASE Freeze(t) \/ SynchronizeFails(t)
    BY <1>2, <2>1 DEF Freeze, SynchronizeFails
  <2>2. CASE Commit(t)
    BY <1>1, <2>2, CommitVbars DEF VbarsOK
  <2>3. CASE Snapshot(t) \/ Synchronized(t)
    BY <1>2, <2>3 DEF Snapshot, Synchronized, memory
  <2>4. ASSUME NEW need, NEW keep, Pressure(t, need, keep) PROVE VbarsOK'
    BY <1>2, <2>4 DEF Pressure, memory
  <2>5. ASSUME NEW v, NEW n, SetWatermark(t, v, n) \/ FreeMemory(t, v, n) PROVE VbarsOK'
    <3>1. \E w : vbar' = [vbar EXCEPT ![v].watermark = w]
      BY <2>5 DEF SetWatermark, FreeMemory
    <3> QED
      BY <1>1, <3>1 DEF VbarsOK
  <2> QED
    BY <1>6, <2>1, <2>2, <2>3, <2>4, <2>5 DEF ReclaimNext
<1>7. ASSUME NEW t \in Threads, FaultNext(t) PROVE VbarsOK'
  <2>1. \/ vbar' = vbar \/ \E v, n : vbar' = [vbar EXCEPT ![v].resident = n]
        \/ \E v, n : vbar' = [vbar EXCEPT ![v].watermark = n]
    <3>1. CASE FaultHit(t) \/ FaultUnknown(t) \/ FaultMiss(t) \/ ReturnFault(t)
      BY <3>1 DEF FaultHit, FaultUnknown, FaultMiss, ReturnFault, memory
    <3>2. CASE FaultRestore(t)
      BY <3>2 DEF FaultRestore
    <3>3. ASSUME NEW deficit, FaultMap(t, deficit)
          PROVE  vbar' = vbar \/ \E v, n : vbar' = [vbar EXCEPT ![v].resident = n]
      BY <3>3 DEF FaultMap
    <3>4. ASSUME NEW v, NEW first, NEW last, NEW deficit, Fault(t, v, first, last, deficit)
          PROVE  vbar' = vbar
      BY <3>4 DEF Fault, memory
    <3>5. ASSUME NEW fits, EnterFault(t, fits)
          PROVE  vbar' = vbar \/ \E v, n : vbar' = [vbar EXCEPT ![v].watermark = n]
      BY <3>5 DEF EnterFault
    <3> QED
      BY <1>7, <3>1, <3>2, <3>3, <3>4, <3>5 DEF FaultNext
  <2> QED
    BY <1>1, <2>1 DEF VbarsOK
<1>8. ASSUME NEW t \in Threads, ConsumerNext(t) PROVE VbarsOK'
  <2>1. vbar' = vbar
    <3>1. ASSUME NEW own, NEW q, Submit(t, own, q) \/ \E pc : TakeToken(t, pc, q) PROVE vbar' = vbar
      BY <3>1 DEF Submit, TakeToken, memory
    <3>2. CASE Register(t) \/ Unpin(t)
      BY <3>2 DEF Register, Unpin
    <3>3. CASE Release(t)
      BY <3>3 DEF Release
    <3>4. ASSUME NEW R, Acquire(t, R) PROVE vbar' = vbar
      BY <3>4 DEF Acquire
    <3> QED
      BY <1>8, <3>1, <3>2, <3>3, <3>4 DEF ConsumerNext
  <2> QED
    BY <1>2, <2>1
<1>9. ASSUME NEW t \in Threads, FreeNext(t) PROVE VbarsOK'
  <2>1. \/ vbar' = vbar \/ \E v, n : vbar' = [vbar EXCEPT ![v].resident = n]
        \/ \E v, n : vbar' = [vbar EXCEPT ![v].state = n]
    <3>1. CASE TeardownPage(t)
      BY <3>1 DEF TeardownPage
    <3>2. ASSUME NEW v, Free(t, v) PROVE \E n : vbar' = [vbar EXCEPT ![v].state = n]
      BY <3>2 DEF Free
    <3>3. CASE CheckFree(t) \/ BeginTeardown(t)
      BY <3>3 DEF CheckFree, BeginTeardown, memory
    <3>4. ASSUME NEW refused, EndTeardown(t, refused)
          PROVE  vbar' = vbar \/ \E v, n : vbar' = [vbar EXCEPT ![v].state = n]
      BY <3>4 DEF EndTeardown
    <3> QED
      BY <1>9, <3>1, <3>2, <3>3, <3>4 DEF FreeNext
  <2> QED
    BY <1>1, <2>1 DEF VbarsOK
<1>10. ASSUME NEW o \in inflight, Finish(o) PROVE VbarsOK'
  BY <1>2, <1>10 DEF Finish, memory
<1>11. CASE Quiet \/ UNCHANGED vars
  BY <1>2, <1>11 DEF Quiet, vars, memory
<1> QED
  BY <1>4, <1>5, <1>6, <1>7, <1>8, <1>9, <1>10, <1>11 DEF Next

\* The range of nobody holds no page.
LEMMA NoRangeOK == IsRange(NoRange) /\ RangePages(NoRange) = {}
<1>1. RangePages(NoRange) = {}
  BY DEF RangePages, NoRange
<1> QED
  BY <1>1 DEF IsRange, NoRange, RangeFields

\* Work that a range is used for changes its queues only.
WithQueues(R, Q) == [R EXCEPT !.queues = Q]

\* Work submitted from a range does not change its pages.
LEMMA WithQueuesOK ==
    ASSUME NEW R, IsRange(R), NEW Q \in SUBSET Queues
    PROVE  /\ IsRange(WithQueues(R, Q)) /\ RangePages(WithQueues(R, Q)) = RangePages(R)
           /\ WithQueues(R, Q).kind = R.kind /\ WithQueues(R, Q).queues = Q
BY DEF IsRange, RangeFields, WithQueues, RangePages

\* What a step of a consumer makes of its ranges.
LEMMA ConsumerRanges ==
    ASSUME TypesOK, CallsOK, NEW t \in Threads, ConsumerNext(t)
    PROVE  LET SameOr(old, new) == \/ new = old \/ new = NoRange
                                   \/ \E Q \in SUBSET Queues : new = WithQueues(old, Q)
           IN  /\ SameOr(lease[t], lease'[t])
               /\ \/ SameOr(hold[t], hold'[t])
                  \/ \E v \in Vbars, first, last \in 1..NPages, kind \in HoldKinds :
                        hold'[t] = [vbar |-> v, first |-> first, last |-> last, kind |-> kind,
                                    queues |-> {}]
               /\ DOMAIN lease' = Threads /\ DOMAIN hold' = Threads
<1> DEFINE SameOr(old, new) == \/ new = old \/ new = NoRange
                               \/ \E Q \in SUBSET Queues : new = WithQueues(old, Q)
<1>1. /\ DOMAIN lease = Threads /\ DOMAIN hold = Threads
      /\ lease[t].queues \subseteq Queues /\ hold[t].queues \subseteq Queues
  BY DEF TypesOK, RangesOK, IsRange
<1>2. ASSUME NEW own, NEW q \in Queues, Submit(t, own, q)
      PROVE  SameOr(lease[t], lease'[t]) /\ SameOr(hold[t], hold'[t])
             /\ DOMAIN lease' = Threads /\ DOMAIN hold' = Threads
  <2>1. CASE own = "lease"
    <3>1. lease' = [lease EXCEPT ![t].queues = lease[t].queues \cup {q}] /\ hold' = hold
      BY <1>2, <2>1 DEF Submit, Used, Lease
    <3>2. lease'[t] = WithQueues(lease[t], lease[t].queues \cup {q})
      BY <1>1, <3>1 DEF WithQueues
    <3> QED
      BY <1>1, <3>1, <3>2
  <2>2. CASE own # "lease"
    <3>1. hold' = [hold EXCEPT ![t].queues = hold[t].queues \cup {q}] /\ lease' = lease
      BY <1>2, <2>2 DEF Submit, Used, Lease
    <3>2. hold'[t] = WithQueues(hold[t], hold[t].queues \cup {q})
      BY <1>1, <3>1 DEF WithQueues
    <3> QED
      BY <1>1, <3>1, <3>2
  <2> QED
    BY <2>1, <2>2
<1>3. ASSUME Register(t)
      PROVE  /\ SameOr(lease[t], lease'[t]) /\ SameOr(hold[t], hold'[t])
             /\ DOMAIN lease' = Threads /\ DOMAIN hold' = Threads
  <2>1. lease' = [lease EXCEPT ![t].queues = @ \ {call[t].token.queue}] /\ hold' = hold
    BY <1>3 DEF Register
  <2>2. lease'[t] = WithQueues(lease[t], lease[t].queues \ {call[t].token.queue})
    BY <1>1, <2>1 DEF WithQueues
  <2> QED
    BY <1>1, <2>1, <2>2
<1>4. ASSUME Unpin(t)
      PROVE  /\ SameOr(lease[t], lease'[t]) /\ SameOr(hold[t], hold'[t])
             /\ DOMAIN lease' = Threads /\ DOMAIN hold' = Threads
  BY <1>1, <1>4 DEF Unpin
<1>5. ASSUME Release(t)
      PROVE  /\ SameOr(lease[t], lease'[t]) /\ SameOr(hold[t], hold'[t])
             /\ DOMAIN lease' = Threads /\ DOMAIN hold' = Threads
  <2>1. hold' = [hold EXCEPT ![t] = NoRange] /\ lease' = lease
    BY <1>5 DEF Release
  <2> QED
    BY <1>1, <2>1
<1>6. ASSUME NEW pc, NEW q, TakeToken(t, pc, q) PROVE lease' = lease /\ hold' = hold
  BY <1>6 DEF TakeToken, owners
<1>7. ASSUME NEW R, Acquire(t, R) PROVE lease' = lease /\ hold' = [hold EXCEPT ![t] = R]
  BY <1>7 DEF Acquire
<1>8. ASSUME NEW v \in Vbars, NEW first \in 1..NPages, NEW last \in 1..NPages, NEW kind \in HoldKinds,
             Acquire(t, [vbar |-> v, first |-> first, last |-> last, kind |-> kind, queues |-> {}])
      PROVE  /\ lease' = lease /\ DOMAIN hold' = Threads
             /\ hold'[t] = [vbar |-> v, first |-> first, last |-> last, kind |-> kind, queues |-> {}]
  BY <1>1, <1>7, <1>8
<1>9. ASSUME NEW pc, NEW q, TakeToken(t, pc, q)
       PROVE  /\ SameOr(lease[t], lease'[t]) /\ SameOr(hold[t], hold'[t])
              /\ DOMAIN lease' = Threads /\ DOMAIN hold' = Threads
  BY <1>1, <1>6, <1>9
<1>10. ASSUME NEW v \in Vbars, NEW first \in 1..NPages, NEW last \in 1..NPages, NEW kind \in HoldKinds,
              Acquire(t, [vbar |-> v, first |-> first, last |-> last, kind |-> kind, queues |-> {}])
       PROVE  /\ SameOr(lease[t], lease'[t]) /\ DOMAIN lease' = Threads /\ DOMAIN hold' = Threads
              /\ \E w \in Vbars, f, l \in 1..NPages, k \in HoldKinds :
                    hold'[t] = [vbar |-> w, first |-> f, last |-> l, kind |-> k, queues |-> {}]
  <2>1. /\ lease' = lease /\ DOMAIN hold' = Threads
        /\ hold'[t] = [vbar |-> v, first |-> first, last |-> last, kind |-> kind, queues |-> {}]
    BY <1>8, <1>10
  <2>2. \E w \in Vbars, f, l \in 1..NPages, k \in HoldKinds :
           hold'[t] = [vbar |-> w, first |-> f, last |-> l, kind |-> k, queues |-> {}]
    <3> WITNESS v \in Vbars, first \in 1..NPages, last \in 1..NPages, kind \in HoldKinds
    <3> QED
      BY <2>1
  <2>3. SameOr(lease[t], lease'[t])
    BY <2>1
  <2> HIDE DEF SameOr
  <2> QED
    BY <1>1, <2>1, <2>2, <2>3
<1> HIDE DEF SameOr
<1>11. /\ SameOr(lease[t], lease'[t])
       /\ \/ SameOr(hold[t], hold'[t])
          \/ \E v \in Vbars, first, last \in 1..NPages, kind \in HoldKinds :
                hold'[t] = [vbar |-> v, first |-> first, last |-> last, kind |-> kind, queues |-> {}]
       /\ DOMAIN lease' = Threads /\ DOMAIN hold' = Threads
  BY <1>2, <1>3, <1>4, <1>5, <1>9, <1>10 DEF ConsumerNext
<1> QED
  BY <1>11 DEF SameOr

\* The ranges stay in the page table, and holds are of the kinds in use.
LEMMA RangesStay ==
    ASSUME TypesOK, CallsOK, VbarAssumption, [Next]_vars
    PROVE  RangesOK'
<1>1. RangesOK
  BY DEF TypesOK
<1>2. ASSUME UNCHANGED <<lease, hold>> PROVE RangesOK'
  BY <1>1, <1>2 DEF RangesOK, RangePages
<1>3. CASE ListNext \/ LimitNext
  BY <1>2, <1>3 DEF ListNext, LimitNext, Allocate, Prioritize, Deprioritize, CopyAcquire, CopyRelease,
     SetLimit, owners
<1>4. ASSUME NEW o \in inflight, Finish(o) PROVE RangesOK'
  BY <1>2, <1>4 DEF Finish, owners
<1>5. CASE Quiet \/ UNCHANGED vars
  BY <1>2, <1>5 DEF Quiet, vars, owners
<1>6. ASSUME NEW t \in Threads, ReclaimNext(t) PROVE RangesOK'
  BY <1>2, <1>6 DEF ReclaimNext, Pressure, SetWatermark, FreeMemory, Snapshot, Freeze, Commit, Synchronized,
         SynchronizeFails, owners
<1>7. ASSUME NEW t \in Threads, FaultNext(t) PROVE RangesOK'
  <2>1. CASE ReturnFault(t)
    <3> DEFINE R == [NoRange EXCEPT !.vbar = call[t].vbar, !.first = call[t].first,
                                    !.last = call[t].last]
    <3>1. lease' = [lease EXCEPT ![t] = R] /\ hold' = hold
      BY <2>1 DEF ReturnFault
    <3>2. call[t].vbar \in Vbars /\ call[t].first \in 1..NPages /\ call[t].last \in 1..NPages
      BY <2>1 DEF CallsOK, CallOK, Faulting, ReturnFault
    <3>3. DOMAIN R = RangeFields /\ R.queues = {} /\ R.vbar = call[t].vbar /\ R.first = call[t].first
          /\ R.last = call[t].last
      BY DEF NoRange, RangeFields
    <3>4. RangePages(R) \subseteq Pages
      <4> HIDE DEF R
      <4> QED
        BY <3>2, <3>3, VbarAssumption DEF RangePages, Pages, VbarAssumption
    <3>5. IsRange(R)
      BY <3>3, <3>4 DEF IsRange
    <3> HIDE DEF R
    <3> QED
      BY <1>1, <3>1, <3>5 DEF RangesOK, RangePages
  <2>2. CASE FaultHit(t) \/ FaultUnknown(t) \/ FaultRestore(t) \/ FaultMiss(t)
    BY <1>2, <2>2 DEF FaultHit, FaultUnknown, FaultRestore, FaultMiss, owners
  <2>3. ASSUME NEW deficit, FaultMap(t, deficit) PROVE RangesOK'
    BY <1>2, <2>3 DEF FaultMap, owners
  <2>4. ASSUME NEW v, NEW first, NEW last, NEW deficit, Fault(t, v, first, last, deficit)
        PROVE  RangesOK'
    BY <1>2, <2>4 DEF Fault, owners
  <2>5. ASSUME NEW fits, EnterFault(t, fits) PROVE RangesOK'
    BY <1>2, <2>5 DEF EnterFault, owners
  <2> QED
    BY <1>7, <2>1, <2>2, <2>3, <2>4, <2>5 DEF FaultNext
<1>8. ASSUME NEW t \in Threads, ConsumerNext(t) PROVE RangesOK'
  <2> DEFINE SameOr(old, new) == \/ new = old \/ new = NoRange
                                 \/ \E Q \in SUBSET Queues : new = WithQueues(old, Q)
  <2>1. /\ SameOr(lease[t], lease'[t])
        /\ \/ SameOr(hold[t], hold'[t])
           \/ \E v \in Vbars, first, last \in 1..NPages, kind \in HoldKinds :
                 hold'[t] = [vbar |-> v, first |-> first, last |-> last, kind |-> kind, queues |-> {}]
        /\ DOMAIN lease' = Threads /\ DOMAIN hold' = Threads
    BY <1>8, ConsumerRanges
  <2>2. ASSUME NEW old, NEW new, IsRange(old), SameOr(old, new)
        PROVE  IsRange(new) /\ (RangePages(new) # {} => RangePages(new) = RangePages(old) /\ new.kind = old.kind)
    BY <2>2, NoRangeOK, WithQueuesOK
  <2>3. ASSUME NEW v \in Vbars, NEW first \in 1..NPages, NEW last \in 1..NPages, NEW kind \in HoldKinds,
               NEW R, R = [vbar |-> v, first |-> first, last |-> last, kind |-> kind, queues |-> {}]
        PROVE  IsRange(R) /\ R.kind \in HoldKinds
    <3>1. RangePages(R) \subseteq Pages
      <4>1. R.vbar = v /\ R.first = first /\ R.last = last
        BY <2>3
      <4> QED
        BY <4>1, VbarAssumption DEF RangePages, Pages, VbarAssumption
    <3> QED
      BY <2>3, <3>1 DEF IsRange, RangeFields
  <2>4. IsRange(lease[t]) /\ IsRange(hold[t]) /\ (RangePages(hold[t]) # {} => hold[t].kind \in HoldKinds)
    BY <1>1 DEF RangesOK
  <2>5. IsRange(lease'[t]) /\ IsRange(hold'[t]) /\ (RangePages(hold'[t]) # {} => hold'[t].kind \in HoldKinds)
    <3> HIDE DEF SameOr
    <3>1. IsRange(lease'[t])
      BY <2>1, <2>2, <2>4
    <3>2. CASE SameOr(hold[t], hold'[t])
      BY <2>2, <2>4, <3>1, <3>2
    <3>3. CASE ~SameOr(hold[t], hold'[t])
      BY <2>1, <2>3, <3>1, <3>3
    <3> QED
      BY <3>2, <3>3
  <2>6. \A u \in Threads \ {t} : lease'[u] = lease[u] /\ hold'[u] = hold[u]
    BY <1>8, MineStep DEF Mine
  <2>7. ASSUME NEW u \in Threads
        PROVE  IsRange(lease'[u]) /\ IsRange(hold'[u]) /\ (RangePages(hold'[u]) # {} => hold'[u].kind \in HoldKinds)
    <3>1. CASE u = t
      BY <2>5, <3>1
    <3>2. CASE u # t
      BY <1>1, <2>6, <3>2 DEF RangesOK
    <3> QED
      BY <3>1, <3>2
  <2> QED
    BY <2>1, <2>7 DEF RangesOK, IsRange, RangePages
<1>9. ASSUME NEW t \in Threads, FreeNext(t) PROVE RangesOK'
  BY <1>2, <1>9 DEF FreeNext, Free, CheckFree, BeginTeardown, TeardownPage, EndTeardown, owners
<1> QED
  BY <1>3, <1>4, <1>5, <1>6, <1>7, <1>8, <1>9 DEF Next

\* Operators are submitted in the order of their numbers.
LEMMA DeviceStays ==
    ASSUME TypesOK, CallsOK, VbarAssumption, [Next]_vars
    PROVE  DeviceOK'
<1>1. DeviceOK
  BY DEF TypesOK
<1>2. ASSUME UNCHANGED device PROVE DeviceOK'
  BY <1>1, <1>2 DEF DeviceOK, device
<1>3. CASE ListNext \/ LimitNext
  BY <1>2, <1>3 DEF ListNext, LimitNext, Allocate, Prioritize, Deprioritize, CopyAcquire, CopyRelease,
     SetLimit
<1>4. ASSUME NEW o \in inflight, Finish(o) PROVE DeviceOK'
  BY <1>1, <1>4 DEF Finish, DeviceOK
<1>5. CASE Quiet \/ UNCHANGED vars
  BY <1>2, <1>5 DEF Quiet, vars
<1>6. ASSUME NEW t \in Threads, ReclaimNext(t) PROVE DeviceOK'
  BY <1>2, <1>6 DEF ReclaimNext, Pressure, SetWatermark, FreeMemory, Snapshot, Freeze, Commit, Synchronized,
         SynchronizeFails
<1>7. ASSUME NEW t \in Threads, FaultNext(t) PROVE DeviceOK'
  BY <1>2, <1>7 DEF FaultNext, Fault, EnterFault, FaultHit, FaultUnknown, FaultRestore, FaultMiss,
         FaultMap, ReturnFault
<1>8. ASSUME NEW t \in Threads, ConsumerNext(t) PROVE DeviceOK'
  <2>1. ASSUME NEW own, NEW q \in Queues, Submit(t, own, q) PROVE DeviceOK'
    <3> DEFINE P == RangePages(Lease(own, t))
               o == [queue |-> q, n |-> submitted[q] + 1, pages |-> P]
    <3>1. /\ submitted' = [submitted EXCEPT ![q] = @ + 1] /\ inflight' = inflight \cup {o}
          /\ async' = async
      BY <2>1 DEF Submit
    <3>2. P \subseteq Pages
      BY DEF TypesOK, RangesOK, IsRange, Lease
    <3>3. submitted[q] \in Nat /\ submitted' \in [Queues -> Nat] /\ submitted'[q] = submitted[q] + 1
          /\ \A k \in Queues : submitted'[k] >= submitted[k]
      BY <1>1, <3>1 DEF DeviceOK
    <3>4. o \in Operators /\ o.n = submitted[q] + 1 /\ o.queue = q
      <4> HIDE DEF P
      <4> QED
        BY <3>2, <3>3 DEF Operators
    <3> HIDE DEF o
    <3>5. \A x \in inflight' : x \in Operators /\ x.n <= submitted'[x.queue]
      <4>1. \A x \in inflight : x \in Operators /\ x.n <= submitted[x.queue] /\ x.queue \in Queues /\ x.n \in Nat
        BY <1>1 DEF DeviceOK, Operators
      <4>2. \A x \in inflight : x.n <= submitted'[x.queue]
        BY <1>1, <3>3, <4>1 DEF DeviceOK
      <4> QED
        BY <3>1, <3>3, <3>4, <4>1, <4>2
    <3> QED
      BY <1>1, <3>1, <3>3, <3>5 DEF DeviceOK
  <2>2. ASSUME NEW pc, NEW q, TakeToken(t, pc, q) PROVE DeviceOK'
    BY <1>2, <2>2 DEF TakeToken
  <2>3. CASE Register(t) \/ Unpin(t)
    BY <1>2, <2>3 DEF Register, Unpin
  <2>4. CASE Release(t)
    BY <1>2, <2>4 DEF Release
  <2>5. ASSUME NEW R, Acquire(t, R) PROVE DeviceOK'
    BY <1>2, <2>5 DEF Acquire
  <2> QED
    BY <1>8, <2>1, <2>2, <2>3, <2>4, <2>5 DEF ConsumerNext
<1>9. ASSUME NEW t \in Threads, FreeNext(t) PROVE DeviceOK'
  BY <1>2, <1>9 DEF FreeNext, Free, CheckFree, BeginTeardown, TeardownPage, EndTeardown
<1> QED
  BY <1>3, <1>4, <1>5, <1>6, <1>7, <1>8, <1>9 DEF Next

\* Every step keeps the types.
LEMMA TypesStay ==
    ASSUME TypesOK, CallsOK, FaultsOK, VbarAssumption, [Next]_vars
    PROVE  TypesOK'
<1>1. lock' \in Threads \cup {NoThread}
  <2>1. ASSUME NEW t \in Threads, ReclaimNext(t) \/ FaultNext(t) \/ ConsumerNext(t) \/ FreeNext(t)
        PROVE  lock' \in Threads \cup {NoThread}
    <3>1. {lock, lock'} \subseteq {NoThread, t} \/ lock' = lock
      BY <2>1, MineStep DEF Mine
    <3> QED
      BY <3>1 DEF TypesOK
  <2>2. ASSUME ListNext \/ LimitNext \/ Quiet \/ UNCHANGED vars \/ \E o \in inflight : Finish(o)
        PROVE  lock' = lock
    BY <2>2 DEF ListNext, LimitNext, Allocate, Prioritize, Deprioritize, CopyAcquire, CopyRelease,
       SetLimit, Quiet, vars, Finish
  <2> QED
    BY <2>1, <2>2 DEF Next, TypesOK
<1> QED
  BY <1>1, PagesStay, VbarsStay, RangesStay, DeviceStays, CallsStay DEF TypesOK

-----------------------------------------------------------------------------
(* The place of a fault.                                                     *)

\* Where a call is in its range.
SameFields(c, d) == \A f \in {"at", "vbar", "first", "last", "tries"} : d[f] = c[f]

\* Reclaiming leaves a fault where it is.
StaysAt(c, d) ==
    \/ c = NoCall /\ ~Faulting(d) /\ ~Enters(d)
    \/ d = NoCall
    \/ /\ SameFields(c, d)
       /\ (Faulting(d) => Faulting(c)) /\ (Enters(d) => Enters(c))
       /\ d.kind = "free" <=> c.kind = "free"

\* A reclaim that stops leaves the fault it is part of where it was.
LEMMA StoppedStaysAt ==
    ASSUME NEW t \in Threads, Acts(t), NEW left,
           call[t].pc \in {"freeze", "sync", "commit", "drain", "redrain"}
    PROVE  StaysAt(call[t], Stopped(call[t], left))
<1> DEFINE c == call[t]
           back == [c EXCEPT !.pc = c.then, !.kind = "none", !.need = 0,
                             !.keep = NoVbar, !.frontier = NoTokens,
                             !.candidates = {}, !.waits = {}, !.then = "idle"]
           d == Stopped(c, left)
<1>1. CASE c.then = "idle"
  BY <1>1 DEF Stopped, StaysAt
<1>2. CASE c.then # "idle"
  <2>1. c.kind = "retired" /\ c.then \in {"enter", "page"} /\ IsCall(c)
    BY <1>2 DEF Acts, CallOK
  <2>2. SameFields(c, back) /\ back.pc = c.then /\ back.then = "idle" /\ back.kind = "none" /\ IsCall(back)
    BY <2>1 DEF IsCall, CallFields, SameFields
  <2>3. d = back \/ d = Reclaim(back, left, NoVbar, c.then)
    BY <1>2 DEF Stopped
  <2> HIDE DEF back, d
  <2>4. d = back \/ d = [back EXCEPT !.pc = "snapshot", !.kind = "retired", !.need = left,
                                     !.keep = NoVbar, !.then = c.then]
        \/ d = [back EXCEPT !.pc = c.then]
    BY <2>3 DEF Reclaim
  <2>5. /\ SameFields(c, d) /\ d.kind # "free"
        /\ \/ d.pc = c.then /\ d.then = "idle"
           \/ d.pc = "snapshot" /\ d.then = c.then
    <3>1. CASE d = back
      BY <2>2, <3>1
    <3>2. CASE d = [back EXCEPT !.pc = "snapshot", !.kind = "retired", !.need = left,
                                !.keep = NoVbar, !.then = c.then]
      <4>1. SameFields(back, d)
        BY <2>2, <3>2 DEF IsCall, CallFields, SameFields
      <4>2. d.kind = "retired" /\ d.pc = "snapshot" /\ d.then = c.then
        BY <2>2, <3>2 DEF IsCall, CallFields
      <4> QED
        BY <2>2, <4>1, <4>2 DEF SameFields
    <3>3. CASE d = [back EXCEPT !.pc = c.then]
      <4>1. SameFields(back, d)
        BY <2>2, <3>3 DEF IsCall, CallFields, SameFields
      <4>2. d.kind = "none" /\ d.pc = c.then /\ d.then = "idle"
        BY <2>2, <3>3 DEF IsCall, CallFields
      <4> QED
        BY <2>2, <4>1, <4>2 DEF SameFields
    <3> QED
      BY <2>4, <3>1, <3>2, <3>3
  <2>6. (Faulting(d) => Faulting(c)) /\ (Enters(d) => Enters(c))
    BY <2>1, <2>5 DEF Faulting, Enters
  <2> QED
    BY <2>1, <2>5, <2>6 DEF StaysAt, d
<1> QED
  BY <1>1, <1>2

\* So does every other step of a reclaim.
LEMMA ReclaimStaysAt ==
    ASSUME TypesOK, CallsOK, VbarAssumption, NEW t \in Threads, ReclaimNext(t)
    PROVE  StaysAt(call[t], call'[t])
<1> DEFINE c == call[t]
<1>1. Acts(t) /\ DOMAIN call = Threads /\ IsCall(c)
  BY ThreadActs DEF Acts, CallOK
<1>2. ASSUME NEW need \in 1..MaxNeed, NEW keep, Pressure(t, need, keep)
      PROVE  StaysAt(c, call'[t])
  <2>1. c = NoCall
    BY <1>2 DEF Pressure
  <2>2. \/ call'[t] = [NoCall EXCEPT !.pc = "snapshot", !.kind = "retired", !.need = need,
                                     !.keep = keep, !.then = "idle"]
        \/ call'[t] = [NoCall EXCEPT !.pc = "idle"]
        \/ call'[t] = [NoCall EXCEPT !.pc = "freeze", !.kind = "reference", !.need = need,
                                     !.keep = keep]
    BY <1>1, <1>2 DEF Pressure, Reclaim
  <2>3. ~Faulting(call'[t]) /\ ~Enters(call'[t])
    <3>1. DOMAIN NoCall = CallFields /\ NoCall.then = "idle"
      BY DEF NoCall, CallFields
    <3>2. call'[t].then = "idle" /\ call'[t].pc \in {"snapshot", "idle", "freeze"}
      BY <2>2, <3>1 DEF CallFields
    <3> QED
      BY <3>2 DEF Faulting, Enters
  <2> QED
    BY <2>1, <2>3 DEF StaysAt
<1>3. ASSUME NEW v, NEW n, SetWatermark(t, v, n) \/ FreeMemory(t, v, n)
      PROVE  StaysAt(c, call'[t])
  <2>1. c = NoCall
    BY <1>3 DEF SetWatermark, FreeMemory
  <2>2. call'[t] = NoCall \/ \E first, last, need : call'[t] = FreeRange(v, first, last, need)
    BY <1>1, <1>3 DEF SetWatermark, FreeMemory
  <2>3. ~Faulting(call'[t]) /\ ~Enters(call'[t])
    <3>1. CASE call'[t] = NoCall
      BY <3>1 DEF NoCall, Faulting, Enters
    <3>2. ASSUME NEW first, NEW last, NEW need
          PROVE  LET d == FreeRange(v, first, last, need) IN ~Faulting(d) /\ ~Enters(d)
      BY DEF NoCall, FreeRange, Faulting, Enters
    <3> QED
      BY <2>2, <3>1, <3>2
  <2> QED
    BY <2>1, <2>3 DEF StaysAt
<1>4. CASE Snapshot(t)
  <2>1. PICK f : call' = [call EXCEPT ![t].pc = "freeze", ![t].frontier = f]
    BY <1>4 DEF Snapshot
  <2>2. c.pc = "snapshot"
    BY <1>4 DEF Snapshot
  <2> DEFINE d == [c EXCEPT !.pc = "freeze", !.frontier = f]
  <2>3. call'[t] = d
    BY <1>1, <2>1
  <2>4. StaysAt(c, d)
    BY <1>1, <2>2 DEF StaysAt, SameFields, Faulting, Enters, IsCall, CallFields
  <2> QED
    BY <2>3, <2>4
<1>5. CASE Freeze(t)
  <2>1. PICK K \in SUBSET Eligible(c) :
           /\ K # {} => Froze(t, K)
           /\ K = {} => call'[t] = Stopped(c, c.need)
    BY <1>1, <1>5, FreezePages DEF TypesOK
  <2>2. c.pc = "freeze"
    BY <1>5 DEF Freeze
  <2>3. CASE K = {}
    BY <1>1, <2>1, <2>2, <2>3, StoppedStaysAt
  <2>4. CASE K # {}
    <3>1. call'[t].then = c.then
      BY <2>1, <2>4 DEF Froze
    <3>2. call'[t].pc \in {"commit", "sync"} /\ SameFields(c, call'[t]) /\ call'[t].kind = c.kind
      BY <2>1, <2>4 DEF Froze, SameFields
    <3> QED
      BY <2>2, <3>1, <3>2 DEF StaysAt, Faulting, Enters
  <2> QED
    BY <2>3, <2>4
<1>6. CASE Commit(t)
  <2>1. PICK freed : call' = [call EXCEPT ![t] =
                       IF Over(freed, c.need) THEN Stopped(c, c.need - freed)
                       ELSE [c EXCEPT !.pc = "freeze", !.need = @ - freed,
                                      !.candidates = {}]]
    BY <1>6 DEF Commit
  <2>2. c.pc = "commit"
    BY <1>6 DEF Commit
  <2> DEFINE left == c.need - freed
             d == [c EXCEPT !.pc = "freeze", !.need = left, !.candidates = {}]
  <2>3. call'[t] = Stopped(c, left) \/ call'[t] = d
    BY <1>1, <2>1
  <2>4. StaysAt(c, d)
    <3> HIDE DEF left
    <3> QED
      BY <1>1, <2>2 DEF StaysAt, SameFields, Faulting, Enters, IsCall, CallFields
  <2> QED
    BY <1>1, <2>2, <2>3, <2>4, StoppedStaysAt
<1>7. CASE Synchronized(t)
  <2> DEFINE pc == CASE c.pc = "sync"    -> "commit"
                     [] c.pc = "drain"   -> "check"
                     [] c.pc = "redrain" -> "recheck"
             d == [c EXCEPT !.waits = {}, !.pc = pc]
  <2>1. call'[t] = d /\ c.pc \in {"sync", "drain", "redrain"}
    BY <1>1, <1>7 DEF Synchronized
  <2>2. pc \in {"commit", "check", "recheck"}
    BY <2>1
  <2>3. StaysAt(c, d)
    <3> HIDE DEF pc
    <3> QED
      BY <1>1, <2>2 DEF StaysAt, SameFields, Faulting, Enters, IsCall, CallFields
  <2> QED
    BY <2>1, <2>3
<1>8. CASE SynchronizeFails(t)
  <2>1. call'[t] = Stopped(c, c.need) /\ c.pc \in {"sync", "drain", "redrain"}
    BY <1>1, <1>8 DEF SynchronizeFails
  <2> QED
    BY <1>1, <2>1, StoppedStaysAt
<1> QED
  BY <1>2, <1>3, <1>4, <1>5, <1>6, <1>7, <1>8 DEF ReclaimNext

\* A consumer or a closing VBAR is at no page of a fault.
LEMMA OthersAtNoPage ==
    ASSUME TypesOK, CallsOK, VbarAssumption, NEW t \in Threads, ConsumerNext(t) \/ FreeNext(t)
    PROVE  /\ ~Faulting(call'[t]) /\ ~Enters(call'[t])
           /\ FaultRange(t) = {} /\ FaultRange(t)' = {}
           /\ call[t].candidates = {} /\ call'[t].candidates = {}
           /\ ConsumerNext(t) => call'[t].pc # "teardown"
<1> DEFINE c == call[t]
<1>1. Acts(t) /\ DOMAIN call = Threads /\ CallOK(c, lock = t)
  BY ThreadActs DEF Acts
<1>2. CallOK(call'[t], lock' = t)
  <2>1. CallsOK'
    BY ConsumerCalls, FreeCalls
  <2>2. async' = async
    BY MineStep DEF Mine
  <2> QED
    BY <2>1, <2>2 DEF CallsOK, CallOK
<1>3. CASE ConsumerNext(t)
  <2>1. (c = NoCall \/ c.pc \in Consumes) /\ lock' = lock
    <3>1. ASSUME NEW own, NEW q, Submit(t, own, q) \/ \E pc : TakeToken(t, pc, q)
          PROVE  c = NoCall /\ lock' = lock
      BY <3>1 DEF Submit, TakeToken
    <3>2. CASE Register(t) \/ Unpin(t)
      BY <3>2 DEF Register, Unpin, Consumes
    <3>3. CASE Release(t)
      BY <3>3 DEF Release, Consumes
    <3>4. ASSUME NEW R, Acquire(t, R) PROVE c = NoCall /\ lock' = lock
      BY <3>4 DEF Acquire
    <3> QED
      BY <1>3, <3>1, <3>2, <3>3, <3>4 DEF ConsumerNext
  <2>2. ~Faulting(c) /\ ~Enters(c) /\ lock # t /\ lock' = lock
    <3>1. ~Faulting(c) /\ ~Enters(c) /\ c.pc # "teardown"
      BY <1>1, <2>1 DEF CallOK, Faulting, Enters, Consumes, Reclaims, NoCall
    <3> QED
      BY <1>1, <2>1, <3>1 DEF CallOK
  <2>3. ~Faulting(call'[t])
    BY <1>2, <2>2 DEF CallOK
  <2>4. /\ ~Enters(call'[t]) /\ call'[t].candidates = {} /\ c.candidates = {}
        /\ call'[t].pc # "teardown"
    <3>1. call'[t] = c \/ call'[t] = NoCall \/ call'[t].pc \in Consumes
      <4>1. call' = call \/ call' = [call EXCEPT ![t] = NoCall] \/ call'[t].pc \in Consumes
        <5>1. ASSUME NEW own, NEW q, Submit(t, own, q) PROVE call' = call
          BY <5>1 DEF Submit
        <5>2. ASSUME NEW pc \in {"register", "unpin", "release"}, NEW q, TakeToken(t, pc, q)
              PROVE  call'[t].pc \in Consumes
          <6>1. call' = [call EXCEPT ![t].pc = pc, ![t].token = TokenOf(q)] /\ IsCall(call[t])
            BY <1>1, <5>2 DEF TakeToken, CallOK
          <6> QED
            BY <1>1, <6>1 DEF Consumes, IsCall, CallFields
        <5>3. CASE Register(t) \/ Unpin(t) \/ Release(t)
          BY <5>3 DEF Register, Unpin, Release
        <5>4. ASSUME NEW R, Acquire(t, R) PROVE call' = call
          BY <5>4 DEF Acquire
        <5> QED
          BY <1>3, <5>1, <5>2, <5>3, <5>4 DEF ConsumerNext
      <4> QED
        BY <1>1, <4>1
    <3>2. c.candidates = {} /\ c.pc # "teardown"
      BY <1>1, <2>1 DEF CallOK, Consumes, NoCall
    <3> QED
      BY <1>2, <2>2, <3>1, <3>2 DEF CallOK, Enters, Consumes, Reclaims, NoCall
  <2> QED
    BY <2>2, <2>3, <2>4 DEF FaultRange
<1>4. CASE FreeNext(t) /\ ~ConsumerNext(t)
  <2>1. c = NoCall \/ c.pc \in Closing
    BY <1>4 DEF FreeNext, Free, CheckFree, BeginTeardown, TeardownPage, EndTeardown, Closing
  <2>2. lock # t \/ c.kind = "free"
    BY <1>1, <2>1 DEF Acts, CallOK
  <2>3. call'[t] = NoCall \/ call'[t].kind = "free"
    <3>1. ASSUME NEW v, Free(t, v) PROVE call'[t].kind = "free"
      BY <1>1, <3>1 DEF Free, NoCall
    <3>2. CASE CheckFree(t)
      BY <1>1, <3>2 DEF CheckFree, Closing, CallOK, IsCall, CallFields
    <3>3. CASE BeginTeardown(t)
      BY <1>1, <3>3 DEF BeginTeardown, Closing, CallOK, IsCall, CallFields
    <3>4. CASE TeardownPage(t)
      <4>1. call' = [call EXCEPT ![t] = NoCall] \/ call' = [call EXCEPT ![t].at = @ + 1]
        BY <3>4 DEF TeardownPage
      <4>2. c.kind = "free" /\ IsCall(c)
        BY <1>1, <3>4 DEF TeardownPage, Closing, CallOK
      <4> QED
        BY <1>1, <4>1, <4>2 DEF IsCall, CallFields
    <3>5. ASSUME NEW refused, EndTeardown(t, refused) PROVE call'[t] = NoCall
      BY <1>1, <3>5 DEF EndTeardown
    <3> QED
      BY <1>4, <3>1, <3>2, <3>3, <3>4, <3>5 DEF FreeNext
  <2>4. /\ lock' # t \/ call'[t].kind = "free"
        /\ ~Faulting(call'[t]) /\ ~Enters(call'[t])
        /\ call'[t].candidates = {}
    <3>1. CASE call'[t] = NoCall
      BY <1>2, <3>1 DEF CallOK, NoCall, Faulting, Enters
    <3>2. CASE call'[t].kind = "free"
      BY <1>2, <3>2 DEF CallOK, Faulting, Enters, Closing
    <3> QED
      BY <2>3, <3>1, <3>2
  <2>5. c.candidates = {}
    BY <1>1, <2>1 DEF CallOK, Closing, NoCall
  <2> QED
    BY <1>4, <2>2, <2>4, <2>5 DEF FaultRange
<1> QED
  BY <1>3, <1>4

\* A fault that is not yet inside the lock has not tried anything.
TriesOK == \A t \in Threads : Enters(call[t]) => call[t].tries = 0

\* A fault begins, or enters the lock, or is refused there.
FaultBegins(t) ==
    /\ UNCHANGED <<page, lease, hold>>
    /\ FaultRange(t) = {} /\ FaultRange(t)' = {}
    /\ call'[t].candidates = {} /\ call'[t].tries = 0 /\ call'[t].kind # "free"

\* The steps of a fault.
LEMMA FaultKinds ==
    ASSUME TypesOK, CallsOK, FaultsOK, TriesOK, VbarAssumption, NEW t \in Threads, FaultNext(t)
    PROVE  /\ DOMAIN page' = Pages
           /\ \/ FaultBegins(t)
              \/ /\ AtPage(t) /\ UNCHANGED <<lease, hold>>
                 /\ FaultPasses(t) \/ FaultRetries(t) \/ FaultStops(t)
              \/ ReturnFault(t)
<1> DEFINE c == call[t]
<1>1. Acts(t) /\ PagesOK /\ DOMAIN call = Threads /\ DOMAIN page = Pages /\ IsCall(c)
  BY ThreadActs DEF TypesOK, PagesOK, Acts, CallOK
<1>2. PagesOK'
  <2>1. [Next]_vars
    BY DEF Next
  <2> QED
    BY <2>1, PagesStay
<1>4. ASSUME NEW v \in Vbars, NEW first \in 1..NPages, NEW last \in 1..NPages,
             NEW deficit \in 0..MaxNeed, Fault(t, v, first, last, deficit)
      PROVE  FaultBegins(t)
  <2> DEFINE start == [NoCall EXCEPT !.vbar = v, !.first = first, !.last = last]
             d == Reclaim(start, deficit, NoVbar, "enter")
  <2>1. /\ c = NoCall /\ UNCHANGED <<page, lease, hold, lock>> /\ lock # t
        /\ call'[t] = d
    BY <1>1, <1>4 DEF Fault, Acts, owners, memory
  <2>2. d.candidates = {} /\ d.tries = 0 /\ d.kind # "free"
    BY DEF Reclaim, NoCall
  <2> HIDE DEF d
  <2> QED
    BY <2>1, <2>2 DEF FaultBegins, FaultRange
<1>5. ASSUME NEW fits \in BOOLEAN, EnterFault(t, fits) PROVE FaultBegins(t)
  <2>1. /\ c.pc = "enter" /\ lock = NoThread /\ UNCHANGED <<page, lease, hold>>
        /\ \/ call' = [call EXCEPT ![t] = NoCall] /\ lock' = lock
           \/ call' = [call EXCEPT ![t].pc = "page", ![t].at = c.first] /\ lock' = t
    BY <1>5 DEF EnterFault, owners
  <2>2. c.candidates = {} /\ c.tries = 0 /\ c.first \in Nat /\ lock # t /\ c.kind # "free"
    <3>1. c.candidates = {} /\ c.first \in 1..NPages /\ c.kind # "free"
      BY <1>1, <2>1 DEF Acts, CallOK, Enters, Closing
    <3> QED
      BY <1>1, <2>1, <3>1 DEF Acts, TriesOK, Enters
  <2>3. CASE call' = [call EXCEPT ![t] = NoCall] /\ lock' = lock
    <3>1. call'[t] = NoCall
      BY <1>1, <2>3
    <3>2. NoCall.candidates = {} /\ NoCall.tries = 0 /\ NoCall.kind # "free"
      BY DEF NoCall
    <3> QED
      BY <2>1, <2>2, <2>3, <3>1, <3>2 DEF FaultBegins, FaultRange
  <2>4. CASE call' = [call EXCEPT ![t].pc = "page", ![t].at = c.first] /\ lock' = t
    <3>1. call'[t] = [c EXCEPT !.pc = "page", !.at = c.first]
      BY <1>1, <2>4
    <3>2. /\ call'[t].at = c.first /\ call'[t].first = c.first /\ call'[t].candidates = {}
          /\ call'[t].tries = 0 /\ call'[t].kind # "free"
      BY <1>1, <2>2, <3>1 DEF IsCall, CallFields
    <3>3. c.first..(c.first - 1) = {}
      BY <2>2
    <3>4. FaultRange(t)' = {}
      BY <3>2, <3>3 DEF FaultRange
    <3> QED
      BY <2>1, <2>2, <3>2, <3>4 DEF FaultBegins, FaultRange
  <2> QED
    BY <2>1, <2>3, <2>4
<1>6. CASE FaultHit(t)
  BY <1>1, <1>6, FaultHitPages DEF FaultHit, owners
<1>7. CASE FaultUnknown(t)
  BY <1>1, <1>7, FaultUnknownPages DEF FaultUnknown, owners
<1>8. CASE FaultRestore(t)
  BY <1>1, <1>8, FaultRestorePages DEF FaultRestore, owners
<1>9. CASE FaultMiss(t)
  BY <1>1, <1>9, FaultMissPages DEF FaultMiss, owners
<1>10. ASSUME NEW deficit \in 0..MaxNeed, FaultMap(t, deficit)
       PROVE  AtPage(t) /\ UNCHANGED <<lease, hold>> /\ (FaultPasses(t) \/ FaultRetries(t) \/ FaultStops(t))
  BY <1>1, <1>10, FaultMapPages DEF FaultMap, owners
<1> QED
  BY <1>2, <1>4, <1>5, <1>6, <1>7, <1>8, <1>9, <1>10 DEF FaultNext, PagesOK

\* A thread without the lock maps nothing, and neither does a reclaim.
MapsNothing == \A p \in Pages : IsMapped(page'[p]) => IsMapped(page[p])

\* Only the fault that has the lock maps pages.
LEMMA MapsNothingElse ==
    ASSUME TypesOK, CallsOK, FaultsOK, TriesOK, VbarAssumption, NEW t \in Threads,
           ReclaimNext(t) \/ FaultNext(t) \/ ConsumerNext(t) \/ FreeNext(t),
           lock # t \/ ReclaimNext(t)
    PROVE  MapsNothing
<1>1. Acts(t) /\ PagesOK
  BY ThreadActs DEF TypesOK
<1>2. ASSUME page' = page PROVE MapsNothing
  BY <1>2 DEF MapsNothing
<1>3. ASSUME \A p \in Pages : Keeps(page[p], page'[p]) PROVE MapsNothing
  BY <1>3 DEF MapsNothing, Keeps
<1>4. CASE ReclaimNext(t)
  <2>1. CASE Freeze(t)
    <3>1. PICK K \in SUBSET Eligible(call[t]) :
             /\ \A p \in Pages \ K : page'[p] = page[p]
             /\ \A p \in K : FrozenAs(page[p], page'[p])
      BY <1>1, <2>1, FreezePages
    <3> QED
      BY <3>1 DEF MapsNothing, FrozenAs, Keeps
  <2>2. CASE Commit(t)
    BY <1>1, <2>2, CommitPages DEF MapsNothing
  <2>3. CASE SynchronizeFails(t)
    BY <1>1, <1>3, <2>3, SynchronizeFailsPages DEF Steady
  <2>4. CASE Snapshot(t) \/ Synchronized(t)
    BY <1>2, <2>4 DEF Snapshot, Synchronized, memory
  <2>5. ASSUME NEW need, NEW keep, Pressure(t, need, keep) PROVE MapsNothing
    BY <1>2, <2>5 DEF Pressure, memory
  <2>6. ASSUME NEW v, NEW n, SetWatermark(t, v, n) \/ FreeMemory(t, v, n) PROVE MapsNothing
    BY <1>2, <2>6 DEF SetWatermark, FreeMemory
  <2> QED
    BY <1>4, <2>1, <2>2, <2>3, <2>4, <2>5, <2>6 DEF ReclaimNext
<1>5. CASE FaultNext(t) /\ lock # t
  <2>1. CASE FaultBegins(t)
    BY <1>2, <2>1 DEF FaultBegins
  <2>2. ~AtPage(t)
    BY <1>1, <1>5, AtPageFacts
  <2>3. ~ReturnFault(t)
    BY <1>1, <1>5 DEF ReturnFault, Acts, CallOK, Faulting
  <2> QED
    BY <1>5, <2>1, <2>2, <2>3, FaultKinds
<1>6. CASE ConsumerNext(t)
  <2>2. ASSUME NEW own, NEW q, Submit(t, own, q) \/ \E pc : TakeToken(t, pc, q) PROVE MapsNothing
    BY <1>2, <2>2 DEF Submit, TakeToken, memory
  <2>3. CASE Register(t)
    BY <1>1, <1>3, <2>3, RegisterPages DEF Steady
  <2>4. CASE Unpin(t)
    BY <1>1, <1>3, <2>4, UnpinPages
  <2>5. CASE Release(t)
    BY <1>1, <1>3, <2>5, ReleasePages
  <2>6. ASSUME NEW R, Acquire(t, R) PROVE MapsNothing
    BY <1>1, <1>3, <2>6, AcquirePages
  <2> QED
    BY <1>6, <2>2, <2>3, <2>4, <2>5, <2>6 DEF ConsumerNext
<1>7. CASE FreeNext(t) /\ lock # t
  <2>2. CASE TeardownPage(t)
    BY <1>1, <1>7, <2>2 DEF TeardownPage, Acts, CallOK
  <2>3. ASSUME NEW v, Free(t, v) PROVE MapsNothing
    BY <1>2, <2>3 DEF Free
  <2>4. CASE CheckFree(t) \/ BeginTeardown(t)
    BY <1>2, <2>4 DEF CheckFree, BeginTeardown, memory
  <2>5. ASSUME NEW refused, EndTeardown(t, refused) PROVE MapsNothing
    BY <1>2, <2>5 DEF EndTeardown
  <2> QED
    BY <1>7, <2>2, <2>3, <2>4, <2>5 DEF FreeNext
<1> QED
  BY <1>4, <1>5, <1>6, <1>7

\* Where a fault is in the page table.
LEMMA FaultPageIn ==
    ASSUME VbarAssumption, NEW t \in Threads, CallOK(call[t], lock = t), Faulting(call[t]),
           call[t].at <= call[t].last
    PROVE  FaultPage(t) \in Pages
BY DEF VbarAssumption, CallOK, FaultPage, Pages

\* A fault that goes on to map a page goes on to map one that is not mapped.
LEMMA FaultsStay ==
    ASSUME TypesOK, CallsOK, FaultsOK, TriesOK, VbarAssumption, [Next]_vars
    PROVE  FaultsOK' /\ TriesOK'
<1>1. ASSUME UNCHANGED <<page, call>> PROVE FaultsOK' /\ TriesOK'
  BY <1>1 DEF FaultsOK, TriesOK, Faulting, Enters, FaultPage, IsMapped
<1>2. ASSUME ListNext \/ LimitNext \/ Quiet \/ UNCHANGED vars \/ \E o \in inflight : Finish(o)
      PROVE  UNCHANGED <<page, call>>
  BY <1>2 DEF ListNext, LimitNext, Allocate, Prioritize, Deprioritize, CopyAcquire, CopyRelease,
     SetLimit, Quiet, vars, memory, Finish
<1>3. ASSUME NEW t \in Threads, ReclaimNext(t) \/ FaultNext(t) \/ ConsumerNext(t) \/ FreeNext(t)
      PROVE  FaultsOK' /\ TriesOK'
  <2> DEFINE Fine(u) == /\ (Faulting(call[u]) /\ call[u].tries > 0 =>
                             call[u].at <= call[u].last /\ ~IsMapped(page[FaultPage(u)]))
                        /\ (Enters(call[u]) => call[u].tries = 0)
  <2>1. Mine(t) /\ Acts(t) /\ PagesOK
    BY <1>3, MineStep, ThreadActs DEF TypesOK
  <2>2. ASSUME NEW u \in Threads \ {t} PROVE Fine(u)'
    <3>1. call'[u] = call[u]
      BY <2>1 DEF Mine, Only
    <3>2. CASE Faulting(call[u]) /\ call[u].tries > 0
      <4>1. lock = u
        BY <3>2 DEF CallsOK, CallOK
      <4>2. MapsNothing
        BY <1>3, <4>1, MapsNothingElse
      <4>3. call[u].at <= call[u].last /\ ~IsMapped(page[FaultPage(u)])
        BY <3>2 DEF FaultsOK
      <4>4. FaultPage(u) \in Pages
        BY <3>2, <4>3, FaultPageIn DEF CallsOK
      <4>5. FaultPage(u)' = FaultPage(u)
        BY <3>1 DEF FaultPage
      <4>6. ~IsMapped(page[FaultPage(u)])'
        BY <4>2, <4>3, <4>4, <4>5 DEF MapsNothing, IsMapped
      <4> QED
        BY <3>1, <4>3, <4>6 DEF TriesOK, Enters, Faulting
    <3>3. CASE ~(Faulting(call[u]) /\ call[u].tries > 0)
      BY <3>1, <3>3 DEF TriesOK, Enters, Faulting
    <3> QED
      BY <3>2, <3>3
  <2>3. Fine(t)'
    <3>1. ASSUME ~Faulting(call'[t]), ~Enters(call'[t]) PROVE Fine(t)'
      BY <3>1 DEF Faulting, Enters
    <3>2. ASSUME call'[t] = NoCall PROVE Fine(t)'
      BY <3>1, <3>2 DEF NoCall, Faulting, Enters
    <3>3. ASSUME call'[t].tries = 0 PROVE Fine(t)'
      BY <3>3
    <3>4. CASE ReclaimNext(t)
      <4>1. CASE /\ SameFields(call[t], call'[t])
                 /\ (Faulting(call'[t]) => Faulting(call[t])) /\ (Enters(call'[t]) => Enters(call[t]))
        <5>1. FaultPage(t)' = FaultPage(t)
          BY <4>1 DEF FaultPage, SameFields
        <5>2. CASE Faulting(call'[t]) /\ call'[t].tries > 0
          <6>1. Faulting(call[t]) /\ call[t].tries > 0
            BY <4>1, <5>2 DEF SameFields
          <6>2. call[t].at <= call[t].last /\ ~IsMapped(page[FaultPage(t)])
            BY <6>1 DEF FaultsOK
          <6>3. FaultPage(t) \in Pages
            BY <6>1, <6>2, FaultPageIn DEF CallsOK
          <6>4. ~IsMapped(page[FaultPage(t)])'
            BY <3>4, <5>1, <6>2, <6>3, MapsNothingElse DEF MapsNothing, IsMapped
          <6>5. Enters(call'[t]) => call'[t].tries = 0
            BY <4>1 DEF TriesOK, SameFields
          <6> QED
            BY <4>1, <6>2, <6>4, <6>5 DEF SameFields, Enters
        <5>3. CASE ~(Faulting(call'[t]) /\ call'[t].tries > 0)
          BY <4>1, <5>3 DEF TriesOK, SameFields, Faulting, Enters
        <5> QED
          BY <5>2, <5>3
      <4> QED
        BY <3>1, <3>2, <3>4, <4>1, ReclaimStaysAt DEF StaysAt
    <3>5. CASE FaultNext(t)
      <4>1. CASE FaultBegins(t)
        BY <3>3, <4>1 DEF FaultBegins
      <4>2. CASE AtPage(t) /\ FaultPasses(t)
        <5>1. call'[t].tries = 0
          BY <2>1, <4>2 DEF FaultPasses, Advanced, Acts, CallOK, IsCall, CallFields
        <5> QED
          BY <3>3, <5>1
      <4>3. CASE AtPage(t) /\ FaultRetries(t)
        <5>1. /\ FaultPage(t)' = FaultPage(t) /\ call'[t].at <= call'[t].last
              /\ ~IsMapped(page[FaultPage(t)])'
          BY <4>3 DEF FaultRetries, FaultPage, AtPage, IsMapped
        <5>2. ~Enters(call'[t])
          <6>1. lock' = t
            BY <2>1, <4>3, AtPageFacts DEF FaultRetries
          <6>2. CallOK(call'[t], lock' = t)
            <7>1. CallsOK' /\ async' = async
              BY <2>1, <3>5, FaultCalls DEF Mine
            <7> QED
              BY <7>1 DEF CallsOK, CallOK
          <6> QED
            BY <6>1, <6>2 DEF CallOK, Faulting, Enters, Reclaims
        <5> QED
          BY <5>1, <5>2 DEF Enters
      <4>4. CASE FaultStops(t)
        BY <3>2, <4>4 DEF FaultStops
      <4>5. CASE ReturnFault(t)
        <5>1. call'[t] = NoCall
          BY <2>1, <4>5 DEF ReturnFault, Acts
        <5> QED
          BY <3>2, <5>1
      <4> QED
        BY <3>5, <4>1, <4>2, <4>3, <4>4, <4>5, FaultKinds
    <3>6. CASE ConsumerNext(t) \/ FreeNext(t)
      BY <3>1, <3>6, OthersAtNoPage
    <3> QED
      BY <1>3, <3>4, <3>5, <3>6
  <2>4. \A u \in Threads : Fine(u)'
    BY <2>2, <2>3
  <2> QED
    BY <2>4 DEF FaultsOK, TriesOK
<1> QED
  BY <1>1, <1>2, <1>3 DEF Next

-----------------------------------------------------------------------------
(* Pins and holds stay counted.                                              *)

\* A page is owned when a lease, a fault or a hold covers it.
LEMMA OwnersCount ==
    ASSUME PinsOK, VbarAssumption, NEW t \in Threads, NEW p \in Pages
    PROVE  /\ p \in RangePages(lease[t]) \/ p \in FaultRange(t) => page[p].pin > 0
           /\ Outside(p, hold[t]) => page[p].external > 0
           /\ Inside(p, hold[t]) => page[p].capture > 0
           /\ p \in RangePages(hold[t]) => Held(page[p])
<1>1. ASSUME NEW S \in SUBSET Threads, t \in S PROVE Cardinality(S) \in Nat \ {0}
  <2>1. IsFiniteSet(S)
    BY VbarAssumption, FS_Subset DEF VbarAssumption
  <2> QED
    BY <1>1, <2>1, FS_CardinalityType, FS_EmptySet
<1>2. \A S \in SUBSET Threads : Cardinality(S) \in Nat
  BY VbarAssumption, FS_Subset, FS_CardinalityType DEF VbarAssumption
<1>3. /\ Leasers(p) \in SUBSET Threads /\ Faulters(p) \in SUBSET Threads
      /\ Outer(p) \in SUBSET Threads /\ Inner(p) \in SUBSET Threads
  BY DEF Leasers, Faulters, Outer, Inner
<1>4. /\ page[p].pin = Cardinality(Leasers(p)) + Cardinality(Faulters(p))
      /\ page[p].external = Cardinality(Outer(p)) /\ page[p].capture = Cardinality(Inner(p))
  BY DEF PinsOK
<1>5. p \in RangePages(lease[t]) => page[p].pin > 0
  <2>1. p \in RangePages(lease[t]) => t \in Leasers(p)
    BY DEF Leasers
  <2> QED
    BY <1>1, <1>2, <1>3, <1>4, <2>1
<1>6. p \in FaultRange(t) => page[p].pin > 0
  <2>1. p \in FaultRange(t) => t \in Faulters(p)
    BY DEF Faulters
  <2> QED
    BY <1>1, <1>2, <1>3, <1>4, <2>1
<1>7. Outside(p, hold[t]) => page[p].external > 0
  <2>1. Outside(p, hold[t]) => t \in Outer(p)
    BY DEF Outer
  <2> QED
    BY <1>1, <1>3, <1>4, <2>1
<1>8. Inside(p, hold[t]) => page[p].capture > 0
  <2>1. Inside(p, hold[t]) => t \in Inner(p)
    BY DEF Inner
  <2> QED
    BY <1>1, <1>3, <1>4, <2>1
<1> QED
  BY <1>5, <1>6, <1>7, <1>8 DEF Held, Outside, Inside

\* A thread that reclaims is at the same page of its fault as before.
LEMMA ReclaimFaultRange ==
    ASSUME TypesOK, CallsOK, VbarAssumption, NEW t \in Threads, ReclaimNext(t)
    PROVE  FaultRange(t)' = FaultRange(t)
<1>1. Mine(t) /\ Acts(t) /\ lock' = lock
  <2>1. lock' = lock
    BY DEF ReclaimNext, Pressure, SetWatermark, FreeMemory, Snapshot, Freeze, Commit, Synchronized,
       SynchronizeFails
  <2> QED
    BY <2>1, MineStep, ThreadActs
<1>2. CASE lock # t
  BY <1>1, <1>2 DEF FaultRange
<1>3. CASE lock = t
  <2>1. call[t] # NoCall
    BY <1>1, <1>3 DEF Acts
  <2>2. call'[t] # NoCall
    <3>1. CallOK(call'[t], lock' = t)
      <4>1. CallsOK' /\ async' = async
        BY <1>1, ReclaimCalls DEF Mine
      <4> QED
        BY <4>1 DEF CallsOK, CallOK
    <3> QED
      BY <1>1, <1>3, <3>1 DEF CallOK, NoCall, Faulting
  <2>3. SameFields(call[t], call'[t]) /\ (call'[t].kind = "free" <=> call[t].kind = "free")
    BY <2>1, <2>2, ReclaimStaysAt DEF StaysAt
  <2> QED
    BY <1>1, <1>3, <2>3 DEF FaultRange, SameFields
<1> QED
  BY <1>2, <1>3

\* A reclaim neither gives nor takes pins and holds.
LEMMA ReclaimPins ==
    ASSUME TypesOK, CallsOK, PinsOK, VbarAssumption, NEW t \in Threads, ReclaimNext(t)
    PROVE  PinsOK'
<1>1. Acts(t) /\ PagesOK /\ Mine(t) /\ NoThread \notin Threads
  BY ThreadActs, MineStep DEF TypesOK, Acts
<1>2. UNCHANGED <<lease, hold>>
  BY DEF ReclaimNext, Pressure, SetWatermark, FreeMemory, Snapshot, Freeze, Commit, Synchronized,
     SynchronizeFails, owners
<1>3. ASSUME NEW u \in Threads PROVE FaultRange(u)' = FaultRange(u)
  BY <1>1, ReclaimFaultRange, OtherFaults DEF Mine
<1>4. SUFFICES ASSUME NEW p \in Pages
               PROVE  LET r == page[p]  s == page'[p] IN
                      SameOwners(r, s) /\ (r.pin > 0 \/ Held(r) => (IsMapped(r) => IsMapped(s)))
  BY <1>2, <1>3, PinsStay DEF RangePages
<1>5. ASSUME page' = page
      PROVE  SameOwners(page[p], page'[p]) /\ (IsMapped(page[p]) => IsMapped(page'[p]))
  BY <1>5 DEF SameOwners
<1>6. CASE Freeze(t)
  <2>1. PICK K \in SUBSET Eligible(call[t]) :
           /\ \A q \in Pages \ K : page'[q] = page[q]
           /\ \A q \in K : FrozenAs(page[q], page'[q])
    BY <1>1, <1>6, FreezePages
  <2>2. CASE p \in K
    BY <2>1, <2>2 DEF FrozenAs, Keeps
  <2>3. CASE p \notin K
    BY <2>1, <2>3 DEF SameOwners
  <2> QED
    BY <2>2, <2>3
<1>7. CASE Commit(t)
  <2>1. SameOwners(page[p], page'[p]) /\ (~Freed(t, p) => Keeps(page[p], page'[p]))
    BY <1>1, <1>7, CommitPages
  <2>2. Freed(t, p) => page[p].pin = 0 /\ ~Held(page[p])
    BY DEF Freed, Current
  <2> QED
    BY <2>1, <2>2 DEF Keeps
<1>8. CASE SynchronizeFails(t)
  BY <1>1, <1>8, SynchronizeFailsPages DEF Steady, Keeps
<1>9. CASE Snapshot(t) \/ Synchronized(t)
  BY <1>5, <1>9 DEF Snapshot, Synchronized, memory
<1>10. ASSUME NEW need, NEW keep, Pressure(t, need, keep) PROVE page' = page
  BY <1>10 DEF Pressure, memory
<1>11. ASSUME NEW v, NEW n, SetWatermark(t, v, n) \/ FreeMemory(t, v, n) PROVE page' = page
  BY <1>11 DEF SetWatermark, FreeMemory
<1> QED
  BY <1>5, <1>6, <1>7, <1>8, <1>9, <1>10, <1>11 DEF ReclaimNext

\* The pins a fault takes are those of the pages it has passed, until it returns
\* them as a lease or gives them up.
LEMMA FaultPins ==
    ASSUME TypesOK, CallsOK, FaultsOK, TriesOK, PinsOK, VbarAssumption, NEW t \in Threads, FaultNext(t)
    PROVE  PinsOK'
<1> DEFINE c == call[t]
<1>1. Acts(t) /\ PagesOK /\ Mine(t) /\ NoThread \notin Threads
  BY ThreadActs, MineStep DEF TypesOK, Acts
<1>2. \A u \in Threads \ {t} : /\ FaultRange(u)' = FaultRange(u)
                               /\ lease'[u] = lease[u] /\ hold'[u] = hold[u]
  BY <1>1, OtherFaults DEF Mine
<1>3. CASE FaultBegins(t)
  BY <1>2, <1>3, PinsStay DEF FaultBegins, SameOwners, RangePages
<1>4. CASE AtPage(t) /\ UNCHANGED <<lease, hold>> /\ FaultPasses(t)
  <2> DEFINE p == FaultPage(t)
  <2>1. p \in Pages /\ lock = t /\ c.kind = "none" /\ FaultRange(t) = {c.vbar} \X (c.first..(c.at - 1))
    BY <1>1, <1>4, AtPageFacts
  <2>2. c.at \in Nat /\ c.first \in Nat /\ c.first <= c.at
    BY <1>1, <1>4 DEF Acts, CallOK, AtPage, Faulting
  <2>3. FaultRange(t)' = {c.vbar} \X (c.first..c.at)
    <3>1. call'[t] = Advanced(c) /\ lock' = lock /\ IsCall(c)
      BY <1>1, <1>4 DEF FaultPasses, Acts, CallOK
    <3>2. /\ call'[t].vbar = c.vbar /\ call'[t].first = c.first /\ call'[t].at = c.at + 1
          /\ call'[t].kind = "none"
      BY <2>1, <3>1 DEF Advanced, IsCall, CallFields
    <3>3. (c.at + 1) - 1 = c.at
      BY <2>2
    <3> QED
      BY <2>1, <3>1, <3>2, <3>3 DEF FaultRange
  <2>4. ASSUME NEW q \in Pages, q # p
        PROVE  In(q \in FaultRange(t)') = In(q \in FaultRange(t)) /\ page'[q] = page[q]
    <3>1. q \in FaultRange(t)' <=> q \in FaultRange(t)
      BY <2>1, <2>2, <2>3, <2>4 DEF FaultPage, Pages
    <3> QED
      BY <1>4, <2>4, <3>1 DEF FaultPasses, In
  <2>5. In(p \in FaultRange(t)') = 1 /\ In(p \in FaultRange(t)) = 0
    BY <2>1, <2>2, <2>3 DEF FaultPage, In
  <2>6. /\ page'[p].pin = page[p].pin + 1 /\ page'[p].external = page[p].external
        /\ page'[p].capture = page[p].capture /\ IsMapped(page'[p])
    BY <1>4 DEF FaultPasses
  <2> HIDE DEF p
  <2>7. ASSUME NEW q \in Pages
        PROVE  LET r == page[q]  s == page'[q] IN
               /\ s.pin = r.pin - In(q \in RangePages(lease[t])) + In(q \in RangePages(lease[t])')
                                - In(q \in FaultRange(t)) + In(q \in FaultRange(t)')
               /\ s.external = r.external - In(Outside(q, hold[t])) + In(Outside(q, hold[t])')
               /\ s.capture = r.capture - In(Inside(q, hold[t])) + In(Inside(q, hold[t])')
               /\ s.pin > 0 \/ Held(s) => IsMapped(s)
    <3>1. /\ RangePages(lease[t])' = RangePages(lease[t])
          /\ Outside(q, hold[t])' = Outside(q, hold[t]) /\ Inside(q, hold[t])' = Inside(q, hold[t])
      BY <1>4 DEF RangePages, Outside, Inside
    <3>2. page[q].pin \in Nat /\ page[q].external \in Nat /\ page[q].capture \in Nat
      BY <1>1 DEF PagesOK, IsPage
    <3>3. /\ In(q \in RangePages(lease[t])) \in Nat /\ In(Outside(q, hold[t])) \in Nat
          /\ In(Inside(q, hold[t])) \in Nat /\ In(q \in FaultRange(t)) \in Nat
      BY DEF In
    <3>4. CASE q = p
      BY <2>5, <2>6, <3>1, <3>2, <3>3, <3>4
    <3>5. CASE q # p
      BY <2>4, <3>1, <3>2, <3>3, <3>5 DEF PinsOK
    <3> QED
      BY <3>4, <3>5
  <2> QED
    BY <1>2, <2>7, PinsStep DEF RangePages
<1>5. CASE AtPage(t) /\ UNCHANGED <<lease, hold>> /\ FaultRetries(t)
  <2>1. /\ lock = t /\ c.kind = "none" /\ FaultPage(t) \in Pages
    BY <1>1, <1>5, AtPageFacts
  <2>2. FaultRange(t)' = FaultRange(t)
    BY <1>5, <2>1 DEF FaultRetries, FaultRange
  <2>3. ASSUME NEW p \in Pages
        PROVE  LET r == page[p]  s == page'[p] IN
               SameOwners(r, s) /\ (r.pin > 0 \/ Held(r) => (IsMapped(r) => IsMapped(s)))
    <3>1. CASE p = FaultPage(t)
      BY <1>5, <3>1 DEF FaultRetries
    <3>2. CASE p # FaultPage(t)
      BY <1>5, <3>2 DEF FaultRetries, SameOwners
    <3> QED
      BY <3>1, <3>2
  <2>4. \A u \in Threads : FaultRange(u)' = FaultRange(u)
    BY <1>2, <2>2
  <2> QED
    BY <1>5, <2>3, <2>4, PinsStay DEF RangePages
<1>6. CASE AtPage(t) /\ UNCHANGED <<lease, hold>> /\ FaultStops(t)
  <2>1. FaultRange(t)' = {}
    BY <1>1, <1>6 DEF FaultStops, FaultRange
  <2>2. ASSUME NEW q \in Pages
        PROVE  LET r == page[q]  s == page'[q] IN
               /\ s.pin = r.pin - In(q \in RangePages(lease[t])) + In(q \in RangePages(lease[t])')
                                - In(q \in FaultRange(t)) + In(q \in FaultRange(t)')
               /\ s.external = r.external - In(Outside(q, hold[t])) + In(Outside(q, hold[t])')
               /\ s.capture = r.capture - In(Inside(q, hold[t])) + In(Inside(q, hold[t])')
               /\ s.pin > 0 \/ Held(s) => IsMapped(s)
    <3>1. /\ RangePages(lease[t])' = RangePages(lease[t])
          /\ Outside(q, hold[t])' = Outside(q, hold[t]) /\ Inside(q, hold[t])' = Inside(q, hold[t])
      BY <1>6 DEF RangePages, Outside, Inside
    <3>2. page[q].pin \in Nat /\ page[q].external \in Nat /\ page[q].capture \in Nat
      BY <1>1 DEF PagesOK, IsPage
    <3>3. /\ In(q \in RangePages(lease[t])) \in Nat /\ In(Outside(q, hold[t])) \in Nat
          /\ In(Inside(q, hold[t])) \in Nat /\ In(q \in FaultRange(t)') = 0
      BY <2>1 DEF In
    <3>4. /\ page'[q].pin = IF q \in FaultRange(t) /\ page[q].pin > 0 THEN page[q].pin - 1 ELSE page[q].pin
          /\ page'[q].external = page[q].external /\ page'[q].capture = page[q].capture
          /\ IsMapped(page[q]) => Keeps(page[q], page'[q])
      BY <1>6 DEF FaultStops
    <3>5. q \in FaultRange(t) => page[q].pin > 0
      BY OwnersCount
    <3>6. page'[q].pin = page[q].pin - In(q \in FaultRange(t))
      BY <3>2, <3>4, <3>5 DEF In
    <3>7. page'[q].pin > 0 \/ Held(page'[q]) => page[q].pin > 0 \/ Held(page[q])
      BY <3>2, <3>4 DEF Held
    <3>8. page'[q].pin > 0 \/ Held(page'[q]) => IsMapped(page'[q])
      BY <3>4, <3>7 DEF PinsOK, Keeps
    <3>9. In(q \in FaultRange(t)) \in Nat
      BY DEF In
    <3> QED
      BY <3>1, <3>2, <3>3, <3>4, <3>6, <3>8, <3>9
  <2> QED
    BY <1>2, <2>2, PinsStep DEF RangePages
<1>7. CASE ReturnFault(t)
  <2> DEFINE R == [NoRange EXCEPT !.vbar = c.vbar, !.first = c.first, !.last = c.last]
  <2>1. /\ lease' = [lease EXCEPT ![t] = R] /\ hold' = hold /\ lock' = NoThread /\ c.pc = "page"
        /\ c.at > c.last
    BY <1>7 DEF ReturnFault
  <2>2. /\ c.at = c.last + 1 /\ c.last \in Nat /\ lock = t /\ c.kind = "none" /\ lease[t] = NoRange
    BY <1>1, <2>1 DEF Acts, CallOK, Faulting, Reclaims, Closing
  <2>3. FaultRange(t) = {c.vbar} \X (c.first..c.last) /\ FaultRange(t)' = {}
    <3>1. (c.last + 1) - 1 = c.last
      BY <2>2
    <3> QED
      BY <1>1, <2>1, <2>2, <3>1 DEF FaultRange
  <2>4. RangePages(lease[t]) = {} /\ RangePages(lease[t])' = FaultRange(t)
    <3>1. R.vbar = c.vbar /\ R.first = c.first /\ R.last = c.last
      BY DEF NoRange
    <3>2. lease'[t] = R
      BY <2>1 DEF TypesOK, RangesOK
    <3> HIDE DEF R
    <3> QED
      BY <2>2, <2>3, <3>1, <3>2, NoRangeOK DEF RangePages
  <2>5. ASSUME NEW q \in Pages
        PROVE  LET r == page[q]  s == page'[q] IN
               /\ s.pin = r.pin - In(q \in RangePages(lease[t])) + In(q \in RangePages(lease[t])')
                                - In(q \in FaultRange(t)) + In(q \in FaultRange(t)')
               /\ s.external = r.external - In(Outside(q, hold[t])) + In(Outside(q, hold[t])')
               /\ s.capture = r.capture - In(Inside(q, hold[t])) + In(Inside(q, hold[t])')
               /\ s.pin > 0 \/ Held(s) => IsMapped(s)
    <3>1. Outside(q, hold[t])' = Outside(q, hold[t]) /\ Inside(q, hold[t])' = Inside(q, hold[t])
      BY <2>1 DEF RangePages, Outside, Inside
    <3>2. page[q].pin \in Nat /\ page[q].external \in Nat /\ page[q].capture \in Nat
      BY <1>1 DEF PagesOK, IsPage
    <3>3. /\ In(q \in RangePages(lease[t])) = 0 /\ In(Outside(q, hold[t])) \in Nat
          /\ In(Inside(q, hold[t])) \in Nat /\ In(q \in FaultRange(t)') = 0
          /\ In(q \in RangePages(lease[t])') = In(q \in FaultRange(t))
          /\ In(q \in FaultRange(t)) \in Nat
      BY <2>3, <2>4 DEF In
    <3>4. SameOwners(page[q], page'[q]) /\ Keeps(page[q], page'[q])
      BY <1>1, <1>7, ReturnFaultPages DEF Steady
    <3>5. page'[q].pin > 0 \/ Held(page'[q]) => IsMapped(page'[q])
      BY <3>4 DEF PinsOK, SameOwners, Keeps, Held
    <3> QED
      BY <3>1, <3>2, <3>3, <3>4, <3>5 DEF SameOwners
  <2> QED
    BY <1>2, <2>5, PinsStep DEF RangePages
<1> QED
  BY <1>3, <1>4, <1>5, <1>6, <1>7, FaultKinds

\* What a step that moves a range of thread t has to do to each page.
PageMoves(t, q) ==
    LET r == page[q]  s == page'[q] IN
    /\ s.pin = r.pin - In(q \in RangePages(lease[t])) + In(q \in RangePages(lease[t])')
    /\ s.external = r.external - In(Outside(q, hold[t])) + In(Outside(q, hold[t])')
    /\ s.capture = r.capture - In(Inside(q, hold[t])) + In(Inside(q, hold[t])')
    /\ s.pin > 0 \/ Held(s) => IsMapped(s)

\* Pins and holds go with the leases and holds of the consumer.
LEMMA ConsumerPins ==
    ASSUME TypesOK, CallsOK, PinsOK, VbarAssumption, NEW t \in Threads, ConsumerNext(t)
    PROVE  PinsOK'
<1>1. Acts(t) /\ PagesOK /\ Mine(t) /\ NoThread \notin Threads
  BY ThreadActs, MineStep DEF TypesOK, Acts
<1>2. \A u \in Threads \ {t} : /\ FaultRange(u)' = FaultRange(u)
                               /\ lease'[u] = lease[u] /\ hold'[u] = hold[u]
  BY <1>1, OtherFaults DEF Mine
<1>3. FaultRange(t) = {} /\ FaultRange(t)' = {}
  BY OthersAtNoPage
<1>4. ASSUME \A q \in Pages : PageMoves(t, q) PROVE PinsOK'
  <2>1. ASSUME NEW q \in Pages
        PROVE  LET r == page[q]  s == page'[q] IN
               /\ s.pin = r.pin - In(q \in RangePages(lease[t])) + In(q \in RangePages(lease[t])')
                                - In(q \in FaultRange(t)) + In(q \in FaultRange(t)')
               /\ s.external = r.external - In(Outside(q, hold[t])) + In(Outside(q, hold[t])')
               /\ s.capture = r.capture - In(Inside(q, hold[t])) + In(Inside(q, hold[t])')
               /\ s.pin > 0 \/ Held(s) => IsMapped(s)
    <3>1. In(q \in FaultRange(t)) = 0 /\ In(q \in FaultRange(t)') = 0
      BY <1>3 DEF In
    <3>2. /\ page[q].pin \in Nat /\ In(q \in RangePages(lease[t])) \in Nat
          /\ In(q \in RangePages(lease[t])') \in Nat
      BY <1>1 DEF PagesOK, IsPage, In
    <3> QED
      BY <1>4, <3>1, <3>2 DEF PageMoves
  <2> QED
    BY <1>2, <2>1, PinsStep DEF RangePages
<1>5. ASSUME RangePages(lease'[t]) = RangePages(lease[t]), RangePages(hold'[t]) = RangePages(hold[t]),
             hold'[t].kind = hold[t].kind,
             \A p \in Pages : SameOwners(page[p], page'[p]) /\ (IsMapped(page[p]) => IsMapped(page'[p]))
      PROVE  PinsOK'
  <2>1. \A u \in Threads : /\ FaultRange(u)' = FaultRange(u)
                           /\ RangePages(lease[u])' = RangePages(lease[u])
                           /\ RangePages(hold[u])' = RangePages(hold[u])
                           /\ hold'[u].kind = hold[u].kind
    BY <1>2, <1>3, <1>5 DEF RangePages
  <2> QED
    BY <1>5, <2>1, PinsStay
<1>6. ASSUME NEW q \in Pages
      PROVE  /\ page[q].pin \in Nat /\ page[q].external \in Nat /\ page[q].capture \in Nat
             /\ In(q \in RangePages(lease[t])) \in Nat
             /\ In(Outside(q, hold[t])) \in Nat /\ In(Inside(q, hold[t])) \in Nat
             /\ page[q].pin > 0 \/ Held(page[q]) => IsMapped(page[q])
  BY <1>1 DEF PagesOK, IsPage, In, PinsOK
<1>7. /\ DOMAIN lease = Threads /\ DOMAIN hold = Threads
      /\ IsRange(lease[t]) /\ IsRange(hold[t]) /\ lease[t].queues \subseteq Queues
      /\ hold[t].queues \subseteq Queues
  BY DEF TypesOK, RangesOK, IsRange
<1>8. ASSUME NEW own, NEW q \in Queues, Submit(t, own, q) PROVE PinsOK'
  <2>1. page' = page
    BY <1>8 DEF Submit, memory
  <2>2. /\ RangePages(lease'[t]) = RangePages(lease[t]) /\ RangePages(hold'[t]) = RangePages(hold[t])
        /\ hold'[t].kind = hold[t].kind
    <3>1. CASE own = "lease"
      <4>1. lease' = [lease EXCEPT ![t].queues = lease[t].queues \cup {q}] /\ hold' = hold
        BY <1>8, <3>1 DEF Submit, Used, Lease
      <4>2. lease'[t] = WithQueues(lease[t], lease[t].queues \cup {q})
        BY <1>7, <4>1 DEF WithQueues
      <4> QED
        BY <1>7, <4>1, <4>2, WithQueuesOK
    <3>2. CASE own # "lease"
      <4>1. hold' = [hold EXCEPT ![t].queues = hold[t].queues \cup {q}] /\ lease' = lease
        BY <1>8, <3>2 DEF Submit, Used, Lease
      <4>2. hold'[t] = WithQueues(hold[t], hold[t].queues \cup {q})
        BY <1>7, <4>1 DEF WithQueues
      <4> QED
        BY <1>7, <4>1, <4>2, WithQueuesOK
    <3> QED
      BY <3>1, <3>2
  <2> QED
    BY <1>5, <2>1, <2>2 DEF SameOwners
<1>9. ASSUME NEW pc, NEW q, TakeToken(t, pc, q) PROVE PinsOK'
  BY <1>5, <1>9 DEF TakeToken, owners, memory, SameOwners
<1>10. CASE Register(t)
  <2>1. lease' = [lease EXCEPT ![t].queues = @ \ {call[t].token.queue}] /\ hold' = hold
    BY <1>10 DEF Register
  <2>2. lease'[t] = WithQueues(lease[t], lease[t].queues \ {call[t].token.queue})
    BY <1>7, <2>1 DEF WithQueues
  <2>3. \A p \in Pages : SameOwners(page[p], page'[p]) /\ (IsMapped(page[p]) => IsMapped(page'[p]))
    BY <1>1, <1>10, RegisterPages DEF Steady, Keeps
  <2> QED
    BY <1>5, <1>7, <2>1, <2>2, <2>3, WithQueuesOK
<1>11. CASE Unpin(t)
  <2>1. lease'[t] = NoRange /\ hold' = hold
    BY <1>7, <1>11 DEF Unpin
  <2>2. ASSUME NEW q \in Pages PROVE PageMoves(t, q)
    <3>1. /\ Outside(q, hold[t])' = Outside(q, hold[t]) /\ Inside(q, hold[t])' = Inside(q, hold[t])
          /\ q \notin RangePages(lease[t])'
      BY <2>1, NoRangeOK DEF RangePages, Outside, Inside
    <3>2. LET r == page[q]  s == page'[q] IN
          /\ Keeps(r, s) /\ s.external = r.external /\ s.capture = r.capture
          /\ s.pin = IF q \in RangePages(lease[t]) /\ r.pin > 0 THEN r.pin - 1 ELSE r.pin
      BY <1>1, <1>11, UnpinPages
    <3>3. q \in RangePages(lease[t]) => page[q].pin > 0
      BY OwnersCount
    <3>4. In(q \in RangePages(lease[t])') = 0
      BY <3>1 DEF In
    <3>5. page'[q].pin = page[q].pin - In(q \in RangePages(lease[t]))
      BY <1>6, <3>2, <3>3 DEF In
    <3>6. page'[q].pin > 0 \/ Held(page'[q]) => IsMapped(page'[q])
      BY <1>6, <3>2 DEF Keeps, Held
    <3>7. /\ In(Outside(q, hold[t])') = In(Outside(q, hold[t]))
          /\ In(Inside(q, hold[t])') = In(Inside(q, hold[t]))
      BY <3>1 DEF In
    <3> QED
      BY <1>6, <3>2, <3>4, <3>5, <3>6, <3>7 DEF PageMoves
  <2> QED
    BY <1>4, <2>2
<1>12. ASSUME NEW R, RangePages(R) \subseteq Pages, Acquire(t, R) PROVE PinsOK'
  <2>1. hold[t] = NoRange /\ hold'[t] = R /\ lease' = lease
    BY <1>7, <1>12 DEF Acquire
  <2>2. ASSUME NEW q \in Pages PROVE PageMoves(t, q)
    <3>1. /\ RangePages(lease[t])' = RangePages(lease[t])
          /\ ~Outside(q, hold[t]) /\ ~Inside(q, hold[t])
          /\ (Outside(q, hold[t])' <=> Outside(q, R)) /\ (Inside(q, hold[t])' <=> Inside(q, R))
      BY <2>1, NoRangeOK DEF RangePages, Outside, Inside
    <3>2. LET r == page[q]  s == page'[q] IN
          /\ Keeps(r, s)
          /\ q \notin RangePages(R) => s = r
          /\ q \in RangePages(R) => CountsHold(r, s, R.kind, Holds(r, R.kind) + 1) /\ IsMapped(r)
      BY <1>1, <1>12, AcquirePages
    <3>3. /\ In(Outside(q, hold[t])) = 0 /\ In(Inside(q, hold[t])) = 0
          /\ In(Outside(q, hold[t])') = In(Outside(q, R)) /\ In(Inside(q, hold[t])') = In(Inside(q, R))
      BY <3>1 DEF In
    <3>4. /\ page'[q].pin = page[q].pin
          /\ page'[q].external = page[q].external + In(Outside(q, R))
          /\ page'[q].capture = page[q].capture + In(Inside(q, R))
      BY <1>6, <3>2 DEF In, Outside, Inside, CountsHold, Holds
    <3>5. page'[q].pin > 0 \/ Held(page'[q]) => IsMapped(page'[q])
      BY <1>6, <3>2 DEF Keeps
    <3> QED
      BY <1>6, <3>1, <3>3, <3>4, <3>5 DEF PageMoves
  <2> QED
    BY <1>4, <2>2
<1>13. CASE Release(t)
  <2> DEFINE R == hold[t]
  <2>1. hold'[t] = NoRange /\ lease' = lease
    BY <1>7, <1>13 DEF Release
  <2>2. ASSUME NEW q \in Pages PROVE PageMoves(t, q)
    <3>1. /\ RangePages(lease[t])' = RangePages(lease[t])
          /\ ~Outside(q, hold[t])' /\ ~Inside(q, hold[t])'
      BY <2>1, NoRangeOK DEF RangePages, Outside, Inside
    <3>2. LET r == page[q]  s == page'[q] IN
          /\ Keeps(r, s)
          /\ q \notin RangePages(R) => s = r
          /\ q \in RangePages(R) => CountsHold(r, s, R.kind, Holds(r, R.kind) - 1) /\ IsMapped(r)
      BY <1>1, <1>13, ReleasePages
    <3>3. In(Outside(q, hold[t])') = 0 /\ In(Inside(q, hold[t])') = 0
      BY <3>1 DEF In
    <3>4. /\ page'[q].pin = page[q].pin
          /\ page'[q].external = page[q].external - In(Outside(q, R))
          /\ page'[q].capture = page[q].capture - In(Inside(q, R))
      BY <1>6, <3>2 DEF In, Outside, Inside, CountsHold, Holds
    <3>5. page'[q].pin > 0 \/ Held(page'[q]) => IsMapped(page'[q])
      BY <1>6, <3>2 DEF Keeps
    <3> QED
      BY <1>6, <3>1, <3>3, <3>4, <3>5 DEF PageMoves
  <2> QED
    BY <1>4, <2>2
<1>14. ASSUME NEW v \in Vbars, NEW first \in 1..NPages, NEW last \in 1..NPages, NEW kind \in HoldKinds,
              Acquire(t, [vbar |-> v, first |-> first, last |-> last, kind |-> kind, queues |-> {}])
       PROVE  PinsOK'
  <2> DEFINE R == [vbar |-> v, first |-> first, last |-> last, kind |-> kind, queues |-> {}]
  <2>1. R.vbar = v /\ R.first = first /\ R.last = last
    OBVIOUS
  <2>2. Acquire(t, R)
    BY <1>14
  <2> HIDE DEF R
  <2>3. RangePages(R) \subseteq Pages
    BY <2>1, VbarAssumption DEF RangePages, Pages, VbarAssumption
  <2> QED
    BY <1>12, <2>2, <2>3
<1> QED
  BY <1>8, <1>9, <1>10, <1>11, <1>13, <1>14 DEF ConsumerNext

\* The teardown of a VBAR neither gives nor takes pins and holds.
LEMMA FreePins ==
    ASSUME TypesOK, CallsOK, PinsOK, VbarAssumption, NEW t \in Threads, FreeNext(t)
    PROVE  PinsOK'
<1>1. Acts(t) /\ PagesOK /\ Mine(t) /\ NoThread \notin Threads
  BY ThreadActs, MineStep DEF TypesOK, Acts
<1>2. \A u \in Threads : FaultRange(u)' = FaultRange(u)
  BY <1>1, OtherFaults, OthersAtNoPage DEF Mine
<1>3. UNCHANGED <<lease, hold>>
  BY DEF FreeNext, Free, CheckFree, BeginTeardown, TeardownPage, EndTeardown, owners
<1>4. SUFFICES ASSUME NEW p \in Pages
               PROVE  LET r == page[p]  s == page'[p] IN
                      SameOwners(r, s) /\ (r.pin > 0 \/ Held(r) => (IsMapped(r) => IsMapped(s)))
  BY <1>2, <1>3, PinsStay DEF RangePages
<1>5. ASSUME page' = page
      PROVE  SameOwners(page[p], page'[p]) /\ (IsMapped(page[p]) => IsMapped(page'[p]))
  BY <1>5 DEF SameOwners
<1>6. CASE TeardownPage(t)
  <2> DEFINE q == <<call[t].vbar, call[t].at>>
  <2>1. /\ q \in Pages /\ \A o \in Pages \ {q} : page'[o] = page[o]
        /\ SameOwners(page[q], page'[q])
        /\ Keeps(page[q], page'[q]) \/ ~Busy(call[t].vbar, call[t].at)
    BY <1>1, <1>6, TeardownPages
  <2>2. CASE p = q
    BY <2>1, <2>2 DEF Busy, Keeps
  <2>3. CASE p # q
    BY <2>1, <2>3 DEF SameOwners
  <2> QED
    BY <2>2, <2>3
<1>7. ASSUME NEW v, Free(t, v) PROVE page' = page
  BY <1>7 DEF Free
<1>8. CASE CheckFree(t) \/ BeginTeardown(t)
  BY <1>5, <1>8 DEF CheckFree, BeginTeardown, memory
<1>9. ASSUME NEW refused, EndTeardown(t, refused) PROVE page' = page
  BY <1>9 DEF EndTeardown
<1> QED
  BY <1>5, <1>6, <1>7, <1>8, <1>9 DEF FreeNext

\* No pin and no hold is lost or left behind.
LEMMA PinsKept ==
    ASSUME TypesOK, CallsOK, FaultsOK, TriesOK, PinsOK, VbarAssumption, [Next]_vars
    PROVE  PinsOK'
<1>1. CASE ListNext \/ LimitNext \/ Quiet \/ UNCHANGED vars \/ \E o \in inflight : Finish(o)
  <2>1. UNCHANGED <<page, call, lock, lease, hold>>
    BY <1>1 DEF ListNext, LimitNext, Allocate, Prioritize, Deprioritize, CopyAcquire, CopyRelease,
       SetLimit, Quiet, vars, memory, owners, Finish
  <2> QED
    BY <2>1, PinsStay DEF SameOwners, RangePages, FaultRange
<1> QED
  BY <1>1, ReclaimPins, FaultPins, ConsumerPins, FreePins DEF Next

-----------------------------------------------------------------------------
(* Frozen pages have one owner.                                              *)

FrozenOK ==
    /\ \A p \in Pages : page[p].evicting =>
          /\ IsMapped(page[p]) /\ page[p].pin = 0 /\ ~Held(page[p]) /\ InList(p[1])
          /\ \E t \in Threads : \E k \in call[t].candidates :
                k.page = p /\ k.gen = page[p].gen
    /\ \A t \in Threads : \A k \in call[t].candidates : k.gen <= page[k.page].gen
    /\ \A t, u \in Threads : t # u =>
          \A k \in call[t].candidates, l \in call[u].candidates :
             k.page = l.page => k.gen # l.gen
    /\ \A t \in Threads : call[t].pc = "teardown" =>
          \A p \in Pages : p[1] = call[t].vbar /\ p[2] < call[t].at => ~page[p].evicting

\* A page that is frozen after the step was frozen before it, as idle as it is now.
Cool(r, s) == /\ s.gen >= r.gen
              /\ s.evicting => /\ r.evicting /\ s.gen = r.gen
                               /\ IsMapped(r) => IsMapped(s)
                               /\ r.pin = 0 => s.pin = 0
                               /\ Held(s) => Held(r)

\* A page that is at most given back is nobody's new candidate.
LEMMA CoolPages ==
    ASSUME NEW r, IsPage(r), NEW s, Thaws(r, s)
    PROVE  /\ SameOwners(r, s) /\ (Keeps(r, s) \/ ~s.evicting \/ ~IsMapped(r)) => Cool(r, s)
           /\ ~s.evicting => Cool(r, s)
BY DEF IsPage, Thaws, SameOwners, Keeps, Cool, Held

\* The candidates of thread t stay, or are all given back.
GivesBack(t) ==
    \/ call'[t].candidates = call[t].candidates
    \/ /\ call'[t].candidates = {}
       /\ \A k \in call[t].candidates : StillFrozen(k) => ~page'[k.page].evicting

\* No step but a freeze makes a frozen page anybody else's.
LEMMA FrozenStep ==
    ASSUME PagesOK, PagesOK', CallsOK, FrozenOK, NEW t \in Threads, Only(t), GivesBack(t),
           \A p \in Pages : Cool(page[p], page'[p]),
           \A p \in Pages : page'[p].evicting /\ InList(p[1]) => InList(p[1])',
           call'[t].pc = "teardown" =>
              \A p \in Pages : p[1] = call'[t].vbar /\ p[2] < call'[t].at => ~page'[p].evicting
    PROVE  FrozenOK'
<1>1. \A u \in Threads : \A k \in call[u].candidates : k.page \in Pages /\ k.gen \in Nat
  BY DEF CallsOK, CallOK
<1>2. \A u \in Threads : call'[u].candidates \subseteq call[u].candidates
  BY DEF Only, GivesBack
<1>3. ASSUME NEW p \in Pages, page'[p].evicting
      PROVE  /\ IsMapped(page'[p]) /\ page'[p].pin = 0 /\ ~Held(page'[p]) /\ InList(p[1])'
             /\ \E u \in Threads : \E k \in call'[u].candidates :
                   k.page = p /\ k.gen = page'[p].gen
  <2>1. page[p].evicting /\ page'[p].gen = page[p].gen
    BY <1>3 DEF Cool
  <2>2. IsMapped(page[p]) /\ page[p].pin = 0 /\ ~Held(page[p]) /\ InList(p[1])
    BY <2>1 DEF FrozenOK
  <2>7. PICK u \in Threads : \E k \in call[u].candidates : k.page = p /\ k.gen = page[p].gen
    BY <2>1 DEF FrozenOK
  <2>3. PICK k \in call[u].candidates : k.page = p /\ k.gen = page[p].gen
    BY <2>7
  <2>4. k \in call'[u].candidates
    <3>1. CASE u = t
      <4>1. StillFrozen(k)
        BY <2>1, <2>2, <2>3 DEF StillFrozen
      <4> QED
        BY <1>3, <2>3, <3>1, <4>1 DEF GivesBack
    <3>2. CASE u # t
      BY <3>2 DEF Only
    <3> QED
      BY <3>1, <3>2
  <2>5. IsMapped(page'[p]) /\ page'[p].pin = 0 /\ ~Held(page'[p])
    BY <1>3, <2>2 DEF Cool
  <2>6. InList(p[1])'
    BY <1>3, <2>2
  <2> QED
    BY <2>1, <2>3, <2>4, <2>5, <2>6
<1>4. ASSUME NEW u \in Threads, NEW k \in call'[u].candidates PROVE k.gen <= page'[k.page].gen
  <2>1. k \in call[u].candidates /\ k.page \in Pages /\ k.gen \in Nat
    BY <1>1, <1>2
  <2>2. k.gen <= page[k.page].gen /\ page[k.page].gen <= page'[k.page].gen
    BY <2>1 DEF FrozenOK, Cool
  <2>3. page[k.page].gen \in Nat /\ page'[k.page].gen \in Nat
    BY <2>1 DEF PagesOK, IsPage
  <2> QED
    BY <2>1, <2>2, <2>3
<1>5. ASSUME NEW u \in Threads, NEW w \in Threads, u # w,
             NEW k \in call'[u].candidates, NEW l \in call'[w].candidates, k.page = l.page
      PROVE  k.gen # l.gen
  BY <1>2, <1>5 DEF FrozenOK
<1>6. ASSUME NEW u \in Threads, call'[u].pc = "teardown",
             NEW p \in Pages, p[1] = call'[u].vbar, p[2] < call'[u].at
      PROVE  ~page'[p].evicting
  <2>1. CASE u = t
    BY <1>6, <2>1
  <2>2. CASE u # t
    <3>1. call'[u] = call[u]
      BY <2>2 DEF Only
    <3> QED
      BY <1>6, <3>1 DEF FrozenOK, Cool
  <2> QED
    BY <2>1, <2>2
<1> QED
  BY <1>3, <1>4, <1>5, <1>6 DEF FrozenOK

\* A freeze adds candidates of its own, of a generation nobody has seen.
LEMMA FreezeFrozen ==
    ASSUME TypesOK, CallsOK, FrozenOK, VbarAssumption, NEW t \in Threads, Freeze(t)
    PROVE  FrozenOK'
<1> DEFINE c == call[t]
<1>1. Acts(t) /\ PagesOK /\ Only(t) /\ vbar' = vbar /\ lock' = lock /\ c.pc = "freeze"
  <2>1. ReclaimNext(t) /\ vbar' = vbar /\ lock' = lock /\ c.pc = "freeze"
    BY DEF ReclaimNext, Freeze
  <2> QED
    BY <2>1, ThreadActs, MineStep DEF TypesOK, Mine
<1>2. PICK K \in SUBSET Eligible(c) :
         /\ \A p \in Pages \ K : page'[p] = page[p]
         /\ \A p \in K : FrozenAs(page[p], page'[p])
         /\ K # {} => Unlocked(t) /\ Froze(t, K)
         /\ K = {} => call'[t] = Stopped(c, c.need)
  BY <1>1, FreezePages, ZenonT(60)
<1>3. c.candidates = {}
  BY <1>1 DEF Acts, CallOK
<1>4. CASE K = {}
  <2>1. call'[t].candidates = {} /\ call'[t].pc # "teardown"
    <3>1. /\ Stopped(c, c.need).candidates = {}
          /\ Stopped(c, c.need).pc \in {"idle", "enter", "page", "snapshot"}
      <4> DEFINE mine == lock = t
      <4>1. CallOK(c, mine) /\ mine \in BOOLEAN /\ async \in BOOLEAN
        BY <1>1 DEF Acts
      <4>2. c.pc \in {"freeze", "sync", "commit", "drain", "redrain"}
        BY <1>1
      <4> HIDE DEF mine, c
      <4> QED
        BY ONLY <4>1, <4>2, StoppedOK
    <3> QED
      BY <1>2, <1>4, <3>1
  <2>2. \A p \in Pages : page'[p] = page[p]
    BY <1>2, <1>4
  <2>3. \A p \in Pages : Cool(page[p], page'[p])
    BY <1>1, <2>2 DEF PagesOK, IsPage, Cool
  <2>4. PagesOK'
    <3>2. DOMAIN page' = Pages
      BY DEF Freeze
    <3> QED
      BY <1>1, <2>2, <3>2 DEF PagesOK
  <2>5. GivesBack(t)
    BY <1>3, <2>1 DEF GivesBack
  <2> QED
    BY <1>1, <2>1, <2>3, <2>4, <2>5, FrozenStep DEF InList
<1>5. CASE K # {}
  <2>1. /\ call'[t].candidates = {[page |-> p, serial |-> page[p].serial, gen |-> page[p].gen + 1] : p \in K}
        /\ call'[t].pc \in {"commit", "sync"} /\ Unlocked(t) /\ K \subseteq Pages
    BY <1>2, <1>5 DEF Froze, Eligible
  <2>2. ASSUME NEW p \in K
        PROVE  /\ IsMapped(page[p]) /\ page[p].pin = 0 /\ ~Held(page[p]) /\ ~page[p].evicting
               /\ InList(p[1]) /\ p \in Pages /\ page[p].gen \in Nat
    BY <1>1, <1>2 DEF Eligible, Idle, PagesOK, IsPage
  <2>3. ASSUME NEW p \in K
        PROVE  /\ IsMapped(page'[p]) /\ page'[p].pin = 0 /\ ~Held(page'[p])
               /\ page'[p].gen = page[p].gen + 1
    BY <1>2, <2>2 DEF FrozenAs, Keeps, SameOwners, Held
  <2>4. ASSUME NEW k \in call'[t].candidates
        PROVE  k.page \in K /\ k.gen = page[k.page].gen + 1
    BY <2>1
  <2>5. ASSUME NEW p \in K PROVE \E k \in call'[t].candidates : k.page = p /\ k.gen = page'[p].gen
    <3> DEFINE k == [page |-> p, serial |-> page[p].serial, gen |-> page[p].gen + 1]
    <3>1. k \in call'[t].candidates /\ k.page = p /\ k.gen = page[p].gen + 1
      BY <2>1
    <3> QED
      BY <2>3, <3>1
  <2>6. \A u \in Threads \ {t} : call'[u] = call[u]
    BY <1>1 DEF Only
  <2>7. \A u \in Threads : \A k \in call[u].candidates :
           k.page \in Pages /\ k.gen \in Nat /\ k.gen <= page[k.page].gen
    BY DEF CallsOK, CallOK, FrozenOK
  <2>8. \A v : InList(v)' <=> InList(v)
    BY <1>1 DEF InList
  <2>9. ASSUME NEW p \in Pages, page'[p].evicting
        PROVE  /\ IsMapped(page'[p]) /\ page'[p].pin = 0 /\ ~Held(page'[p]) /\ InList(p[1])'
               /\ \E u \in Threads : \E k \in call'[u].candidates :
                     k.page = p /\ k.gen = page'[p].gen
    <3>1. CASE p \in K
      BY <2>2, <2>3, <2>5, <2>8, <3>1
    <3>2. CASE p \notin K
      <4>1. page'[p] = page[p]
        BY <1>2, <3>2
      <4>2. /\ IsMapped(page[p]) /\ page[p].pin = 0 /\ ~Held(page[p]) /\ InList(p[1])
            /\ \E u \in Threads : \E k \in call[u].candidates :
                  k.page = p /\ k.gen = page[p].gen
        BY <2>9, <4>1 DEF FrozenOK
      <4>5. PICK u \in Threads : \E k \in call[u].candidates : k.page = p /\ k.gen = page[p].gen
        BY <4>2
      <4>3. PICK k \in call[u].candidates : k.page = p /\ k.gen = page[p].gen
        BY <4>5
      <4>4. u # t
        BY <1>3, <4>3
      <4> QED
        BY <2>6, <2>8, <4>1, <4>2, <4>3, <4>4
    <3> QED
      BY <3>1, <3>2
  <2>10. ASSUME NEW u \in Threads, NEW k \in call'[u].candidates PROVE k.gen <= page'[k.page].gen
    <3>1. CASE u = t
      BY <2>2, <2>3, <2>4, <3>1
    <3>2. CASE u # t
      <4>1. k \in call[u].candidates
        BY <2>6, <3>2
      <4>2. CASE k.page \in K
        BY <2>2, <2>3, <2>7, <4>1, <4>2
      <4>3. CASE k.page \notin K
        BY <1>2, <2>7, <4>1, <4>3
      <4> QED
        BY <4>2, <4>3
    <3> QED
      BY <3>1, <3>2
  <2>11. ASSUME NEW u \in Threads \ {t}, NEW k \in call'[t].candidates, NEW l \in call'[u].candidates,
                k.page = l.page
         PROVE  k.gen # l.gen
    <3>1. l \in call[u].candidates
      BY <2>6
    <3>2. l.gen \in Nat /\ l.gen <= page[l.page].gen
      BY <2>7, <3>1
    <3> QED
      BY <2>2, <2>4, <2>11, <3>2
  <2>12. ASSUME NEW u \in Threads, NEW w \in Threads, u # w,
                NEW k \in call'[u].candidates, NEW l \in call'[w].candidates, k.page = l.page
         PROVE  k.gen # l.gen
    <3>1. CASE u = t \/ w = t
      BY <2>11, <2>12, <3>1
    <3>2. CASE u # t /\ w # t
      BY <2>6, <2>12, <3>2 DEF FrozenOK
    <3> QED
      BY <3>1, <3>2
  <2>13. ASSUME NEW u \in Threads, call'[u].pc = "teardown",
                NEW p \in Pages, p[1] = call'[u].vbar, p[2] < call'[u].at
         PROVE  ~page'[p].evicting
    <3>1. u # t
      BY <2>1, <2>13
    <3>2. call[u].pc = "teardown"
      BY <2>6, <2>13, <3>1
    <3>3. lock = u
      BY <3>2 DEF CallsOK, CallOK
    <3>4. FALSE
      BY <2>1, <3>1, <3>3, VbarAssumption DEF Unlocked, VbarAssumption
    <3> QED
      BY <3>4
  <2> QED
    BY <2>9, <2>10, <2>12, <2>13 DEF FrozenOK
<1> QED
  BY <1>4, <1>5

\* What a step that changes no state of a VBAR leaves.
StatesSame == \A v \in Vbars : vbar'[v].state = vbar[v].state

\* Only vbar_allocate and the steps of vbar_free change the state of a VBAR.
LEMMA StatesStay ==
    ASSUME TypesOK, NEW t \in Threads,
           \/ ReclaimNext(t) \/ FaultNext(t) \/ ConsumerNext(t)
           \/ CheckFree(t) \/ BeginTeardown(t) \/ TeardownPage(t)
    PROVE  StatesSame
<1>1. DOMAIN vbar = Vbars /\ \A v \in Vbars : DOMAIN vbar[v] = VbarFields
  BY DEF TypesOK, VbarsOK
<1>2. ASSUME vbar' = vbar PROVE StatesSame
  BY <1>2 DEF StatesSame
<1>3. ASSUME NEW v, NEW n,
             vbar' = [vbar EXCEPT ![v].resident = n] \/ vbar' = [vbar EXCEPT ![v].watermark = n]
      PROVE  StatesSame
  BY <1>1, <1>3 DEF StatesSame, VbarFields
<1>4. CASE ReclaimNext(t)
  <2>1. CASE Freeze(t) \/ SynchronizeFails(t)
    BY <1>2, <2>1 DEF Freeze, SynchronizeFails
  <2>2. CASE Commit(t)
    BY <1>1, <2>2, CommitVbars DEF StatesSame, VbarFields
  <2>3. CASE Snapshot(t) \/ Synchronized(t)
    BY <1>2, <2>3 DEF Snapshot, Synchronized, memory
  <2>4. ASSUME NEW need, NEW keep, Pressure(t, need, keep) PROVE StatesSame
    BY <1>2, <2>4 DEF Pressure, memory
  <2>5. ASSUME NEW v, NEW n, SetWatermark(t, v, n) \/ FreeMemory(t, v, n) PROVE StatesSame
    BY <1>3, <2>5 DEF SetWatermark, FreeMemory
  <2> QED
    BY <1>4, <2>1, <2>2, <2>3, <2>4, <2>5 DEF ReclaimNext
<1>5. CASE FaultNext(t)
  <2>1. CASE FaultHit(t) \/ FaultUnknown(t) \/ FaultMiss(t) \/ ReturnFault(t)
    BY <1>2, <2>1 DEF FaultHit, FaultUnknown, FaultMiss, ReturnFault, memory
  <2>2. CASE FaultRestore(t)
    BY <1>3, <2>2 DEF FaultRestore
  <2>3. ASSUME NEW deficit, FaultMap(t, deficit) PROVE StatesSame
    BY <1>2, <1>3, <2>3 DEF FaultMap
  <2>4. ASSUME NEW v, NEW first, NEW last, NEW deficit, Fault(t, v, first, last, deficit)
        PROVE  StatesSame
    BY <1>2, <2>4 DEF Fault, memory
  <2>5. ASSUME NEW fits, EnterFault(t, fits) PROVE StatesSame
    BY <1>2, <1>3, <2>5 DEF EnterFault
  <2> QED
    BY <1>5, <2>1, <2>2, <2>3, <2>4, <2>5 DEF FaultNext
<1>6. CASE ConsumerNext(t)
  <2>1. ASSUME NEW own, NEW q, Submit(t, own, q) \/ \E pc : TakeToken(t, pc, q) PROVE StatesSame
    BY <1>2, <2>1 DEF Submit, TakeToken, memory
  <2>2. CASE Register(t) \/ Unpin(t)
    BY <1>2, <2>2 DEF Register, Unpin
  <2>3. CASE Release(t)
    BY <1>2, <2>3 DEF Release
  <2>4. ASSUME NEW R, Acquire(t, R) PROVE StatesSame
    BY <1>2, <2>4 DEF Acquire
  <2> QED
    BY <1>6, <2>1, <2>2, <2>3, <2>4 DEF ConsumerNext
<1>7. CASE CheckFree(t) \/ BeginTeardown(t)
  BY <1>2, <1>7 DEF CheckFree, BeginTeardown, memory
<1>8. CASE TeardownPage(t)
  BY <1>2, <1>3, <1>8 DEF TeardownPage
<1> QED
  BY <1>4, <1>5, <1>6, <1>7, <1>8

\* A reclaim hands the pages it froze to its commit, which frees them or gives
\* them back.
LEMMA ReclaimFrozen ==
    ASSUME TypesOK, CallsOK, FrozenOK, VbarAssumption, NEW t \in Threads, ReclaimNext(t), PagesOK'
    PROVE  FrozenOK'
<1>1. Acts(t) /\ PagesOK /\ Only(t) /\ lock' = lock
  <2>1. lock' = lock
    BY DEF ReclaimNext, Pressure, SetWatermark, FreeMemory, Snapshot, Freeze, Commit, Synchronized,
       SynchronizeFails
  <2> QED
    BY <2>1, ThreadActs, MineStep DEF TypesOK, Mine
<1>2. \A p \in Pages : InList(p[1]) => InList(p[1])'
  BY StatesStay DEF StatesSame, InList, Pages
<1>3. call'[t].pc # "teardown"
  <2>1. SUFFICES ASSUME call'[t].pc = "teardown" PROVE FALSE
    OBVIOUS
  <2>2. CallOK(call'[t], lock' = t)
    <3>1. CallsOK' /\ async' = async
      BY ReclaimCalls, MineStep DEF Mine
    <3> QED
      BY <3>1 DEF CallsOK, CallOK
  <2>3. lock = t /\ call'[t].kind = "free"
    BY <1>1, <2>1, <2>2 DEF CallOK, Closing
  <2>4. call[t].kind = "free"
    <3>1. call[t] # NoCall /\ call'[t] # NoCall
      BY <1>1, <2>1, <2>3 DEF Acts, NoCall
    <3> QED
      BY <2>3, <3>1, ReclaimStaysAt DEF StaysAt
  <2>5. call[t].pc = "teardown"
    BY <1>1, <2>3, <2>4 DEF Acts, CallOK, Faulting, Closing, Reclaims
  <2>6. call[t] # NoCall
    BY <2>5 DEF NoCall
  <2>7. ~(Snapshot(t) \/ Freeze(t) \/ Commit(t) \/ Synchronized(t) \/ SynchronizeFails(t))
    BY <2>5 DEF Snapshot, Freeze, Commit, Synchronized, SynchronizeFails
  <2>8. \A v, n : ~Pressure(t, v, n) /\ ~SetWatermark(t, v, n) /\ ~FreeMemory(t, v, n)
    BY <2>6 DEF Pressure, SetWatermark, FreeMemory
  <2> QED
    BY <2>7, <2>8 DEF ReclaimNext
<1>4. ASSUME page' = page, call'[t].candidates = call[t].candidates PROVE FrozenOK'
  <2>1. GivesBack(t) /\ \A p \in Pages : Cool(page[p], page'[p])
    BY <1>1, <1>4 DEF GivesBack, PagesOK, IsPage, Cool
  <2> QED
    BY <1>1, <1>2, <1>3, <2>1, FrozenStep
<1>5. CASE Commit(t)
  <2>1. /\ \A p \in Pages :
             /\ SameOwners(page[p], page'[p]) /\ Thaws(page[p], page'[p])
             /\ ~Freed(t, p) => Keeps(page[p], page'[p])
        /\ \A k \in call[t].candidates : StillFrozen(k) => ~page'[k.page].evicting
        /\ call'[t].candidates = {}
    BY <1>1, <1>5, CommitPages
  <2>2. ASSUME NEW p \in Pages PROVE Cool(page[p], page'[p])
    <3>1. Freed(t, p) => ~page'[p].evicting
      BY <2>1 DEF Freed, Current
    <3>2. IsPage(page[p])
      BY <1>1 DEF PagesOK
    <3> QED
      BY <2>1, <3>1, <3>2, CoolPages
  <2>3. GivesBack(t)
    BY <2>1 DEF GivesBack
  <2> QED
    BY <1>1, <1>2, <1>3, <2>2, <2>3, FrozenStep
<1>6. CASE SynchronizeFails(t)
  <2>1. /\ \A p \in Pages : Steady(page[p], page'[p])
        /\ \A k \in call[t].candidates : StillFrozen(k) => ~page'[k.page].evicting
        /\ call'[t].candidates = {}
    BY <1>1, <1>6, SynchronizeFailsPages
  <2>2. \A p \in Pages : Cool(page[p], page'[p])
    BY <1>1, <2>1, CoolPages DEF Steady, PagesOK
  <2>3. GivesBack(t)
    BY <2>1 DEF GivesBack
  <2> QED
    BY <1>1, <1>2, <1>3, <2>2, <2>3, FrozenStep
<1>7. CASE Snapshot(t)
  <2>1. PICK f : call' = [call EXCEPT ![t].pc = "freeze", ![t].frontier = f]
    BY <1>7 DEF Snapshot
  <2>2. call'[t].candidates = call[t].candidates
    BY <1>1, <2>1 DEF Acts, CallOK, IsCall, CallFields
  <2> QED
    BY <1>4, <1>7, <2>2 DEF Snapshot, memory
<1>8. CASE Synchronized(t)
  <2>1. \E pc : call'[t] = [call[t] EXCEPT !.waits = {}, !.pc = pc]
    BY <1>1, <1>8 DEF Synchronized, Acts
  <2>2. call'[t].candidates = call[t].candidates
    BY <1>1, <2>1 DEF Acts, CallOK, IsCall, CallFields
  <2> QED
    BY <1>4, <1>8, <2>2 DEF Synchronized, memory
<1>9. ASSUME NEW need, NEW keep, Pressure(t, need, keep) PROVE FrozenOK'
  <2>1. \/ call'[t] = [NoCall EXCEPT !.pc = "snapshot", !.kind = "retired", !.need = need,
                                     !.keep = keep, !.then = "idle"]
        \/ call'[t] = [NoCall EXCEPT !.pc = "idle"]
        \/ call'[t] = [NoCall EXCEPT !.pc = "freeze", !.kind = "reference", !.need = need,
                                     !.keep = keep]
    <3>1. call'[t] = IF async THEN Reclaim(NoCall, need, keep, "idle")
                     ELSE [NoCall EXCEPT !.pc = "freeze", !.kind = "reference", !.need = need,
                                         !.keep = keep]
      BY <1>1, <1>9 DEF Pressure, Acts
    <3>2. CASE async
      BY <3>1, <3>2 DEF Reclaim
    <3>3. CASE ~async
      BY <3>1, <3>3
    <3> QED
      BY <3>2, <3>3
  <2>2. call'[t].candidates = {} /\ call[t].candidates = {}
    <3>1. call[t] = NoCall
      BY <1>9 DEF Pressure
    <3>2. NoCall.candidates = {} /\ DOMAIN NoCall = CallFields
      BY DEF NoCall, CallFields
    <3>3. \A need1, keep1 :
             /\ [NoCall EXCEPT !.pc = "snapshot", !.kind = "retired", !.need = need1, !.keep = keep1,
                               !.then = "idle"].candidates = {}
             /\ [NoCall EXCEPT !.pc = "idle"].candidates = {}
             /\ [NoCall EXCEPT !.pc = "freeze", !.kind = "reference", !.need = need1,
                               !.keep = keep1].candidates = {}
      BY <3>2 DEF CallFields
    <3>4. call'[t].candidates = {}
      BY <2>1, <3>3
    <3> QED
      BY <3>1, <3>2, <3>4
  <2> QED
    BY <1>4, <1>9, <2>2 DEF Pressure, memory
<1>10. ASSUME NEW v, NEW n, SetWatermark(t, v, n) \/ FreeMemory(t, v, n) PROVE FrozenOK'
  <2>1. call'[t] = NoCall \/ \E first, last, need : call'[t] = FreeRange(v, first, last, need)
    BY <1>1, <1>10 DEF SetWatermark, FreeMemory, Acts
  <2>2. \A first, last, need : FreeRange(v, first, last, need).candidates = {}
    BY DEF FreeRange, NoCall
  <2>3. call'[t].candidates = {} /\ call[t].candidates = {}
    BY <1>10, <2>1, <2>2 DEF NoCall, SetWatermark, FreeMemory
  <2> QED
    BY <1>4, <1>10, <2>3 DEF SetWatermark, FreeMemory
<1> QED
  BY <1>5, <1>6, <1>7, <1>8, <1>9, <1>10, FreezeFrozen DEF ReclaimNext

\* A fault gives back a frozen page it needs, and freezes none.
LEMMA FaultFrozen ==
    ASSUME TypesOK, CallsOK, FaultsOK, TriesOK, FrozenOK, VbarAssumption, NEW t \in Threads,
           FaultNext(t), PagesOK'
    PROVE  FrozenOK'
<1>1. Acts(t) /\ PagesOK /\ Only(t)
  BY ThreadActs, MineStep DEF TypesOK, Mine
<1>2. \A p \in Pages : InList(p[1]) => InList(p[1])'
  BY StatesStay DEF StatesSame, InList, Pages
<1>3. CallOK(call'[t], lock' = t)
  <2>1. CallsOK' /\ async' = async
    BY FaultCalls, MineStep DEF Mine
  <2> QED
    BY <2>1 DEF CallsOK, CallOK
<1>4. call[t].candidates = {}
  <2>1. call[t].pc \notin {"sync", "commit"}
    <3>1. ASSUME call[t].pc \in {"sync", "commit"} PROVE FALSE
      <4>1. ~AtPage(t) /\ call[t] # NoCall
        BY <3>1 DEF AtPage, NoCall
      <4>2. ~(FaultHit(t) \/ FaultUnknown(t) \/ FaultRestore(t) \/ FaultMiss(t) \/ ReturnFault(t))
        BY <3>1, <4>1 DEF FaultHit, FaultUnknown, FaultRestore, FaultMiss, ReturnFault
      <4>3. /\ \A deficit : ~FaultMap(t, deficit)
            /\ \A fits : ~EnterFault(t, fits)
            /\ \A v, first, last, deficit : ~Fault(t, v, first, last, deficit)
        BY <3>1, <4>1 DEF FaultMap, EnterFault, Fault
      <4> QED
        BY <4>2, <4>3 DEF FaultNext
    <3> QED
      BY <3>1
  <2> QED
    BY <1>1, <2>1 DEF Acts, CallOK
<1>5. ASSUME \A p \in Pages : Cool(page[p], page'[p]), call'[t].candidates = {}, call'[t].kind # "free"
      PROVE  FrozenOK'
  <2>1. GivesBack(t)
    BY <1>4, <1>5 DEF GivesBack
  <2>2. call'[t].pc # "teardown"
    BY <1>3, <1>5 DEF CallOK, Closing
  <2> QED
    BY <1>1, <1>2, <1>5, <2>1, <2>2, FrozenStep
<1>6. \A p \in Pages : IsPage(page[p])
  BY <1>1 DEF PagesOK
<1>7. NoCall.candidates = {} /\ NoCall.kind # "free"
  BY DEF NoCall
<1>8. CASE FaultBegins(t)
  <2>1. \A p \in Pages : Cool(page[p], page'[p])
    BY <1>6, <1>8 DEF FaultBegins, IsPage, Cool
  <2> QED
    BY <1>5, <1>8, <2>1 DEF FaultBegins
<1>9. CASE AtPage(t) /\ FaultPasses(t)
  <2> DEFINE p == FaultPage(t)
  <2>1. ASSUME NEW q \in Pages PROVE Cool(page[q], page'[q])
    <3>1. CASE q = p
      BY <1>6, <1>9, <3>1, CoolPages DEF FaultPasses
    <3>2. CASE q # p
      BY <1>6, <1>9, <3>2 DEF FaultPasses, IsPage, Cool
    <3> QED
      BY <3>1, <3>2
  <2>2. call'[t].candidates = {} /\ call'[t].kind # "free"
    <3>1. call'[t] = Advanced(call[t]) /\ IsCall(call[t]) /\ call[t].kind = "none"
      BY <1>1, <1>9, AtPageFacts DEF FaultPasses, Acts, CallOK
    <3> QED
      BY <1>4, <3>1 DEF Advanced, IsCall, CallFields
  <2> QED
    BY <1>5, <2>1, <2>2
<1>10. CASE AtPage(t) /\ FaultRetries(t)
  <2> DEFINE p == FaultPage(t)
  <2>1. ASSUME NEW q \in Pages PROVE Cool(page[q], page'[q])
    <3>1. CASE q = p
      BY <1>6, <1>10, <3>1, CoolPages DEF FaultRetries
    <3>2. CASE q # p
      BY <1>6, <1>10, <3>2 DEF FaultRetries, IsPage, Cool
    <3> QED
      BY <3>1, <3>2
  <2> QED
    BY <1>5, <1>10, <2>1 DEF FaultRetries
<1>11. CASE FaultStops(t)
  <2>1. ASSUME NEW q \in Pages PROVE Cool(page[q], page'[q])
    <3>1. LET r == page[q]  s == page'[q] IN
          /\ Thaws(r, s) /\ (IsMapped(r) => Keeps(r, s))
          /\ s.pin = (IF q \in FaultRange(t) /\ r.pin > 0 THEN r.pin - 1 ELSE r.pin)
          /\ s.external = r.external /\ s.capture = r.capture
      BY <1>11 DEF FaultStops
    <3> QED
      BY <1>6, <3>1 DEF Thaws, Keeps, Cool, Held
  <2> QED
    BY <1>5, <1>7, <1>11, <2>1 DEF FaultStops
<1>12. CASE ReturnFault(t)
  <2>1. \A p \in Pages : Cool(page[p], page'[p])
    BY <1>1, <1>6, <1>12, ReturnFaultPages, CoolPages DEF Steady
  <2>2. call'[t] = NoCall
    BY <1>1, <1>12 DEF ReturnFault, Acts
  <2> QED
    BY <1>5, <1>7, <2>1, <2>2
<1> QED
  BY <1>8, <1>9, <1>10, <1>11, <1>12, FaultKinds

\* So do consumers.
LEMMA ConsumerFrozen ==
    ASSUME TypesOK, CallsOK, FrozenOK, VbarAssumption, NEW t \in Threads, ConsumerNext(t), PagesOK'
    PROVE  FrozenOK'
<1>1. Acts(t) /\ PagesOK /\ Only(t)
  BY ThreadActs, MineStep DEF TypesOK, Mine
<1>2. \A p \in Pages : InList(p[1]) => InList(p[1])'
  BY StatesStay DEF StatesSame, InList, Pages
<1>3. GivesBack(t) /\ call'[t].pc # "teardown"
  BY OthersAtNoPage DEF GivesBack
<1>4. SUFFICES \A p \in Pages : Cool(page[p], page'[p])
  BY <1>1, <1>2, <1>3, FrozenStep
<1>5. \A p \in Pages : IsPage(page[p])
  BY <1>1 DEF PagesOK
<1>6. ASSUME page' = page PROVE \A p \in Pages : Cool(page[p], page'[p])
  BY <1>5, <1>6 DEF IsPage, Cool
<1>7. ASSUME NEW own, NEW q, Submit(t, own, q) \/ \E pc : TakeToken(t, pc, q) PROVE page' = page
  BY <1>7 DEF Submit, TakeToken, memory
<1>8. CASE Register(t)
  BY <1>1, <1>5, <1>8, RegisterPages, CoolPages DEF Steady
<1>9. CASE Unpin(t)
  <2>1. ASSUME NEW q \in Pages PROVE Cool(page[q], page'[q])
    <3>1. LET r == page[q]  s == page'[q] IN
          /\ Thaws(r, s) /\ Keeps(r, s) /\ s.external = r.external /\ s.capture = r.capture
          /\ s.pin = (IF q \in RangePages(lease[t]) /\ r.pin > 0 THEN r.pin - 1 ELSE r.pin)
      BY <1>1, <1>9, UnpinPages
    <3> QED
      BY <1>5, <3>1 DEF Thaws, Keeps, Cool, Held
  <2> QED
    BY <2>1
<1>10. CASE Release(t)
  <2>1. ASSUME NEW q \in Pages PROVE Cool(page[q], page'[q])
    <3>1. LET r == page[q]  s == page'[q]  R == hold[t] IN
          /\ Thaws(r, s) /\ (q \notin RangePages(R) => s = r)
          /\ q \in RangePages(R) => ~s.evicting
      BY <1>1, <1>10, ReleasePages
    <3> QED
      BY <1>5, <3>1, CoolPages DEF IsPage, Cool
  <2> QED
    BY <2>1
<1>11. ASSUME NEW R, Acquire(t, R) PROVE \A p \in Pages : Cool(page[p], page'[p])
  <2>1. ASSUME NEW q \in Pages PROVE Cool(page[q], page'[q])
    <3>1. LET r == page[q]  s == page'[q] IN
          /\ Thaws(r, s) /\ (q \notin RangePages(R) => s = r)
          /\ q \in RangePages(R) => ~s.evicting
      BY <1>1, <1>11, AcquirePages
    <3> QED
      BY <1>5, <3>1, CoolPages DEF IsPage, Cool
  <2> QED
    BY <2>1
<1> QED
  BY <1>6, <1>7, <1>8, <1>9, <1>10, <1>11 DEF ConsumerNext

\* A teardown passes no page that is still frozen, and stops if one is owned.
LEMMA FreeFrozen ==
    ASSUME TypesOK, CallsOK, FrozenOK, VbarAssumption, NEW t \in Threads, FreeNext(t), PagesOK'
    PROVE  FrozenOK'
<1> DEFINE c == call[t]
<1>1. Acts(t) /\ PagesOK /\ Only(t) /\ IsCall(c)
  BY ThreadActs, MineStep DEF TypesOK, Mine, Acts, CallOK
<1>2. GivesBack(t)
  BY OthersAtNoPage DEF GivesBack
<1>3. \A p \in Pages : IsPage(page[p])
  BY <1>1 DEF PagesOK
<1>4. ASSUME page' = page PROVE \A p \in Pages : Cool(page[p], page'[p])
  BY <1>3, <1>4 DEF IsPage, Cool
<1>5. ASSUME NEW v \in Vbars, Free(t, v) PROVE FrozenOK'
  <2>1. \A p \in Pages : Cool(page[p], page'[p])
    BY <1>4, <1>5 DEF Free
  <2>2. \A p \in Pages : InList(p[1]) => InList(p[1])'
    BY <1>5 DEF Free, InList, Pages, TypesOK, VbarsOK, VbarFields
  <2>3. call'[t].pc # "teardown"
    BY <1>1, <1>5 DEF Free, Acts, NoCall
  <2> QED
    BY <1>1, <1>2, <2>1, <2>2, <2>3, FrozenStep
<1>6. CASE CheckFree(t) \/ BeginTeardown(t)
  <2>1. \A p \in Pages : Cool(page[p], page'[p])
    BY <1>4, <1>6 DEF CheckFree, BeginTeardown, memory
  <2>2. \A p \in Pages : InList(p[1]) => InList(p[1])'
    BY <1>6, StatesStay DEF StatesSame, InList, Pages
  <2>3. call'[t].pc = "teardown" =>
          \A p \in Pages : p[1] = call'[t].vbar /\ p[2] < call'[t].at => ~page'[p].evicting
    <3>1. CASE CheckFree(t)
      BY <1>1, <3>1 DEF CheckFree, Acts, NoCall, IsCall, CallFields
    <3>2. CASE BeginTeardown(t)
      <4>1. call'[t].at = 1
        BY <1>1, <3>2 DEF BeginTeardown, Acts, IsCall, CallFields
      <4>2. \A p \in Pages : ~(p[2] < 1)
        BY VbarAssumption DEF Pages, VbarAssumption
      <4> QED
        BY <4>1, <4>2
    <3> QED
      BY <1>6, <3>1, <3>2
  <2> QED
    BY <1>1, <1>2, <2>1, <2>2, <2>3, FrozenStep
<1>7. CASE TeardownPage(t)
  <2> DEFINE q == <<c.vbar, c.at>>
  <2>1. /\ q \in Pages /\ \A o \in Pages \ {q} : page'[o] = page[o]
        /\ SameOwners(page[q], page'[q]) /\ Thaws(page[q], page'[q])
        /\ call'[t] # NoCall => ~page'[q].evicting
        /\ Keeps(page[q], page'[q]) \/ ~page'[q].evicting
    BY <1>1, <1>7, TeardownPages
  <2>2. ASSUME NEW p \in Pages PROVE Cool(page[p], page'[p])
    <3>1. CASE p = q
      BY <1>3, <2>1, <3>1, CoolPages
    <3>2. CASE p # q
      BY <1>3, <2>1, <3>2 DEF IsPage, Cool
    <3> QED
      BY <3>1, <3>2
  <2>3. \A p \in Pages : InList(p[1]) => InList(p[1])'
    BY <1>7, StatesStay DEF StatesSame, InList, Pages
  <2>4. call'[t].pc = "teardown" =>
          \A p \in Pages : p[1] = call'[t].vbar /\ p[2] < call'[t].at => ~page'[p].evicting
    <3>1. call'[t] = NoCall \/ call'[t] = [c EXCEPT !.at = @ + 1]
      <4>1. call' = [call EXCEPT ![t] = NoCall] \/ call' = [call EXCEPT ![t].at = @ + 1]
        BY <1>7 DEF TeardownPage
      <4> QED
        BY <1>1, <4>1 DEF Acts
    <3>2. CASE call'[t] = NoCall
      BY <3>2 DEF NoCall
    <3>3. CASE call'[t] = [c EXCEPT !.at = @ + 1]
      <4>1. call'[t].vbar = c.vbar /\ call'[t].at = c.at + 1 /\ call'[t].pc = c.pc
        BY <1>1, <3>3 DEF IsCall, CallFields
      <4>2. c.pc = "teardown" /\ c.at \in Nat
        BY <1>1, <1>7 DEF TeardownPage, Acts, CallOK
      <4>3. call'[t] # NoCall
        BY <4>1, <4>2 DEF NoCall
      <4>4. ASSUME NEW p \in Pages, p[1] = c.vbar, p[2] < c.at + 1 PROVE ~page'[p].evicting
        <5>1. CASE p[2] = c.at
          <6>1. p = q
            BY <4>4, <5>1 DEF Pages
          <6> QED
            BY <2>1, <4>3, <6>1
        <5>2. CASE p[2] # c.at
          <6>1. p[2] \in Nat
            BY VbarAssumption DEF Pages, VbarAssumption
          <6>2. p[2] < c.at /\ p # q
            BY <4>2, <4>4, <5>2, <6>1
          <6>3. ~page[p].evicting /\ page'[p] = page[p]
            BY <2>1, <4>2, <4>4, <6>2 DEF FrozenOK
          <6> QED
            BY <6>3
        <5> QED
          BY <5>1, <5>2
      <4> QED
        BY <4>1, <4>4
    <3> QED
      BY <3>1, <3>2, <3>3
  <2> QED
    BY <1>1, <1>2, <2>2, <2>3, <2>4, FrozenStep
<1>8. ASSUME NEW refused, EndTeardown(t, refused) PROVE FrozenOK'
  <2>1. \A p \in Pages : Cool(page[p], page'[p])
    BY <1>4, <1>8 DEF EndTeardown
  <2>2. ASSUME NEW p \in Pages, page'[p].evicting, InList(p[1]) PROVE InList(p[1])'
    <3>1. /\ page' = page /\ c.pc = "teardown" /\ c.at > NPages
          /\ vbar' = vbar \/ vbar' = [vbar EXCEPT ![c.vbar].state = "gone"]
      BY <1>8 DEF EndTeardown
    <3>2. c.at \in Nat /\ p[2] \in 1..NPages
      BY <1>1, <3>1 DEF Acts, CallOK, Pages
    <3>3. p[1] # c.vbar
      BY <2>2, <3>1, <3>2, VbarAssumption DEF FrozenOK, VbarAssumption
    <3> QED
      BY <2>2, <3>1, <3>3 DEF InList, TypesOK, VbarsOK, Pages
  <2>3. call'[t].pc # "teardown"
    BY <1>1, <1>8 DEF EndTeardown, Acts, NoCall
  <2> QED
    BY <1>1, <1>2, <2>1, <2>2, <2>3, FrozenStep
<1> QED
  BY <1>5, <1>6, <1>7, <1>8 DEF FreeNext

\* No page is frozen by two threads, or by nobody.
LEMMA FrozenKept ==
    ASSUME TypesOK, CallsOK, FaultsOK, TriesOK, FrozenOK, VbarAssumption, [Next]_vars
    PROVE  FrozenOK'
<1>1. PagesOK'
  BY PagesStay
<1>2. CASE ListNext \/ LimitNext \/ Quiet \/ UNCHANGED vars \/ \E o \in inflight : Finish(o)
  <2>1. UNCHANGED <<page, call>>
    BY <1>2 DEF ListNext, LimitNext, Allocate, Prioritize, Deprioritize, CopyAcquire, CopyRelease,
       SetLimit, Quiet, vars, memory, Finish
  <2>2. \A v \in Vbars : InList(v) => InList(v)'
    <3>1. DOMAIN vbar = Vbars /\ \A v \in Vbars : DOMAIN vbar[v] = VbarFields
      BY DEF TypesOK, VbarsOK
    <3>2. CASE ListNext
      <4>1. PICK v \in Vbars : Allocate(v) \/ Prioritize(v) \/ Deprioritize(v) \/ CopyAcquire(v)
                               \/ CopyRelease(v)
        BY <3>2 DEF ListNext
      <4>2. \/ vbar' = vbar
            \/ vbar' = [vbar EXCEPT ![v].state = "live"]
            \/ vbar' = [vbar EXCEPT ![v].watermark = NPages]
            \/ vbar' = [vbar EXCEPT ![v].copies = @ + 1]
            \/ vbar' = [vbar EXCEPT ![v].copies = @ - 1]
        BY <4>1 DEF Allocate, Prioritize, Deprioritize, CopyAcquire, CopyRelease
      <4> QED
        BY <3>1, <4>2 DEF InList, VbarFields
    <3>3. CASE LimitNext
      BY <3>1, <3>3, LimitVbars DEF InList, VbarFields
    <3>4. CASE Quiet \/ UNCHANGED vars \/ \E o \in inflight : Finish(o)
      BY <3>4 DEF Quiet, vars, memory, Finish, InList
    <3> QED
      BY <1>2, <3>2, <3>3, <3>4
  <2>3. \A p \in Pages : InList(p[1]) => InList(p[1])'
    BY <2>2 DEF Pages
  <2> QED
    BY <2>1, <2>3 DEF FrozenOK, IsMapped, Held
<1> QED
  BY <1>1, <1>2, ReclaimFrozen, FaultFrozen, ConsumerFrozen, FreeFrozen DEF Next

-----------------------------------------------------------------------------
(* The inductive invariant, and what follows from it.                        *)

VbarInv == TypesOK /\ CallsOK /\ FaultsOK /\ TriesOK /\ PinsOK /\ FrozenOK

\* Nothing is mapped, pinned or frozen at first, and no call is in progress.
LEMMA VbarInit == VbarAssumption /\ Init => VbarInv
<1> SUFFICES ASSUME VbarAssumption, Init PROVE VbarInv
  OBVIOUS
<1>1. /\ \A t \in Threads : call[t] = NoCall /\ lease[t] = NoRange /\ hold[t] = NoRange
      /\ \A p \in Pages : page[p] = AbsentPage
      /\ lock = NoThread /\ inflight = {}
      /\ DOMAIN page = Pages /\ DOMAIN call = Threads
      /\ DOMAIN lease = Threads /\ DOMAIN hold = Threads
  BY DEF Init
<1>2. TypesOK
  <2>1. IsPage(AbsentPage)
    BY DEF AbsentPage, IsPage, PageFields, NoTokens
  <2>2. VbarsOK
    BY DEF Init, VbarsOK, VbarFields
  <2>3. DeviceOK
    BY VbarAssumption DEF Init, VbarAssumption, DeviceOK
  <2>4. RangesOK
    BY <1>1, NoRangeOK DEF RangesOK
  <2> QED
    BY <1>1, <2>1, <2>2, <2>3, <2>4 DEF TypesOK, PagesOK
<1>3. CallsOK
  <2>1. \A t \in Threads : (lock = t) = FALSE
    BY <1>1 DEF VbarAssumption
  <2> QED
    BY <1>1, <2>1, NoCallOK DEF CallsOK
<1>4. /\ NoCall.pc = "idle" /\ NoCall.then = "idle" /\ NoCall.candidates = {}
      /\ NoCall.kind = "none"
  BY DEF NoCall
<1>5. FaultsOK /\ TriesOK
  BY <1>1, <1>4 DEF FaultsOK, TriesOK, Faulting, Enters
<1>6. PinsOK
  <2>1. AbsentPage.pin = 0 /\ AbsentPage.external = 0 /\ AbsentPage.capture = 0
    BY DEF AbsentPage
  <2>2. ASSUME NEW p \in Pages
        PROVE  Leasers(p) = {} /\ Faulters(p) = {} /\ Outer(p) = {} /\ Inner(p) = {}
    <3>1. Leasers(p) = {} /\ Outer(p) = {} /\ Inner(p) = {}
      BY <1>1, NoRangeOK DEF Leasers, Outer, Inner, Outside, Inside
    <3>2. \A t \in Threads : FaultRange(t) = {}
      BY <1>1 DEF FaultRange, VbarAssumption
    <3> QED
      BY <3>1, <3>2 DEF Faulters
  <2>3. Cardinality({}) = 0
    BY FS_EmptySet
  <2> QED
    BY <1>1, <2>1, <2>2, <2>3 DEF PinsOK, Held
<1>7. FrozenOK
  <2>1. ~AbsentPage.evicting
    BY DEF AbsentPage
  <2> QED
    BY <1>1, <1>4, <2>1 DEF FrozenOK
<1> QED
  BY <1>2, <1>3, <1>5, <1>6, <1>7 DEF VbarInv

\* Every step keeps the invariant.
LEMMA VbarStep == VbarAssumption /\ VbarInv /\ [Next]_vars => VbarInv'
<1> SUFFICES ASSUME VbarAssumption, VbarInv, [Next]_vars PROVE VbarInv'
  OBVIOUS
<1>1. TypesOK /\ CallsOK /\ FaultsOK /\ TriesOK /\ PinsOK /\ FrozenOK
  BY DEF VbarInv
<1>2. TypesOK' /\ CallsOK'
  BY <1>1, TypesStay, CallsStay
<1>3. FaultsOK' /\ TriesOK'
  BY <1>1, FaultsStay
<1>4. PinsOK' /\ FrozenOK'
  BY <1>1, PinsKept, FrozenKept
<1> QED
  BY <1>2, <1>3, <1>4 DEF VbarInv

\* VbarInv holds for every number of VBARs, pages, threads and queues, every
\* capacity and any number of driver calls that fail.
THEOREM VbarInvariant == Spec => []VbarInv
<1>1. VbarAssumption
  BY VbarAssumption
<1> QED
  BY <1>1, VbarInit, VbarStep, PTL DEF Spec

\* However faults fail and however they interleave with reclaims, unpins, holds
\* and teardowns, each pin is the pin of a range that a thread still has to unpin
\* or of a fault on its way, and a page that somebody owns is mapped.
THEOREM PinsLeased == Spec => []PinsAreLeases
<1>1. VbarInv => PinsAreLeases
  <2> SUFFICES ASSUME PinsOK PROVE PinsAreLeases
    BY DEF VbarInv
  <2> QED
    BY DEF PinsOK, PinsAreLeases, Leasers, Faulters
<1> QED
  BY <1>1, VbarInvariant, PTL

\* A frozen page is the business of exactly one reclaim: none is left frozen by a
\* reclaim that has forgotten it, and no two reclaims can free the same page.
THEOREM FrozenOwned == Spec => []FrozenPagesAreOwned
<1>1. VbarInv => FrozenPagesAreOwned
  <2> SUFFICES ASSUME FrozenOK, NEW p \in Pages, page[p].evicting
               PROVE  Cardinality({t \in Threads : \E k \in call[t].candidates :
                                      k.page = p /\ k.gen = page[p].gen}) = 1
    BY DEF VbarInv, FrozenPagesAreOwned
  <2> DEFINE F == {t \in Threads : \E k \in call[t].candidates : k.page = p /\ k.gen = page[p].gen}
  <2>1. PICK t \in Threads : \E k \in call[t].candidates : k.page = p /\ k.gen = page[p].gen
    BY DEF FrozenOK
  <2>2. \A u \in F : u = t
    BY <2>1 DEF FrozenOK
  <2>3. F = {t}
    BY <2>1, <2>2
  <2> QED
    BY <2>3, FS_Singleton
<1> QED
  BY <1>1, VbarInvariant, PTL

-----------------------------------------------------------------------------
(* Mappings.                                                                 *)

\* What takes the mapping of a page away, or forgets its consumers: the commit of
\* a candidate that is still current, and a teardown that finds the page idle.
Commits(t, p) == Commit(t) /\ Freed(t, p)
TearsDown(t, p) == /\ TeardownPage(t) /\ p = <<call[t].vbar, call[t].at>>
                   /\ ~Busy(call[t].vbar, call[t].at)

\* A page keeps its mapping, and what is known of its consumers, in every step
\* that is not its own commit or teardown.
LEMMA MappingsStay ==
    ASSUME VbarInv, VbarAssumption, [Next]_vars, NEW p \in Pages, IsMapped(page[p]),
           \A t \in Threads : ~Commits(t, p) /\ ~TearsDown(t, p)
    PROVE  Keeps(page[p], page'[p])
<1>1. TypesOK /\ CallsOK /\ FaultsOK /\ TriesOK /\ PagesOK /\ IsPage(page[p])
  BY DEF VbarInv, TypesOK, PagesOK
<1>2. ASSUME page'[p] = page[p] PROVE Keeps(page[p], page'[p])
  BY <1>1, <1>2 DEF Keeps, IsPage
<1>3. ASSUME page' = page PROVE Keeps(page[p], page'[p])
  BY <1>2, <1>3
<1>4. CASE ListNext \/ LimitNext \/ Quiet \/ UNCHANGED vars \/ \E o \in inflight : Finish(o)
  BY <1>3, <1>4 DEF ListNext, LimitNext, Allocate, Prioritize, Deprioritize, CopyAcquire, CopyRelease,
     SetLimit, Quiet, vars, memory, Finish
<1>5. ASSUME NEW t \in Threads, ReclaimNext(t) PROVE Keeps(page[p], page'[p])
  <2>1. Acts(t)
    BY <1>1, ThreadActs
  <2>2. CASE Freeze(t)
    <3>1. PICK K \in SUBSET Eligible(call[t]) :
             /\ \A q \in Pages \ K : page'[q] = page[q]
             /\ \A q \in K : FrozenAs(page[q], page'[q])
      BY <1>1, <2>1, <2>2, FreezePages
    <3> QED
      BY <1>2, <3>1 DEF FrozenAs
  <2>3. CASE Commit(t)
    BY <1>1, <2>1, <2>3, CommitPages DEF Commits
  <2>4. CASE SynchronizeFails(t)
    BY <1>1, <2>1, <2>4, SynchronizeFailsPages DEF Steady
  <2>5. CASE Snapshot(t) \/ Synchronized(t)
    BY <1>3, <2>5 DEF Snapshot, Synchronized, memory
  <2>6. ASSUME NEW v, NEW n, Pressure(t, n, v) \/ SetWatermark(t, v, n) \/ FreeMemory(t, v, n)
        PROVE  page' = page
    BY <2>6 DEF Pressure, SetWatermark, FreeMemory, memory
  <2> QED
    BY <1>3, <1>5, <2>2, <2>3, <2>4, <2>5, <2>6 DEF ReclaimNext
<1>6. ASSUME NEW t \in Threads, FaultNext(t) PROVE Keeps(page[p], page'[p])
  <2>1. \/ FaultBegins(t)
        \/ FaultPasses(t) \/ FaultRetries(t) \/ FaultStops(t)
        \/ ReturnFault(t)
    BY <1>1, <1>6, FaultKinds
  <2>2. CASE FaultBegins(t)
    BY <1>3, <2>2 DEF FaultBegins
  <2>3. CASE FaultPasses(t)
    BY <1>2, <2>3 DEF FaultPasses
  <2>4. CASE FaultRetries(t)
    BY <1>2, <2>4 DEF FaultRetries
  <2>5. CASE FaultStops(t)
    BY <2>5 DEF FaultStops
  <2>6. CASE ReturnFault(t)
    BY <1>1, <2>6, ReturnFaultPages DEF Steady
  <2> QED
    BY <2>1, <2>2, <2>3, <2>4, <2>5, <2>6
<1>7. ASSUME NEW t \in Threads, ConsumerNext(t) PROVE Keeps(page[p], page'[p])
  <2>1. Acts(t)
    BY <1>1, ThreadActs
  <2>2. ASSUME NEW own, NEW q, Submit(t, own, q) \/ \E pc : TakeToken(t, pc, q) PROVE page' = page
    BY <2>2 DEF Submit, TakeToken, memory
  <2>3. CASE Register(t)
    BY <1>1, <2>1, <2>3, RegisterPages DEF Steady
  <2>4. CASE Unpin(t)
    BY <1>1, <2>1, <2>4, UnpinPages
  <2>5. CASE Release(t)
    BY <1>1, <2>1, <2>5, ReleasePages
  <2>6. ASSUME NEW R, Acquire(t, R) PROVE Keeps(page[p], page'[p])
    BY <1>1, <2>1, <2>6, AcquirePages
  <2> QED
    BY <1>3, <1>7, <2>2, <2>3, <2>4, <2>5, <2>6 DEF ConsumerNext
<1>8. ASSUME NEW t \in Threads, FreeNext(t) PROVE Keeps(page[p], page'[p])
  <2>1. Acts(t)
    BY <1>1, ThreadActs
  <2>2. CASE TeardownPage(t)
    <3>1. /\ \A q \in Pages \ {<<call[t].vbar, call[t].at>>} : page'[q] = page[q]
          /\ \/ Keeps(page[<<call[t].vbar, call[t].at>>], page'[<<call[t].vbar, call[t].at>>])
             \/ ~Busy(call[t].vbar, call[t].at)
      BY <1>1, <2>1, <2>2, TeardownPages
    <3> QED
      BY <1>2, <2>2, <3>1 DEF TearsDown
  <2>3. ASSUME NEW v, Free(t, v) PROVE page' = page
    BY <2>3 DEF Free
  <2>4. ASSUME CheckFree(t) \/ BeginTeardown(t) \/ \E refused : EndTeardown(t, refused)
        PROVE  page' = page
    BY <2>4 DEF CheckFree, BeginTeardown, EndTeardown, memory
  <2> QED
    BY <1>3, <1>8, <2>2, <2>3, <2>4 DEF FreeNext
<1> QED
  BY <1>4, <1>5, <1>6, <1>7, <1>8 DEF Next

\* While the driver copies to or from a VBAR none of its mappings goes away: the
\* commit of a reclaim looks at the copies again, after the lock was given up, and
\* so does the teardown, at each page.
THEOREM CopiesMapped == Spec => CopiesKeepMappings
<1>1. ASSUME VbarInv, VbarAssumption, [Next]_vars, NEW p \in Pages,
             vbar[p[1]].copies > 0, IsMapped(page[p])
      PROVE  IsMapped(page[p])'
  <2>1. ASSUME NEW t \in Threads PROVE ~Commits(t, p) /\ ~TearsDown(t, p)
    <3>1. ASSUME Freed(t, p) PROVE vbar[p[1]].copies = 0
      BY <3>1 DEF Freed, Current
    <3>2. ASSUME TearsDown(t, p) PROVE ~(vbar[p[1]].copies > 0)
      BY <3>2 DEF TearsDown, Busy
    <3> QED
      BY <1>1, <3>1, <3>2 DEF Commits
  <2> QED
    BY <1>1, <2>1, MappingsStay DEF Keeps
<1>2. VbarAssumption
  BY VbarAssumption
<1>3. VbarInv /\ [Next]_vars =>
        [\A p \in Pages : vbar[p[1]].copies > 0 /\ IsMapped(page[p]) => IsMapped(page[p])']_vars
  BY <1>1, <1>2
<1> QED
  BY <1>3, VbarInvariant, PTL DEF Spec, CopiesKeepMappings
=============================================================================
