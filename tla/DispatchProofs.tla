--------------------------- MODULE DispatchProofs ---------------------------
(***************************************************************************)
(* Proofs about the two parts of the dispatch that keep tables of their    *)
(* own, for every number of queues, threads, blocks, VBARs and owners.     *)
(*                                                                         *)
(* HoldsCoverCopies, whatever fails (CopyResidency): the inductive         *)
(* invariant adds that an owner something refers to names a VBAR, so that  *)
(* a new owner is not one of those, and that an owner that counts as       *)
(* complete has nothing on the device and is in no call.                   *)
(*                                                                         *)
(* BarriersExclude and TorchTypeOK (TorchBlocks): the inductive invariant  *)
(* says of each place in which table it is, and that the work on it whose  *)
(* barrier was not lost is in order: the life it has now comes after every *)
(* other, on its own queue or behind the barriers of the queues that still *)
(* have work for an earlier one.  The counters are sums over the places.   *)
(*                                                                         *)
(* At the end, the composition that TLC runs (MCBuffers) and what follows  *)
(* for it from the theorems about its parts.                               *)
(***************************************************************************)
EXTENDS MCBuffers, BufferProofs, TransferProofs, LibraryTheorems

-----------------------------------------------------------------------------
(* CopyResidency: who is referred to.                                        *)

OwnersNameVbars == \A c \in Referred : owner[c].reservations # {}

CompleteIsDone ==
    /\ \A c \in CopyOwners : owner[c].complete => onDevice[c] # "running"
    /\ \A c \in InCall : ~owner[c].complete

OwnerRecords == [reservations : SUBSET CopyVbars, queue : CopyQueues \cup {NoCopyQueue},
                 event : BOOLEAN, complete : BOOLEAN, require_queue_wait : BOOLEAN]

\* The owners that hold a VBAR.
Holding(v) == {c \in Referred : v \in owner[c].reservations}

-----------------------------------------------------------------------------
(* What is referred to.                                                     *)

LEMMA OwnersAreFinite ==
    ASSUME CopyTypeOK
    PROVE  /\ Referred \subseteq CopyOwners
           /\ \A v : IsFiniteSet(Holding(v))
<1>1. Referred \subseteq CopyOwners
    BY DEF CopyTypeOK, Referred, InCall, Polled
<1>2. IsFiniteSet(CopyOwners)
    BY FS_Interval, CopyAssumption DEF CopyOwners
<1>3. \A v : Holding(v) \in SUBSET CopyOwners
    BY <1>1 DEF Holding
<1>. QED  BY <1>1, <1>2, <1>3, FS_Subset

LEMMA NoZero == 0 \notin CopyOwners
BY DEF CopyOwners

\* The lists of the polls after one of them is done with an owner.
LEMMA OneFewer ==
    ASSUME CopyTypeOK, NEW p \in Pollers, NEW c \in polling[p].list, Without(p, c)
    PROVE  \A r \in Pollers :
             polling'[r].list = IF r = p THEN polling[p].list \ {c} ELSE polling[r].list
BY DEF Without, CopyTypeOK, NoPoll

\* A call that prepares a copy takes a number nothing uses, for itself or, when
\* the queue was not retained, for the list.
Takes(s, q, vs, c) ==
    \/ /\ owner' = [owner EXCEPT ![c] = NewOwner(vs, q, FALSE)]
       /\ submitting' = [submitting EXCEPT ![s] = c]
       /\ pendingCopies' = pendingCopies
    \/ /\ owner' = [owner EXCEPT ![c] = NewOwner(vs, NoCopyQueue, TRUE)]
       /\ submitting' = submitting
       /\ pendingCopies' = pendingCopies \cup {c}

LEMMA Prepared ==
    ASSUME CopyTypeOK, NEW s \in Submitters, NEW q \in CopyQueues,
           NEW vs \in SUBSET CopyVbars, NEW retained \in BOOLEAN,
           PrepareCopy(s, q, vs, retained)
    PROVE  \E c \in CopyOwners : owner[c] = NoOwner /\ Takes(s, q, vs, c)
<1>. DEFINE c == CHOOSE d \in Unused : TRUE
<1>1. c \in CopyOwners /\ owner[c] = NoOwner
    BY DEF PrepareCopy, Unused
<1>. QED  BY <1>1, Zenon DEF PrepareCopy, Takes

\* A call that returns changes how its owner is polled, not what it holds.
LEMMA FinishedHolds ==
    ASSUME NEW o \in OwnerRecords, NEW ok, NEW blocking, NEW event
    PROVE  Finished(o, ok, blocking, event).reservations = o.reservations
BY DEF Finished, OwnerRecords

LEMMA FinishedOwners ==
    ASSUME NEW o \in OwnerRecords, NEW ok \in BOOLEAN, NEW blocking \in BOOLEAN,
           NEW event \in BOOLEAN
    PROVE  /\ Finished(o, ok, blocking, event) \in OwnerRecords
           /\ Finished(o, ok, blocking, event).complete <=> ok /\ blocking
<1>. DEFINE done == ok /\ blocking
            failed == ~ok
<1>1. done \in BOOLEAN /\ failed \in BOOLEAN
    OBVIOUS
<1>2. Finished(o, ok, blocking, event)
        = [o EXCEPT !.event = event, !.complete = done, !.require_queue_wait = failed]
    BY Zenon DEF Finished
<1>. HIDE DEF done, failed
<1>3. /\ Finished(o, ok, blocking, event) \in OwnerRecords
      /\ Finished(o, ok, blocking, event).complete = done
    BY <1>1, <1>2 DEF OwnerRecords
<1>. QED  BY <1>3 DEF done

-----------------------------------------------------------------------------
LEMMA CopyTypes == CopySpec => []CopyTypeOK
<1>1. CopyInit => CopyTypeOK
    BY CopyAssumption DEF CopyInit, CopyTypeOK, NewOwner, NoOwner, NoPoll
<1>2. CopyTypeOK /\ [CopyNext]_copyVars => CopyTypeOK'
    <2>. SUFFICES ASSUME CopyTypeOK, [CopyNext]_copyVars PROVE CopyTypeOK'
        OBVIOUS
    <2>1. ASSUME NEW s \in Submitters, NEW q \in CopyQueues, NEW vs \in SUBSET CopyVbars,
                 NEW retained \in BOOLEAN, PrepareCopy(s, q, vs, retained)
          PROVE  CopyTypeOK'
        <3>1. copyHolds' \in [CopyVbars -> Nat]
            BY <2>1 DEF PrepareCopy, CopyTypeOK
        <3>2. polling' = polling /\ onDevice' = onDevice
            BY <2>1 DEF PrepareCopy
        <3>3. PICK c \in CopyOwners : Takes(s, q, vs, c)
            BY <2>1, Prepared, Zenon
        <3>4. NewOwner(vs, q, FALSE) \in OwnerRecords
            BY DEF NewOwner, OwnerRecords
        <3>5. NewOwner(vs, NoCopyQueue, TRUE) \in OwnerRecords
            BY DEF NewOwner, OwnerRecords
        <3>6. owner' \in [CopyOwners -> OwnerRecords]
            BY <3>3, <3>4, <3>5 DEF CopyTypeOK, OwnerRecords, Takes
        <3>7. /\ submitting' \in [Submitters -> CopyOwners \cup {0}]
              /\ pendingCopies' \in SUBSET CopyOwners
            <4>1. /\ submitting' \in {submitting, [submitting EXCEPT ![s] = c]}
                  /\ pendingCopies' \in {pendingCopies, pendingCopies \cup {c}}
                BY <3>3 DEF Takes
            <4>2. /\ submitting \in [Submitters -> CopyOwners \cup {0}]
                  /\ pendingCopies \in SUBSET CopyOwners
                BY DEF CopyTypeOK
            <4>. QED  BY <3>3, <4>1, <4>2
        <3>8. /\ polling' \in [Pollers -> [wait : BOOLEAN, list : SUBSET CopyOwners]]
              /\ onDevice' \in [CopyOwners -> {"no", "running", "done"}]
            BY <3>2 DEF CopyTypeOK
        <3>. QED  BY <3>1, <3>6, <3>7, <3>8, Zenon DEF CopyTypeOK, OwnerRecords
    <2>2. ASSUME NEW s \in Submitters, AppendCopy(s) PROVE CopyTypeOK'
        BY <2>2 DEF AppendCopy, CopyTypeOK
    <2>3. ASSUME NEW s \in Submitters, NEW ok \in BOOLEAN, NEW blocking \in BOOLEAN,
                 NEW event \in BOOLEAN, FinishCopy(s, ok, blocking, event)
          PROVE  CopyTypeOK'
        <3>2. submitting[s] \in CopyOwners
            BY <2>3 DEF FinishCopy, CopyTypeOK
        <3>3. owner' = [owner EXCEPT ![submitting[s]] = Finished(@, ok, blocking, event)]
            BY <2>3, Zenon DEF FinishCopy
        <3>4. owner' \in [CopyOwners -> OwnerRecords]
            <4>1. owner \in [CopyOwners -> OwnerRecords]
                BY DEF CopyTypeOK, OwnerRecords
            <4>. QED  BY <4>1, <3>2, <3>3, FinishedOwners
        <3>5. /\ copyHolds' = copyHolds /\ polling' = polling /\ onDevice' = onDevice
              /\ pendingCopies' = pendingCopies \cup {submitting[s]}
              /\ submitting' = [submitting EXCEPT ![s] = 0]
            BY <2>3, Zenon DEF FinishCopy
        <3>. QED  BY <3>2, <3>4, <3>5 DEF CopyTypeOK, OwnerRecords
    <2>4. ASSUME NEW p \in Pollers, NEW wait \in BOOLEAN, BeginPoll(p, wait) PROVE CopyTypeOK'
        BY <2>4 DEF BeginPoll, CopyTypeOK, Taken
    <2>5. ASSUME NEW p \in Pollers, NEW c \in polling[p].list, ReleaseCopy(p, c)
          PROVE  CopyTypeOK'
        <3>1. polling' \in [Pollers -> [wait : BOOLEAN, list : SUBSET CopyOwners]]
            BY <2>5 DEF ReleaseCopy, Without, CopyTypeOK, NoPoll
        <3>2. copyHolds' \in [CopyVbars -> Nat]
            BY <2>5 DEF ReleaseCopy, CopyTypeOK
        <3>. QED  BY <2>5, <3>1, <3>2 DEF ReleaseCopy, CopyTypeOK, NewOwner, NoOwner
    <2>6. ASSUME NEW p \in Pollers, NEW c \in polling[p].list, KeepCopy(p, c)
          PROVE  CopyTypeOK'
        <3>1. polling' \in [Pollers -> [wait : BOOLEAN, list : SUBSET CopyOwners]]
            BY <2>6 DEF KeepCopy, Without, CopyTypeOK, NoPoll
        <3>. QED  BY <2>6, <3>1 DEF KeepCopy, CopyTypeOK
    <2>7. ASSUME NEW c \in CopyOwners, CompleteCopy(c) PROVE CopyTypeOK'
        BY <2>7 DEF CompleteCopy, CopyTypeOK
    <2>8. CASE UNCHANGED copyVars
        BY <2>8 DEF copyVars, CopyTypeOK
    <2>. QED  BY <2>1, <2>2, <2>3, <2>4, <2>5, <2>6, <2>7, <2>8 DEF CopyNext
<1>. QED  BY <1>1, <1>2, PTL DEF CopySpec

-----------------------------------------------------------------------------
(* The holds.                                                               *)

HoldsAreCounted == \A v \in CopyVbars : copyHolds[v] = Cardinality(Holding(v))
CopiesAreKnown  == \A c \in CopyOwners : onDevice[c] = "running" => c \in Referred

OwnersInv == HoldsAreCounted /\ OwnersAreInOnePlace /\ CopiesAreKnown
             /\ OwnersNameVbars /\ CompleteIsDone

LEMMA OwnersStart == CopyInit => OwnersInv
<1>. SUFFICES ASSUME CopyInit PROVE OwnersInv
    OBVIOUS
<1>1. InCall = {} /\ Polled = {} /\ Referred = {}
    BY DEF CopyInit, InCall, Polled, Referred, NoPoll
<1>2. HoldsAreCounted
    BY <1>1, FS_EmptySet DEF HoldsAreCounted, Holding, CopyInit
<1>3. OwnersAreInOnePlace /\ CopiesAreKnown /\ OwnersNameVbars /\ CompleteIsDone
    BY <1>1 DEF CopyInit, OwnersAreInOnePlace, CopiesAreKnown, OwnersNameVbars,
                CompleteIsDone, NoOwner, NewOwner, NoPoll
<1>. QED  BY <1>2, <1>3 DEF OwnersInv

LEMMA PrepareKeeps ==
    ASSUME CopyTypeOK, CopyTypeOK', OwnersInv, NEW s \in Submitters, NEW q \in CopyQueues,
           NEW vs \in SUBSET CopyVbars, NEW retained \in BOOLEAN,
           PrepareCopy(s, q, vs, retained)
    PROVE  OwnersInv'
<1>1. PICK c \in CopyOwners : owner[c] = NoOwner /\ Takes(s, q, vs, c)
    BY Prepared, Zenon
<1>2. /\ submitting[s] = 0 /\ vs # {} /\ polling' = polling /\ onDevice' = onDevice
      /\ copyHolds' = [v \in CopyVbars |-> copyHolds[v] + (IF v \in vs THEN 1 ELSE 0)]
    BY Zenon DEF PrepareCopy
<1>3. c \notin Referred /\ c # 0 /\ onDevice[c] # "running"
    BY <1>1, NoZero DEF OwnersInv, OwnersNameVbars, CopiesAreKnown, NoOwner, NewOwner
<1>4. /\ \A d \in CopyOwners \ {c} : owner'[d] = owner[d]
      /\ owner'[c].reservations = vs
    BY <1>1 DEF Takes, NewOwner, CopyTypeOK
<1>5. Polled' = Polled
    BY <1>2 DEF Polled
<1>6. \/ /\ InCall' = InCall \cup {c} /\ pendingCopies' = pendingCopies
         /\ submitting' = [submitting EXCEPT ![s] = c] /\ ~owner'[c].complete
      \/ /\ InCall' = InCall /\ pendingCopies' = pendingCopies \cup {c}
         /\ submitting' = submitting
    <2>1. CASE /\ owner' = [owner EXCEPT ![c] = NewOwner(vs, q, FALSE)]
               /\ submitting' = [submitting EXCEPT ![s] = c]
               /\ pendingCopies' = pendingCopies
        <3>1. InCall' = InCall \cup {c}
            BY <2>1, <1>2, <1>3 DEF InCall, CopyTypeOK
        <3>. QED  BY <2>1, <3>1 DEF NewOwner, CopyTypeOK
    <2>2. CASE submitting' = submitting /\ pendingCopies' = pendingCopies \cup {c}
        BY <2>2 DEF InCall
    <2>. QED  BY <1>1, <2>1, <2>2 DEF Takes
<1>7. Referred' = Referred \cup {c}
    BY <1>5, <1>6 DEF Referred
<1>8. HoldsAreCounted'
    <2>. SUFFICES ASSUME NEW v \in CopyVbars PROVE copyHolds'[v] = Cardinality(Holding(v)')
        BY DEF HoldsAreCounted
    <2>1. Holding(v)' = IF v \in vs THEN Holding(v) \cup {c} ELSE Holding(v)
        BY <1>3, <1>4, <1>7, OwnersAreFinite DEF Holding
    <2>2. IsFiniteSet(Holding(v)) /\ c \notin Holding(v)
        BY <1>3, OwnersAreFinite DEF Holding
    <2>3. copyHolds[v] = Cardinality(Holding(v)) /\ copyHolds[v] \in Nat
        BY DEF OwnersInv, HoldsAreCounted, CopyTypeOK
    <2>4. Cardinality(Holding(v) \cup {c}) = Cardinality(Holding(v)) + 1
        BY <2>2, FS_AddElement
    <2>5. copyHolds'[v] = copyHolds[v] + (IF v \in vs THEN 1 ELSE 0)
        BY <1>2
    <2>. QED  BY <2>1, <2>3, <2>4, <2>5
<1>9. OwnersAreInOnePlace'
    BY <1>2, <1>3, <1>5, <1>6 DEF OwnersInv, OwnersAreInOnePlace, Referred, InCall, CopyTypeOK
<1>10. CopiesAreKnown' /\ OwnersNameVbars'
    BY <1>2, <1>4, <1>7, OwnersAreFinite DEF OwnersInv, CopiesAreKnown, OwnersNameVbars
<1>11. CompleteIsDone'
    BY <1>2, <1>3, <1>4, <1>6, OwnersAreFinite DEF OwnersInv, CompleteIsDone, Referred
<1>. QED  BY <1>8, <1>9, <1>10, <1>11 DEF OwnersInv

\* Steps of the device and of a call that leave what is referred to alone.
LEMMA AppendKeeps ==
    ASSUME CopyTypeOK, OwnersInv,
           \/ \E s \in Submitters : AppendCopy(s)
           \/ \E c \in CopyOwners : CompleteCopy(c)
           \/ UNCHANGED copyVars
    PROVE  OwnersInv'
<1>1. /\ copyHolds' = copyHolds /\ owner' = owner /\ pendingCopies' = pendingCopies
      /\ submitting' = submitting /\ polling' = polling
    BY DEF AppendCopy, CompleteCopy, copyVars
<1>2. InCall' = InCall /\ Polled' = Polled /\ Referred' = Referred
    BY <1>1 DEF InCall, Polled, Referred
<1>3. HoldsAreCounted' /\ OwnersAreInOnePlace' /\ OwnersNameVbars'
    BY <1>1, <1>2 DEF OwnersInv, HoldsAreCounted, Holding, OwnersAreInOnePlace, OwnersNameVbars
<1>4. \A c \in CopyOwners : onDevice'[c] = "running" => onDevice[c] = "running" \/ c \in InCall
    BY DEF AppendCopy, CompleteCopy, copyVars, CopyTypeOK, InCall
<1>5. CopiesAreKnown' /\ CompleteIsDone'
    BY <1>1, <1>2, <1>4 DEF OwnersInv, CopiesAreKnown, CompleteIsDone, Referred
<1>. QED  BY <1>3, <1>5 DEF OwnersInv

LEMMA FinishKeeps ==
    ASSUME CopyTypeOK, OwnersInv, NEW s \in Submitters, NEW ok \in BOOLEAN,
           NEW blocking \in BOOLEAN, NEW event \in BOOLEAN,
           FinishCopy(s, ok, blocking, event)
    PROVE  OwnersInv'
<1>. DEFINE c == submitting[s]
<1>1. /\ c # 0 /\ (ok /\ blocking => onDevice[c] = "done")
      /\ owner' = [owner EXCEPT ![c] = Finished(@, ok, blocking, event)]
      /\ pendingCopies' = pendingCopies \cup {c} /\ submitting' = [submitting EXCEPT ![s] = 0]
      /\ copyHolds' = copyHolds /\ polling' = polling /\ onDevice' = onDevice
    BY Zenon DEF FinishCopy
<1>2. c \in CopyOwners /\ c \in InCall
    BY <1>1 DEF CopyTypeOK, InCall
<1>3. /\ \A d \in CopyOwners \ {c} : owner'[d] = owner[d]
      /\ owner'[c].reservations = owner[c].reservations
      /\ owner'[c].complete <=> ok /\ blocking
    <2>1. owner \in [CopyOwners -> OwnerRecords]
        BY DEF CopyTypeOK, OwnerRecords
    <2>2. owner[c] \in OwnerRecords /\ owner'[c] = Finished(owner[c], ok, blocking, event)
        BY <1>1, <1>2, <2>1
    <2>. HIDE DEF c
    <2>3. owner'[c].reservations = owner[c].reservations
        BY <2>2, FinishedHolds
    <2>4. owner'[c].complete <=> ok /\ blocking
        <3>1. Finished(owner[c], ok, blocking, event).complete <=> ok /\ blocking
            BY <2>2, FinishedOwners
        <3>. QED  BY <2>2, <3>1, Zenon
    <2>5. \A d \in CopyOwners \ {c} : owner'[d] = owner[d]
        BY <1>1, <2>1
    <2>. QED  BY <2>3, <2>4, <2>5
<1>. HIDE DEF c
<1>4. Polled' = Polled
    BY <1>1 DEF Polled
<1>5. InCall' = InCall \ {c}
    BY <1>1, <1>2, NoZero DEF OwnersInv, OwnersAreInOnePlace, InCall, CopyTypeOK, c
<1>6. Referred' = Referred
    BY <1>1, <1>2, <1>4, <1>5 DEF Referred
<1>7. HoldsAreCounted'
    <2>1. \A d \in Referred : owner'[d].reservations = owner[d].reservations
        BY <1>3, OwnersAreFinite
    <2>2. \A v : Holding(v)' = Holding(v)
        BY <1>6, <2>1 DEF Holding
    <2>. QED  BY <1>1, <2>2 DEF OwnersInv, HoldsAreCounted
<1>8. OwnersAreInOnePlace'
    BY <1>1, <1>2, <1>4, <1>5 DEF OwnersInv, OwnersAreInOnePlace, CopyTypeOK
<1>9. CopiesAreKnown' /\ OwnersNameVbars'
    BY <1>1, <1>3, <1>6, OwnersAreFinite DEF OwnersInv, CopiesAreKnown, OwnersNameVbars
<1>10. CompleteIsDone'
    <2>1. \A d \in CopyOwners : owner'[d].complete => onDevice'[d] # "running"
        BY <1>1, <1>3 DEF OwnersInv, CompleteIsDone
    <2>2. \A d \in InCall' : ~owner'[d].complete
        BY <1>3, <1>5, OwnersAreFinite DEF OwnersInv, CompleteIsDone, Referred
    <2>. QED  BY <2>1, <2>2 DEF CompleteIsDone
<1>. QED  BY <1>7, <1>8, <1>9, <1>10 DEF OwnersInv

LEMMA BeginPollKeeps ==
    ASSUME CopyTypeOK, OwnersInv, NEW p \in Pollers, NEW wait \in BOOLEAN, BeginPoll(p, wait)
    PROVE  OwnersInv'
<1>1. /\ copyHolds' = copyHolds /\ owner' = owner /\ pendingCopies' = {}
      /\ submitting' = submitting /\ onDevice' = onDevice
      /\ \A r \in Pollers :
            polling'[r].list = IF r = p THEN pendingCopies ELSE polling[r].list
      /\ polling[p].list = {}
    BY DEF BeginPoll, Taken, NoPoll, CopyTypeOK
<1>2. InCall' = InCall /\ Polled' = Polled \cup pendingCopies /\ Referred' = Referred
    <2>1. InCall' = InCall
        BY <1>1 DEF InCall
    <2>2. Polled' = Polled \cup pendingCopies
        BY <1>1 DEF Polled
    <2>. QED  BY <1>1, <2>1, <2>2 DEF Referred
<1>3. OwnersAreInOnePlace'
    BY <1>1, <1>2 DEF OwnersInv, OwnersAreInOnePlace, Polled
<1>. QED  BY <1>1, <1>2, <1>3 DEF OwnersInv, HoldsAreCounted, Holding, CopiesAreKnown,
                                  OwnersNameVbars, CompleteIsDone

\* What a poll finds complete is not on the device.
LEMMA CompleteCopiesAreDone ==
    ASSUME OwnersInv, NEW c \in CopyOwners, NEW wait \in BOOLEAN, FoundComplete(c, wait)
    PROVE  onDevice[c] # "running"
<1>1. CASE owner[c].complete
    BY <1>1 DEF OwnersInv, CompleteIsDone
<1>2. CASE HasEvent(c) /\ EventSays(c)
    BY <1>2 DEF HasEvent, EventSays
<1>3. CASE QueueDone(c)
    BY <1>3 DEF QueueDone
<1>. QED  BY <1>1, <1>2, <1>3 DEF FoundComplete

LEMMA KeepKeeps ==
    ASSUME CopyTypeOK, OwnersInv, NEW p \in Pollers, NEW c \in polling[p].list, KeepCopy(p, c)
    PROVE  OwnersInv'
<1>1. /\ copyHolds' = copyHolds /\ owner' = owner /\ pendingCopies' = pendingCopies \cup {c}
      /\ submitting' = submitting /\ onDevice' = onDevice /\ Without(p, c)
    BY DEF KeepCopy
<1>2. \A r \in Pollers :
         polling'[r].list = IF r = p THEN polling[p].list \ {c} ELSE polling[r].list
    BY <1>1, OneFewer
<1>3. InCall' = InCall /\ Polled' = Polled \ {c}
    <2>1. InCall' = InCall
        BY <1>1 DEF InCall
    <2>2. \A r \in Pollers : r # p => c \notin polling[r].list
        BY DEF OwnersInv, OwnersAreInOnePlace
    <2>. QED  BY <1>2, <2>1, <2>2 DEF Polled
<1>4. c \in Polled /\ Referred' = Referred
    BY <1>1, <1>3 DEF Referred, Polled
<1>5. OwnersAreInOnePlace'
    BY <1>1, <1>2, <1>3, <1>4 DEF OwnersInv, OwnersAreInOnePlace
<1>. QED  BY <1>1, <1>3, <1>4, <1>5 DEF OwnersInv, HoldsAreCounted, Holding, CopiesAreKnown,
                                  OwnersNameVbars, CompleteIsDone

LEMMA ReleaseKeeps ==
    ASSUME CopyTypeOK, OwnersInv, NEW p \in Pollers, NEW c \in polling[p].list,
           ReleaseCopy(p, c)
    PROVE  OwnersInv'
<1>1. /\ FoundComplete(c, polling[p].wait) /\ Without(p, c)
      /\ owner' = [owner EXCEPT ![c] = NoOwner]
      /\ onDevice' = [onDevice EXCEPT ![c] = IF @ = "done" THEN "no" ELSE @]
      /\ pendingCopies' = pendingCopies /\ submitting' = submitting
      /\ copyHolds' = [v \in CopyVbars |->
            IF v \in owner[c].reservations /\ copyHolds[v] > 0 THEN copyHolds[v] - 1
            ELSE copyHolds[v]]
    BY DEF ReleaseCopy
<1>2. c \in CopyOwners /\ c \in Polled /\ polling[p].wait \in BOOLEAN
    BY DEF CopyTypeOK, Polled
<1>3. onDevice[c] # "running"
    BY <1>1, <1>2, CompleteCopiesAreDone
<1>4. \A r \in Pollers :
         polling'[r].list = IF r = p THEN polling[p].list \ {c} ELSE polling[r].list
    BY <1>1, OneFewer
<1>5. InCall' = InCall /\ Polled' = Polled \ {c}
    <2>1. InCall' = InCall
        BY <1>1 DEF InCall
    <2>2. \A r \in Pollers : r # p => c \notin polling[r].list
        BY DEF OwnersInv, OwnersAreInOnePlace
    <2>. QED  BY <1>4, <2>1, <2>2 DEF Polled
<1>6. c \notin InCall /\ c \notin pendingCopies
    BY <1>2 DEF OwnersInv, OwnersAreInOnePlace
<1>7. Referred' = Referred \ {c}
    BY <1>1, <1>5, <1>6 DEF Referred
<1>8. /\ \A d \in CopyOwners \ {c} : owner'[d] = owner[d]
      /\ owner'[c] = NoOwner
    BY <1>1, <1>2 DEF CopyTypeOK
<1>9. \A d \in CopyOwners : onDevice'[d] = "running" => onDevice[d] = "running" /\ d # c
    BY <1>1, <1>2, <1>3 DEF CopyTypeOK
<1>10. HoldsAreCounted'
    <2>. SUFFICES ASSUME NEW v \in CopyVbars PROVE copyHolds'[v] = Cardinality(Holding(v)')
        BY DEF HoldsAreCounted
    <2>1. Holding(v)' = Holding(v) \ {c}
        BY <1>7, <1>8, OwnersAreFinite DEF Holding
    <2>2. IsFiniteSet(Holding(v))
        BY OwnersAreFinite
    <2>3. c \in Holding(v) <=> v \in owner[c].reservations
        BY <1>2 DEF Holding, Referred
    <2>4. copyHolds[v] = Cardinality(Holding(v)) /\ copyHolds[v] \in Nat
        BY DEF OwnersInv, HoldsAreCounted, CopyTypeOK
    <2>5. Cardinality(Holding(v) \ {c})
            = IF c \in Holding(v) THEN Cardinality(Holding(v)) - 1 ELSE Cardinality(Holding(v))
        BY <2>2, FS_RemoveElement
    <2>6. c \in Holding(v) => Cardinality(Holding(v)) # 0
        BY <2>2, FS_EmptySet
    <2>7. copyHolds'[v] = IF v \in owner[c].reservations /\ copyHolds[v] > 0
                          THEN copyHolds[v] - 1 ELSE copyHolds[v]
        BY <1>1
    <2>. QED  BY <2>1, <2>3, <2>4, <2>5, <2>6, <2>7
<1>11. OwnersAreInOnePlace'
    BY <1>1, <1>4, <1>5 DEF OwnersInv, OwnersAreInOnePlace
<1>12. CopiesAreKnown' /\ OwnersNameVbars'
    BY <1>7, <1>8, <1>9, OwnersAreFinite DEF OwnersInv, CopiesAreKnown, OwnersNameVbars
<1>13. CompleteIsDone'
    <2>1. ~NoOwner.complete
        BY DEF NoOwner, NewOwner
    <2>2. \A d \in CopyOwners : owner'[d].complete => onDevice'[d] # "running"
        BY <1>8, <1>9, <2>1 DEF OwnersInv, CompleteIsDone
    <2>3. \A d \in InCall' : ~owner'[d].complete
        BY <1>5, <1>6, <1>8, OwnersAreFinite DEF OwnersInv, CompleteIsDone, Referred
    <2>. QED  BY <2>2, <2>3 DEF CompleteIsDone
<1>. QED  BY <1>10, <1>11, <1>12, <1>13 DEF OwnersInv

-----------------------------------------------------------------------------
\* Whatever fails and whoever polls, every VBAR keeps one hold for each call and
\* each copy that names it, and no copy runs on the device without its hold
\* (prepare_copy, finish_copy, aimdo_xpu_copy_residency_poll, release_copy).
THEOREM HoldsCovered == CopySpec => []HoldsCoverCopies
<1>1. OwnersInv /\ CopyTypeOK /\ CopyTypeOK' /\ [CopyNext]_copyVars => OwnersInv'
    BY PrepareKeeps, AppendKeeps, FinishKeeps, BeginPollKeeps, ReleaseKeeps, KeepKeeps
       DEF CopyNext
<1>2. OwnersInv => HoldsCoverCopies
    BY DEF OwnersInv, HoldsAreCounted, Holding, CopiesAreKnown, HoldsCoverCopies
<1>. QED  BY <1>1, <1>2, OwnersStart, CopyTypes, PTL DEF CopySpec

-----------------------------------------------------------------------------
(* TorchBlocks: what is left of the cache.                                   *)

\* The recursive function of Remaining, up to n.
KeptUpTo(g, S, n) ==
    g = [i \in 0 .. n |->
            IF i = 0 THEN <<>>
            ELSE IF cache[i] \in S THEN g[i - 1] ELSE Append(g[i - 1], cache[i])]

\* Every cache can be read through like that.
LEMMA KeptExists ==
    ASSUME cache \in Seq(Blocks), NEW S
    PROVE  \E g : KeptUpTo(g, S, Len(cache))
<1>. DEFINE U == {n \in Nat : \E g : KeptUpTo(g, S, n)}
<1>1. 0 \in U
    <2>. DEFINE g == [i \in 0 .. 0 |-> <<>>]
    <2>1. KeptUpTo(g, S, 0)
        BY DEF KeptUpTo
    <2>. QED  BY <2>1
<1>2. ASSUME NEW n \in U \cap Nat PROVE n + 1 \in U
    <2>1. PICK g : KeptUpTo(g, S, n)
        OBVIOUS
    <2>. DEFINE last == IF cache[n + 1] \in S THEN g[n] ELSE Append(g[n], cache[n + 1])
                h == [i \in 0 .. n + 1 |-> IF i = n + 1 THEN last ELSE g[i]]
    <2>2. \A i \in 0 .. n : g[i] = IF i = 0 THEN <<>>
                                 ELSE IF cache[i] \in S THEN g[i - 1]
                                 ELSE Append(g[i - 1], cache[i])
        BY <2>1, Zenon DEF KeptUpTo
    <2>3. \A i \in 0 .. n : h[i] = g[i] /\ i \in 0 .. n + 1
        OBVIOUS
    <2>4. h[n + 1] = last
        OBVIOUS
    <2>5. \A i \in 0 .. n + 1 : h[i] = IF i = 0 THEN <<>>
                                     ELSE IF cache[i] \in S THEN h[i - 1]
                                     ELSE Append(h[i - 1], cache[i])
        <3>1. TAKE i \in 0 .. n + 1
        <3>2. CASE i = n + 1
            <4>1. h[n] = g[n] /\ i - 1 = n /\ i # 0
                BY <2>3, <3>2
            <4>. HIDE DEF h
            <4>. QED  BY <2>4, <3>2, <4>1
        <3>3. CASE i # n + 1
            <4>1. i \in 0 .. n /\ (i # 0 => i - 1 \in 0 .. n)
                BY <3>3
            <4>. HIDE DEF h
            <4>. QED  BY <2>2, <2>3, <4>1
        <3>. QED  BY <3>2, <3>3
    <2>6. h = [i \in DOMAIN h |-> h[i]] /\ DOMAIN h = 0 .. n + 1
        OBVIOUS
    <2>. HIDE DEF h
    <2>7. KeptUpTo(h, S, n + 1)
        BY <2>5, <2>6 DEF KeptUpTo
    <2>. QED  BY <2>7
<1>3. Nat \subseteq U
    <2>. HIDE DEF U
    <2>. QED  BY <1>1, <1>2, NumbersByInduction
<1>4. Len(cache) \in U
    BY <1>3
<1>. QED  BY <1>4

\* What remains of the cache: the other blocks, each once.
LEMMA RemainingIs ==
    ASSUME cache \in Seq(Blocks), IsInjective(cache), NEW S
    PROVE  /\ Remaining(S) \in Seq(Blocks)
           /\ Range(Remaining(S)) = Range(cache) \ S
           /\ IsInjective(Remaining(S))
<1>. DEFINE N == Len(cache)
            g == CHOOSE h : KeptUpTo(h, S, N)
            First_n(n) == {cache[i] : i \in 1 .. n}
            Good(n) == /\ g[n] \in Seq(Blocks)
                       /\ Range(g[n]) = First_n(n) \ S
                       /\ IsInjective(g[n])
            U == {n \in Nat : n <= N => Good(n)}
<1>1. N \in Nat /\ DOMAIN cache = 1 .. N /\ \A i \in 1 .. N : cache[i] \in Blocks
    OBVIOUS
<1>2. KeptUpTo(g, S, N)
    BY KeptExists
<1>3. Remaining(S) = g[N]
    BY DEF Remaining, KeptUpTo
<1>. HIDE DEF g, N
<1>4. \A i \in 0 .. N : g[i] = IF i = 0 THEN <<>>
                             ELSE IF cache[i] \in S THEN g[i - 1]
                             ELSE Append(g[i - 1], cache[i])
    BY <1>2, Zenon DEF KeptUpTo
<1>5. 0 \in U
    <2>1. g[0] = <<>> /\ First_n(0) = {}
        BY <1>1, <1>4
    <2>2. <<>> \in Seq(Blocks) /\ Range(<<>>) = {} /\ IsInjective(<<>>)
        BY DEF Range, IsInjective
    <2>3. Good(0)
        BY <2>1, <2>2
    <2>. HIDE DEF Good
    <2>. QED  BY <2>3
<1>6. ASSUME NEW n \in U \cap Nat PROVE n + 1 \in U
    <2>. SUFFICES ASSUME n + 1 <= N PROVE Good(n + 1)
        OBVIOUS
    <2>1. n \in 0 .. N /\ n + 1 \in 1 .. N /\ n + 1 \in 0 .. N /\ Good(n)
        BY <1>1
    <2>. DEFINE c == cache[n + 1]
    <2>2. g[n + 1] = IF c \in S THEN g[n] ELSE Append(g[n], c)
        BY <1>4, <2>1
    <2>3. c \in Blocks
        BY <1>1, <2>1
    <2>4. First_n(n + 1) = First_n(n) \cup {c}
        OBVIOUS
    <2>5. c \notin First_n(n)
        <3>1. ASSUME NEW i \in 1 .. n, cache[i] = c PROVE FALSE
            BY <1>1, <2>1, <3>1 DEF IsInjective
        <3>. QED  BY <3>1
    <2>. HIDE DEF First_n, c
    <2>6. CASE c \in S
        BY <2>1, <2>2, <2>4, <2>6
    <2>7. CASE c \notin S
        <3>. DEFINE s == g[n]  t == Append(s, c)
        <3>1. /\ t \in Seq(Blocks) /\ DOMAIN t = 1 .. Len(s) + 1 /\ DOMAIN s = 1 .. Len(s)
              /\ t[Len(s) + 1] = c /\ \A j \in 1 .. Len(s) : t[j] = s[j]
              /\ Len(s) \in Nat
            BY <2>1, <2>3, Appended
        <3>2. Range(s) = First_n(n) \ S /\ IsInjective(s)
            BY <2>1
        <3>. HIDE DEF s, t
        <3>3. Range(t) = Range(s) \cup {c}
            BY <3>1 DEF Range
        <3>4. IsInjective(t)
            <4>1. \A j \in 1 .. Len(s) : s[j] # c
                BY <2>5, <3>1, <3>2 DEF Range
            <4>. QED  BY <3>1, <3>2, <4>1 DEF IsInjective
        <3>5. Range(t) = First_n(n + 1) \ S
            BY <2>4, <2>7, <3>2, <3>3
        <3>6. g[n + 1] = t
            BY <2>2, <2>7 DEF s, t
        <3>. QED  BY <3>1, <3>4, <3>5, <3>6
    <2>. QED  BY <2>6, <2>7
<1>7. Nat \subseteq U
    <2>. HIDE DEF U
    <2>. QED  BY <1>5, <1>6, NumbersByInduction
<1>8. Good(N)
    <2>. HIDE DEF Good
    <2>1. N \in U /\ N <= N
        BY <1>1, <1>7
    <2>. QED  BY <2>1
<1>9. First_n(N) = Range(cache)
    BY <1>1 DEF Range
<1>. QED  BY <1>3, <1>8, <1>9

-----------------------------------------------------------------------------
(* The tables.                                                              *)

\* The states of a place, its record and the commands of a queue.
States == {"none", "live", "cached", "raw"}
BlockRecords == [state : States, size : {0} \cup BlockSizes,
                 queue : TorchQueues \cup {NoTorchQueue}, ready : BOOLEAN,
                 life : 0 .. MaxLives, forgot : 0 .. MaxLives]
CommandRecords == [kind : {"work", "barrier"}, block : Blocks, life : Nat]

\* The types of the tables.
Types ==
    /\ block \in [Blocks -> BlockRecords]
    /\ cache \in Seq(Blocks)
    /\ commands \in [TorchQueues -> Seq(CommandRecords)]
    /\ inUse \in SUBSET Blocks

\* What is true of every place by itself.
PlaceOK(e) ==
    /\ e \in BlockRecords
    /\ e.state = "none" => e.size = 0
    /\ e.state # "none" => e.queue \in TorchQueues
    /\ e.forgot <= e.life
    /\ e.state = "cached" => e.ready \/ e.forgot = e.life

\* Each table holds the places in its state.
Tables ==
    /\ \A b \in Blocks : PlaceOK(block[b])
    /\ Range(cache) = Places("cached") /\ IsInjective(cache)
    /\ inUse \subseteq Places("live") \cup Places("raw")

\* The fields of a record.
LEMMA RecordFields ==
    ASSUME NEW e \in BlockRecords
    PROVE  /\ e.state \in States /\ e.size \in Nat /\ e.ready \in BOOLEAN /\ e.life \in Nat
           /\ e.life <= MaxLives /\ e.queue \in TorchQueues \cup {NoTorchQueue}
           /\ e.forgot \in 0 .. MaxLives /\ e.forgot \in Nat
<1>1. /\ e.state \in States /\ e.size \in {0} \cup BlockSizes /\ e.ready \in BOOLEAN
      /\ e.queue \in TorchQueues \cup {NoTorchQueue} /\ e.life \in 0 .. MaxLives
      /\ e.forgot \in 0 .. MaxLives
    BY DEF BlockRecords
<1>2. MaxLives \in Nat /\ \A n \in {0} \cup BlockSizes : n \in Nat
    BY TorchAssumption
<1>3. e.size \in Nat
    BY <1>1, <1>2, Zenon
<1>4. e.life \in Nat /\ e.life <= MaxLives /\ e.forgot \in Nat
    BY <1>1, <1>2
<1>. QED  BY <1>1, <1>3, <1>4

\* Fields in range make a record.
LEMMA RecordIs ==
    ASSUME NEW s \in States, NEW n \in {0} \cup BlockSizes,
           NEW q \in TorchQueues \cup {NoTorchQueue}, NEW r \in BOOLEAN,
           NEW l \in 0 .. MaxLives, NEW f \in 0 .. MaxLives
    PROVE  [state |-> s, size |-> n, queue |-> q, ready |-> r, life |-> l, forgot |-> f]
               \in BlockRecords
BY DEF BlockRecords

\* That of a place that is empty.
LEMMA EmptyRecord ==
    ASSUME NEW l \in 0 .. MaxLives, NEW f \in 0 .. MaxLives
    PROVE  [state |-> "none", size |-> 0, queue |-> NoTorchQueue, ready |-> FALSE,
            life |-> l, forgot |-> f] \in BlockRecords
<1>1. /\ FALSE \in BOOLEAN /\ "none" \in States /\ 0 \in {0} \cup BlockSizes
      /\ NoTorchQueue \in TorchQueues \cup {NoTorchQueue}
    BY DEF States
<1>. QED  BY <1>1 DEF BlockRecords

\* A place is handed out in a record of its own; MaxLives bounds how often.
LEMMA HandedOut ==
    ASSUME Types, Tables, MayHandOut, NEW b \in Blocks, NEW state \in {"live", "raw"},
           NEW q \in TorchQueues, NEW n \in BlockSizes,
           NEW e, e = HandOut(b, state, q, n)
    PROVE  /\ PlaceOK(e) /\ e.state = state /\ e.size = n /\ e.queue = q
           /\ e.life = block[b].life + 1 /\ e.forgot = block[b].forgot
<1>. DEFINE f == [x \in Blocks |-> block[x].life]
<1>1. \A x \in Blocks : block[x].life \in Nat
    BY RecordFields DEF Types
<1>2. f[b] <= SumFunction(f) /\ SumFunction(f) \in Nat /\ f[b] = block[b].life
    <2>1. IsFiniteSet(DOMAIN f) /\ DOMAIN f = Blocks /\ \A x \in Blocks : f[x] \in Nat
        BY <1>1, TorchAssumption
    <2>2. f[b] = block[b].life
        OBVIOUS
    <2>. HIDE DEF f
    <2>. QED  BY <2>1, <2>2, SumOfNaturals
<1>3. SumFunction(f) < MaxLives
    BY DEF MayHandOut
<1>. HIDE DEF f
<1>4. block[b].life + 1 \in 0 .. MaxLives
    BY <1>1, <1>2, <1>3, TorchAssumption
<1>5. e = [state |-> state, size |-> n, queue |-> q, ready |-> FALSE,
           life |-> block[b].life + 1, forgot |-> block[b].forgot]
    BY DEF HandOut
<1>6. e \in BlockRecords
    <2>1. /\ FALSE \in BOOLEAN /\ state \in States /\ n \in {0} \cup BlockSizes
          /\ q \in TorchQueues \cup {NoTorchQueue}
        BY DEF States
    <2>2. block[b].forgot \in 0 .. MaxLives
        BY RecordFields DEF Types
    <2>. QED  BY <1>4, <1>5, <2>1, <2>2 DEF BlockRecords
<1>7. block[b].forgot \in Nat /\ block[b].forgot <= block[b].life + 1
    <2>1. PlaceOK(block[b]) /\ block[b].forgot \in Nat
        BY RecordFields DEF Types, Tables
    <2>. QED  BY <1>1, <2>1 DEF PlaceOK
<1>. QED  BY <1>5, <1>6, <1>7 DEF PlaceOK

\* A place whose memory was given back.
LEMMA VacatedPlace ==
    ASSUME Types, Tables, NEW b \in Blocks, NEW S, NEW e, e = Vacated(S)[b]
    PROVE  /\ b \notin S => e = block[b]
           /\ b \in S => /\ PlaceOK(e) /\ e.state = "none" /\ e.size = 0
                         /\ e.life = block[b].life /\ e.forgot = block[b].forgot
<1>1. b \notin S => e = block[b]
    BY DEF Vacated
<1>2. ASSUME b \in S
      PROVE  e = [state |-> "none", size |-> 0, queue |-> NoTorchQueue, ready |-> FALSE,
                  life |-> block[b].life, forgot |-> block[b].forgot]
    BY <1>2 DEF Vacated, NoBlock
<1>3. /\ block[b].life \in 0 .. MaxLives /\ block[b].forgot \in 0 .. MaxLives
      /\ block[b].forgot <= block[b].life
    <2>1. PlaceOK(block[b]) /\ block[b] \in BlockRecords
        BY DEF Types, Tables
    <2>. QED  BY <2>1, RecordFields, TorchAssumption DEF PlaceOK
<1>4. ASSUME b \in S PROVE e \in BlockRecords
    <2>. DEFINE l == block[b].life  f == block[b].forgot
    <2>1. l \in 0 .. MaxLives /\ f \in 0 .. MaxLives
        BY <1>3
    <2>2. e = [state |-> "none", size |-> 0, queue |-> NoTorchQueue, ready |-> FALSE,
               life |-> l, forgot |-> f]
        BY <1>2, <1>4
    <2>. HIDE DEF l, f
    <2>. QED  BY <2>1, <2>2, EmptyRecord
<1>. QED  BY <1>1, <1>2, <1>3, <1>4 DEF PlaceOK

-----------------------------------------------------------------------------
(* What each step does to the tables.                                       *)

\* A set of numbers that is not empty has a least one.
LEMMA LeastExists ==
    ASSUME NEW I \in SUBSET Nat, I # {}
    PROVE  \E m \in I : \A n \in I : m <= n
<1>. DEFINE T == {n \in Nat : \A k \in 0 .. n : k \notin I}
<1>. SUFFICES ASSUME \A m \in I : \E n \in I : n < m PROVE FALSE
    OBVIOUS
<1>1. 0 \in T
    OBVIOUS
<1>2. ASSUME NEW n \in T \cap Nat PROVE n + 1 \in T
    <2>1. n + 1 \notin I
        BY <1>2
    <2>2. \A k \in 0 .. n + 1 : k = n + 1 \/ k \in 0 .. n
        OBVIOUS
    <2>. QED  BY <1>2, <2>1, <2>2
<1>3. Nat \subseteq T
    <2>. HIDE DEF T
    <2>. QED  BY <1>1, <1>2, NumbersByInduction
<1>4. \A m \in Nat : m \in 0 .. m
    OBVIOUS
<1>. QED  BY <1>3, <1>4

\* The block that is found is cached and has the size.
LEMMA MatchFinds ==
    ASSUME Types, NEW n, Match(n) # 0
    PROVE  Match(n) \in 1 .. Len(cache) /\ block[cache[Match(n)]].size = n
<1>. DEFINE I == {i \in 1 .. Len(cache) : block[cache[i]].size = n}
<1>1. I # {} /\ Match(n) = Seqs!Min(I)
    BY Zenon DEF Match, Seqs!SelectInSeq
<1>2. I \in SUBSET Nat
    OBVIOUS
<1>3. Seqs!Min(I) \in I
    <2>. HIDE DEF I
    <2>. QED  BY <1>1, <1>2, LeastExists DEF Seqs!Min
<1>. QED  BY <1>1, <1>3

\* The record of a place that is handed out.
Fresh(e, b, state, q, n) ==
    /\ PlaceOK(e) /\ e.state = state /\ e.size = n /\ e.queue = q
    /\ e.life = block[b].life + 1 /\ e.forgot = block[b].forgot

\* A block of the cache is handed out.
LEMMA HitTables ==
    ASSUME Types, Tables, NEW q \in TorchQueues, NEW n \in BlockSizes, AllocHit(q, n, FALSE)
    PROVE  /\ Types' /\ Tables'
           /\ \E b \in Blocks : \E e :
                 /\ Fresh(e, b, "live", q, n) /\ block' = [block EXCEPT ![b] = e]
                 /\ block[b].state = "cached" /\ block[b].size = n /\ MayReuse(q, b)
<1>. DEFINE i == Match(n)  b == cache[i]  e == HandOut(b, "live", q, n)
<1>1. /\ i # 0 /\ MayHandOut /\ MayReuse(q, b)
      /\ block' = [block EXCEPT ![b] = e]
      /\ cache' = Seqs!RemoveAt(cache, i)
      /\ inUse' = inUse \cup {b} /\ commands' = commands
    BY DEF AllocHit
<1>2. i \in 1 .. Len(cache) /\ block[b].size = n
    BY <1>1, MatchFinds
<1>3. b \in Blocks /\ cache \in Seq(Blocks) /\ DOMAIN cache = 1 .. Len(cache)
    BY <1>2 DEF Types
<1>. HIDE DEF i, b, e
<1>4. Fresh(e, b, "live", q, n)
    BY <1>1, <1>3, HandedOut DEF e, Fresh
<1>5. b \in Places("cached")
    BY <1>2, <1>3 DEF Tables, Range, b
<1>6. /\ Seqs!RemoveAt(cache, i) \in Seq(Blocks)
      /\ Len(Seqs!RemoveAt(cache, i)) = Len(cache) - 1
      /\ \A j \in 1 .. Len(cache) - 1 :
            Seqs!RemoveAt(cache, i)[j] = IF j < i THEN cache[j] ELSE cache[j + 1]
    BY <1>2, <1>3, RemovedAt DEF Seqs!RemoveAt
<1>7. DOMAIN cache' = 1 .. Len(cache) - 1 /\ Len(cache) \in Nat
    BY <1>1, <1>3, <1>6
<1>8. \A j \in 1 .. Len(cache) - 1 : cache'[j] = IF j < i THEN cache[j] ELSE cache[j + 1]
    BY <1>1, <1>6
<1>9. Range(cache') = Range(cache) \ {b}
    <2>1. \A j \in 1 .. Len(cache) : cache[j] = b => j = i
        BY <1>2, <1>3 DEF Tables, IsInjective, b
    <2>2. ASSUME NEW j \in 1 .. Len(cache) - 1 PROVE cache'[j] \in Range(cache) \ {b}
        <3>1. j \in 1 .. Len(cache) /\ j + 1 \in 1 .. Len(cache)
            BY <1>7
        <3>2. CASE j < i
            BY <1>3, <1>8, <2>1, <3>1, <3>2 DEF Range
        <3>3. CASE ~(j < i)
            BY <1>2, <1>3, <1>8, <2>1, <3>1, <3>3 DEF Range
        <3>. QED  BY <3>2, <3>3
    <2>3. ASSUME NEW j \in 1 .. Len(cache), cache[j] # b PROVE cache[j] \in Range(cache')
        <3>1. CASE j < i
            <4>1. j \in 1 .. Len(cache) - 1 /\ cache'[j] = cache[j]
                BY <1>2, <1>7, <1>8, <3>1
            <4>. QED  BY <1>7, <4>1 DEF Range
        <3>2. CASE ~(j < i)
            <4>1. j # i
                BY <2>3 DEF b
            <4>2. j - 1 \in 1 .. Len(cache) - 1 /\ ~(j - 1 < i) /\ (j - 1) + 1 = j
                BY <1>2, <1>7, <3>2, <4>1
            <4>3. cache'[j - 1] = cache[j]
                BY <1>8, <4>2
            <4>. QED  BY <1>7, <4>2, <4>3 DEF Range
        <3>. QED  BY <3>1, <3>2
    <2>. QED  BY <1>3, <1>7, <2>2, <2>3 DEF Range
<1>10. IsInjective(cache')
    <2>. SUFFICES ASSUME NEW j \in 1 .. Len(cache) - 1, NEW k \in 1 .. Len(cache) - 1,
                         cache'[j] = cache'[k]
                  PROVE  j = k
        BY <1>7, Zenon DEF IsInjective
    <2>1. \A x \in 1 .. Len(cache), y \in 1 .. Len(cache) : cache[x] = cache[y] => x = y
        BY <1>3 DEF Tables, IsInjective
    <2>. QED  BY <1>2, <1>7, <1>8, <2>1
<1>11. /\ block' \in [Blocks -> BlockRecords] /\ block'[b] = e
       /\ \A x \in Blocks : x # b => block'[x] = block[x]
    BY <1>1, <1>3, <1>4 DEF Types, Fresh, PlaceOK
<1>12. Types'
    BY <1>1, <1>3, <1>6, <1>11 DEF Types
<1>13. \A x \in Blocks : PlaceOK(block'[x])
    BY <1>4, <1>11 DEF Tables, Fresh
<1>14. Places("cached")' = Places("cached") \ {b}
    BY <1>4, <1>11 DEF Places, Fresh
<1>15. inUse' \subseteq Places("live")' \cup Places("raw")'
    BY <1>1, <1>3, <1>4, <1>5, <1>11 DEF Tables, Places, Fresh
<1>16. Tables'
    <2>1. (\A x \in Blocks : PlaceOK(block[x]))'
        BY <1>13 DEF PlaceOK
    <2>2. Range(cache') = Places("cached")'
        BY <1>9, <1>14 DEF Tables
    <2>. QED  BY <1>10, <1>13, <1>15, <2>2 DEF Tables
<1>. QED  BY <1>1, <1>2, <1>3, <1>4, <1>5, <1>12, <1>16 DEF Places

\* The record of a cached block whose entry in the live table failed.
LEMMA ForgottenRecord ==
    ASSUME NEW r0 \in BlockRecords, NEW q, NEW l, NEW e,
           e = [r0 EXCEPT !.queue = q, !.ready = FALSE, !.forgot = l]
    PROVE  e = [state |-> r0.state, size |-> r0.size, queue |-> q, ready |-> FALSE,
                life |-> r0.life, forgot |-> l]
<1>1. r0 = [state |-> r0.state, size |-> r0.size, queue |-> r0.queue,
            ready |-> r0.ready, life |-> r0.life, forgot |-> r0.forgot]
    BY DEF BlockRecords
<1>. QED  BY <1>1

\* It stays cached, on the other queue and without its barrier.
LEMMA ForgetTables ==
    ASSUME Types, Tables, NEW q \in TorchQueues, NEW n \in BlockSizes, AllocHit(q, n, TRUE)
    PROVE  /\ Types' /\ Tables'
           /\ \E b \in Blocks : \E e :
                 /\ block' = [block EXCEPT ![b] = e] /\ block[b].state = "cached"
                 /\ MayReuse(q, b) /\ e.state = "cached" /\ e.size = block[b].size
                 /\ e.queue = q /\ e.life = block[b].life /\ e.forgot = block[b].life
<1>. DEFINE i == Match(n)  b == cache[i]
            e == [block[b] EXCEPT !.queue = q, !.ready = FALSE, !.forgot = block[b].life]
<1>1. /\ i # 0 /\ MayReuse(q, b)
      /\ block' = [block EXCEPT ![b].queue = q, ![b].ready = FALSE, ![b].forgot = block[b].life]
      /\ UNCHANGED <<cache, inUse, commands>>
    BY DEF AllocHit
<1>2. i \in 1 .. Len(cache)
    BY <1>1, MatchFinds
<1>3. b \in Blocks /\ DOMAIN cache = 1 .. Len(cache)
    BY <1>2 DEF Types
<1>4. block' = [block EXCEPT ![b] = e]
    BY <1>1, <1>3 DEF Types
<1>5. block[b].state = "cached"
    BY <1>2, <1>3 DEF Tables, Range, Places
<1>. HIDE DEF i, b
<1>6. /\ PlaceOK(block[b]) /\ block[b] \in BlockRecords
      /\ block[b].size \in {0} \cup BlockSizes /\ block[b].life \in 0 .. MaxLives
      /\ block[b].life \in Nat
    BY <1>3, RecordFields DEF Types, Tables, BlockRecords
<1>7. e = [state |-> "cached", size |-> block[b].size, queue |-> q, ready |-> FALSE,
           life |-> block[b].life, forgot |-> block[b].life]
    <2>. DEFINE r0 == block[b]
    <2>1. r0 \in BlockRecords /\ r0.state = "cached"
        BY <1>5, <1>6
    <2>. HIDE DEF r0
    <2>2. [r0 EXCEPT !.queue = q, !.ready = FALSE, !.forgot = r0.life]
              = [state |-> "cached", size |-> r0.size, queue |-> q, ready |-> FALSE,
                 life |-> r0.life, forgot |-> r0.life]
        BY <2>1, ForgottenRecord
    <2>. QED  BY <2>2 DEF r0
<1>. HIDE DEF e
<1>8. e \in BlockRecords
    <2>1. "cached" \in States /\ q \in TorchQueues \cup {NoTorchQueue} /\ FALSE \in BOOLEAN
        BY DEF States
    <2>. QED  BY <1>6, <1>7, <2>1, RecordIs
<1>9. PlaceOK(e)
    BY <1>5, <1>6, <1>7, <1>8 DEF PlaceOK
<1>10. /\ block' \in [Blocks -> BlockRecords] /\ block'[b] = e
       /\ \A x \in Blocks : x # b => block'[x] = block[x]
    BY <1>3, <1>4, <1>8 DEF Types
<1>11. Types'
    BY <1>1, <1>10 DEF Types
<1>12. /\ Places("cached")' = Places("cached") /\ Places("live")' = Places("live")
       /\ Places("raw")' = Places("raw")
    BY <1>5, <1>7, <1>10 DEF Places
<1>13. \A x \in Blocks : PlaceOK(block'[x])
    BY <1>9, <1>10 DEF Tables
<1>14. Tables'
    BY <1>1, <1>12, <1>13 DEF Tables
<1>15. /\ block' = [block EXCEPT ![b] = e] /\ block[b].state = "cached" /\ MayReuse(q, b)
       /\ e.state = "cached" /\ e.size = block[b].size
       /\ e.queue = q /\ e.life = block[b].life /\ e.forgot = block[b].life
    BY <1>1, <1>4, <1>5, <1>7
<1>. QED  BY <1>3, <1>11, <1>14, <1>15

\* The cached blocks S were given back.
LEMMA VacatedTables ==
    ASSUME Types, Tables, NEW S, S \subseteq Releasable
    PROVE  /\ Remaining(S) \in Seq(Blocks) /\ IsInjective(Remaining(S))
           /\ Range(Remaining(S)) = Places("cached") \ S
           /\ S \subseteq Places("cached")
           /\ DOMAIN Vacated(S) = Blocks
           /\ \A b \in Blocks : /\ PlaceOK(Vacated(S)[b])
                                /\ b \notin S => Vacated(S)[b] = block[b]
                                /\ b \in S => /\ Vacated(S)[b].state = "none"
                                              /\ Vacated(S)[b].size = 0
                                              /\ Vacated(S)[b].life = block[b].life
                                              /\ Vacated(S)[b].forgot = block[b].forgot
<1>1. S \subseteq Places("cached")
    BY DEF Releasable, Tables
<1>2. /\ Remaining(S) \in Seq(Blocks) /\ IsInjective(Remaining(S))
      /\ Range(Remaining(S)) = Places("cached") \ S
    BY RemainingIs DEF Types, Tables
<1>3. DOMAIN Vacated(S) = Blocks
    BY DEF Vacated
<1>4. ASSUME NEW b \in Blocks
      PROVE  /\ PlaceOK(Vacated(S)[b])
             /\ b \notin S => Vacated(S)[b] = block[b]
             /\ b \in S => /\ Vacated(S)[b].state = "none" /\ Vacated(S)[b].size = 0
                           /\ Vacated(S)[b].life = block[b].life
                           /\ Vacated(S)[b].forgot = block[b].forgot
    BY VacatedPlace DEF Tables
<1>. QED  BY <1>1, <1>2, <1>3, <1>4

\* The cache is emptied of the blocks S.
LEMMA EmptyTables ==
    ASSUME Types, Tables, NEW S, EmptyCache(S)
    PROVE  Types' /\ Tables'
<1>1. /\ S \subseteq Releasable /\ block' = Vacated(S) /\ cache' = Remaining(S)
      /\ UNCHANGED <<commands, inUse>>
    BY DEF EmptyCache
<1>2. /\ cache' \in Seq(Blocks) /\ IsInjective(cache')
      /\ Range(cache') = Places("cached") \ S
      /\ S \subseteq Places("cached")
      /\ DOMAIN block' = Blocks
      /\ \A b \in Blocks : /\ PlaceOK(block'[b])
                           /\ b \notin S => block'[b] = block[b]
                           /\ b \in S => block'[b].state = "none"
    BY <1>1, VacatedTables
<1>3. block' = [b \in Blocks |-> block'[b]]
    BY <1>1 DEF Vacated
<1>4. block' \in [Blocks -> BlockRecords]
    BY <1>2, <1>3 DEF PlaceOK
<1>5. Types'
    BY <1>1, <1>2, <1>4 DEF Types
<1>6. Places("cached")' = Places("cached") \ S
    BY <1>2 DEF Places
<1>7. inUse' \subseteq Places("live")' \cup Places("raw")'
    BY <1>1, <1>2 DEF Tables, Places
<1>8. (\A b \in Blocks : PlaceOK(block[b]))'
    BY <1>2 DEF PlaceOK
<1>9. Range(cache') = Places("cached")'
    BY <1>2, <1>6
<1>. QED  BY <1>2, <1>5, <1>7, <1>9 DEF Tables

\* A block is made, at a place that is empty or has just become so.
LEMMA MissTables ==
    ASSUME Types, Tables, NEW q \in TorchQueues, NEW n \in BlockSizes,
           NEW S, AllocMiss(q, n, S)
    PROVE  /\ Types' /\ Tables'
           /\ \E b \in Places("none") \cup S : \E e :
                 Fresh(e, b, "live", q, n) /\ block' = [Vacated(S) EXCEPT ![b] = e]
<1>1. /\ S \subseteq Releasable /\ cache' = Remaining(S) /\ commands' = commands
      /\ Range(cache) = Places("cached") /\ inUse \subseteq Places("live") \cup Places("raw")
    BY DEF AllocMiss, Tables
<1>2. PICK b \in Places("none") \cup S :
          /\ MayHandOut
          /\ block' = [Vacated(S) EXCEPT ![b] = HandOut(b, "live", q, n)]
          /\ inUse' = inUse \cup {b}
    BY DEF AllocMiss
<1>3. /\ cache' \in Seq(Blocks) /\ IsInjective(cache')
      /\ Range(cache') = Places("cached") \ S
      /\ S \subseteq Places("cached")
      /\ DOMAIN Vacated(S) = Blocks
      /\ \A x \in Blocks : /\ PlaceOK(Vacated(S)[x])
                           /\ x \notin S => Vacated(S)[x] = block[x]
                           /\ x \in S => Vacated(S)[x].state = "none"
    BY <1>1, VacatedTables
<1>4. b \in Blocks /\ block[b].state \in {"none", "cached"} /\ (block[b].state = "cached" => b \in S)
    BY <1>2, <1>3 DEF Places
<1>. DEFINE e == HandOut(b, "live", q, n)
<1>5. Fresh(e, b, "live", q, n) /\ block' = [Vacated(S) EXCEPT ![b] = e]
    BY <1>2, <1>4, HandedOut DEF Fresh
<1>. HIDE DEF e
<1>6. /\ DOMAIN block' = Blocks /\ block'[b] = e
      /\ \A x \in Blocks : x # b => block'[x] = Vacated(S)[x]
      /\ block' = [x \in Blocks |-> block'[x]]
    BY <1>3, <1>4, <1>5
<1>7. \A x \in Blocks : PlaceOK(block'[x])
    BY <1>3, <1>5, <1>6 DEF Fresh
<1>8. block' \in [Blocks -> BlockRecords]
    BY <1>6, <1>7 DEF PlaceOK
<1>9. Types'
    BY <1>1, <1>2, <1>3, <1>4, <1>8 DEF Types
<1>10. Places("cached")' = Places("cached") \ S
    BY <1>3, <1>4, <1>5, <1>6 DEF Places, Fresh
<1>11. inUse' \subseteq Places("live")' \cup Places("raw")'
    <2>1. b \in Places("live")'
        BY <1>4, <1>5, <1>6 DEF Places, Fresh
    <2>2. ASSUME NEW x \in inUse, x # b PROVE x \in Places("live")' \cup Places("raw")'
        <3>1. x \in Blocks /\ block[x].state \in {"live", "raw"} /\ x \notin S
            BY <1>1, <1>3 DEF Places
        <3>. QED  BY <1>3, <1>6, <2>2, <3>1 DEF Places
    <2>. QED  BY <1>2, <2>1, <2>2
<1>12. Range(cache') = Places("cached")'
    BY <1>3, <1>10
<1>13. (\A x \in Blocks : PlaceOK(block[x]))'
    BY <1>7 DEF PlaceOK
<1>14. Tables'
    BY <1>3, <1>7, <1>11, <1>12 DEF Tables
<1>. QED  BY <1>5, <1>9, <1>14

\* One place that is not in the cache changes, and stays out of it.
LEMMA PlaceTables ==
    ASSUME Types, Tables, NEW b \in Blocks, NEW e, PlaceOK(e), e.state # "cached",
           block[b].state # "cached", block' = [block EXCEPT ![b] = e],
           UNCHANGED <<cache, commands>>, inUse' \in SUBSET Blocks,
           inUse' \subseteq inUse \cup {b},
           b \in inUse' => e.state \in {"live", "raw"}
    PROVE  Types' /\ Tables'
<1>1. /\ block' \in [Blocks -> BlockRecords] /\ block'[b] = e
      /\ \A x \in Blocks : x # b => block'[x] = block[x]
    BY DEF Types, PlaceOK
<1>2. \A x \in Blocks : PlaceOK(block'[x])
    BY <1>1 DEF Tables
<1>3. Places("cached")' = Places("cached")
    BY <1>1 DEF Places
<1>4. inUse' \subseteq Places("live")' \cup Places("raw")'
    <2>1. ASSUME NEW x \in inUse' PROVE x \in Places("live")' \cup Places("raw")'
        <3>1. CASE x = b
            BY <1>1, <2>1, <3>1 DEF Places
        <3>2. CASE x # b
            <4>1. x \in Blocks /\ block[x].state \in {"live", "raw"}
                BY <2>1, <3>2 DEF Tables, Places
            <4>. QED  BY <1>1, <3>2, <4>1 DEF Places
        <3>. QED  BY <3>1, <3>2
    <2>. QED  BY <2>1
<1>5. Types'
    BY <1>1 DEF Types
<1>6. Range(cache') = Places("cached")' /\ IsInjective(cache')
    BY <1>3 DEF Tables
<1>. QED  BY <1>2, <1>4, <1>5, <1>6 DEF Tables

\* A raw allocation takes an empty place.
LEMMA RawAllocTables ==
    ASSUME Types, Tables, NEW q \in TorchQueues, NEW n \in BlockSizes, RawAlloc(q, n)
    PROVE  /\ Types' /\ Tables'
           /\ \E b \in Places("none") : \E e :
                 Fresh(e, b, "raw", q, n) /\ block' = [block EXCEPT ![b] = e]
<1>1. PICK b \in Places("none") :
          /\ MayHandOut
          /\ block' = [block EXCEPT ![b] = HandOut(b, "raw", q, n)]
          /\ inUse' = inUse \cup {b} /\ UNCHANGED <<cache, commands>>
    BY DEF RawAlloc
<1>2. b \in Blocks /\ block[b].state = "none"
    BY DEF Places
<1>. DEFINE e == HandOut(b, "raw", q, n)
<1>3. Fresh(e, b, "raw", q, n) /\ block' = [block EXCEPT ![b] = e]
    BY <1>1, <1>2, HandedOut DEF Fresh
<1>. HIDE DEF e
<1>4. Types' /\ Tables'
    <2>1. inUse' \in SUBSET Blocks /\ inUse' \subseteq inUse \cup {b}
        BY <1>1, <1>2 DEF Types
    <2>2. PlaceOK(e) /\ e.state = "raw"
        BY <1>3 DEF Fresh
    <2>. QED  BY <1>1, <1>2, <1>3, <2>1, <2>2, PlaceTables
<1>. QED  BY <1>3, <1>4

\* A raw allocation is freed when no queue is busy with it.
LEMMA RawFreeTables ==
    ASSUME Types, Tables, NEW b \in Blocks, NEW throws \in BOOLEAN, RawFree(b, throws)
    PROVE  /\ Types' /\ Tables'
           /\ block[b].state = "raw" /\ \A q \in TorchQueues : ~Busy(q, b)
           /\ UNCHANGED commands
           /\ throws => block' = block
           /\ ~throws => block' = Vacated({b})
<1>1. /\ b \in inUse /\ block[b].state = "raw" /\ \A q \in TorchQueues : ~Busy(q, b)
      /\ inUse' = inUse \ {b} /\ UNCHANGED <<cache, commands>>
      /\ throws => block' = block
      /\ ~throws => block' = Vacated({b})
    BY DEF RawFree
<1>2. CASE throws
    <2>1. PlaceOK(block[b]) /\ block' = [block EXCEPT ![b] = block[b]]
        BY <1>1, <1>2 DEF Types, Tables
    <2>2. /\ inUse' \in SUBSET Blocks /\ inUse' \subseteq inUse \cup {b} /\ b \notin inUse'
          /\ block[b].state # "cached"
        BY <1>1 DEF Types
    <2>. QED  BY <1>1, <1>2, <2>1, <2>2, PlaceTables
<1>3. CASE ~throws
    <2>. DEFINE e == Vacated({b})[b]
    <2>1. PlaceOK(e) /\ e.state = "none"
        BY VacatedPlace
    <2>2. block' = [block EXCEPT ![b] = e]
        BY <1>1, <1>3 DEF Vacated, Types
    <2>. HIDE DEF e
    <2>3. /\ inUse' \in SUBSET Blocks /\ inUse' \subseteq inUse \cup {b} /\ b \notin inUse'
        BY <1>1 DEF Types
    <2>. QED  BY <1>1, <1>3, <2>1, <2>2, <2>3, PlaceTables
<1>. QED  BY <1>2, <1>3

\* A command of a place.
LEMMA CommandType ==
    ASSUME Types, NEW b \in Blocks, NEW kind \in {"work", "barrier"}
    PROVE  /\ Command(kind, b) \in CommandRecords
           /\ Command(kind, b).kind = kind /\ Command(kind, b).block = b
           /\ Command(kind, b).life = block[b].life
<1>1. block[b].life \in Nat
    BY RecordFields DEF Types
<1>. QED  BY <1>1 DEF Command, CommandRecords

\* A command is appended to queue q.
Given(q, c) ==
    /\ commands' = [commands EXCEPT ![q] = Append(commands[q], c)]

\* A command is the last of its queue.
LEMMA CommandGiven ==
    ASSUME Types, NEW q \in TorchQueues, NEW c \in CommandRecords, Given(q, c)
    PROVE  /\ commands' \in [TorchQueues -> Seq(CommandRecords)]
           /\ Len(commands'[q]) = Len(commands[q]) + 1
           /\ \A i \in 1 .. Len(commands[q]) : commands'[q][i] = commands[q][i]
           /\ commands'[q][Len(commands[q]) + 1] = c
           /\ \A r \in TorchQueues : r # q => commands'[r] = commands[r]
<1>. DEFINE s == commands[q]  t == Append(s, c)
<1>1. s \in Seq(CommandRecords)
    BY DEF Types
<1>2. /\ t \in Seq(CommandRecords) /\ Len(t) = Len(s) + 1
      /\ \A j \in 1 .. Len(s) : t[j] = s[j]
      /\ t[Len(s) + 1] = c
    BY <1>1, Appended
<1>3. commands' = [commands EXCEPT ![q] = t]
    BY DEF Given
<1>. HIDE DEF t
<1>4. commands'[q] = t /\ \A r \in TorchQueues : r # q => commands'[r] = commands[r]
    BY <1>3 DEF Types
<1>5. commands' \in [TorchQueues -> Seq(CommandRecords)]
    BY <1>2, <1>3 DEF Types
<1>. QED  BY <1>2, <1>4, <1>5

\* Work on a block changes no table.
LEMMA UseTables ==
    ASSUME Types, Tables, NEW q \in TorchQueues, NEW b \in Blocks, UseBlock(q, b)
    PROVE  Types' /\ Tables' /\ Given(q, Command("work", b))
<1>1. Given(q, Command("work", b)) /\ UNCHANGED <<block, cache, inUse>>
    BY DEF UseBlock, Given
<1>2. commands' \in [TorchQueues -> Seq(CommandRecords)]
    BY <1>1, CommandType, CommandGiven
<1>. QED  BY <1>1, <1>2 DEF Types, Tables, Places

\* A command that has finished leaves its queue.
LEMMA FinishTables ==
    ASSUME Types, Tables, NEW q \in TorchQueues, NEW i \in 1 .. Len(commands[q]),
           FinishCommand(q, i)
    PROVE  /\ Types' /\ Tables' /\ Runnable(q, i) /\ block' = block
           /\ Len(commands'[q]) = Len(commands[q]) - 1
           /\ \A j \in 1 .. Len(commands[q]) - 1 :
                 commands'[q][j] = IF j < i THEN commands[q][j] ELSE commands[q][j + 1]
           /\ \A r \in TorchQueues : r # q => commands'[r] = commands[r]
<1>. DEFINE s == commands[q]  t == Seqs!RemoveAt(s, i)
<1>1. s \in Seq(CommandRecords)
    BY DEF Types
<1>2. /\ t \in Seq(CommandRecords) /\ Len(t) = Len(s) - 1
      /\ \A j \in 1 .. Len(s) - 1 : t[j] = IF j < i THEN s[j] ELSE s[j + 1]
    BY <1>1, RemovedAt DEF Seqs!RemoveAt
<1>3. commands' = [commands EXCEPT ![q] = t] /\ UNCHANGED <<block, cache, inUse>>
      /\ Runnable(q, i)
    BY DEF FinishCommand
<1>. HIDE DEF t
<1>4. commands'[q] = t /\ \A r \in TorchQueues : r # q => commands'[r] = commands[r]
    BY <1>3 DEF Types
<1>5. commands' \in [TorchQueues -> Seq(CommandRecords)]
    BY <1>2, <1>3 DEF Types
<1>6. Types' /\ Tables'
    BY <1>3, <1>5 DEF Types, Tables, Places
<1>. QED  BY <1>2, <1>3, <1>4, <1>6

\* A live block whose barrier could not be given stays live, on the queue it was freed on.
LEMMA FreedRecord ==
    ASSUME NEW r0 \in BlockRecords, NEW q, NEW e, e = [r0 EXCEPT !.queue = q]
    PROVE  e = [state |-> r0.state, size |-> r0.size, queue |-> q, ready |-> r0.ready,
                life |-> r0.life, forgot |-> r0.forgot]
<1>1. r0 = [state |-> r0.state, size |-> r0.size, queue |-> r0.queue,
            ready |-> r0.ready, life |-> r0.life, forgot |-> r0.forgot]
    BY DEF BlockRecords
<1>. QED  BY <1>1

\* A block that was freed is cached, ready when its barrier is done.
LEMMA CachedRecord ==
    ASSUME NEW r0 \in BlockRecords, NEW q, NEW e,
           e = [r0 EXCEPT !.queue = q, !.ready = TRUE, !.state = "cached"]
    PROVE  e = [state |-> "cached", size |-> r0.size, queue |-> q, ready |-> TRUE,
                life |-> r0.life, forgot |-> r0.forgot]
<1>1. r0 = [state |-> r0.state, size |-> r0.size, queue |-> r0.queue,
            ready |-> r0.ready, life |-> r0.life, forgot |-> r0.forgot]
    BY DEF BlockRecords
<1>. QED  BY <1>1

\* A block that is freed, with its barrier; or whose barrier could not be given.
LEMMA FreeTables ==
    ASSUME Types, Tables, NEW b \in Blocks, NEW named \in TorchQueues \cup {NoTorchQueue},
           NEW throws \in BOOLEAN, FreeBlock(b, named, throws)
    PROVE  /\ Types' /\ Tables' /\ FreedOn(b, named) \in TorchQueues
           /\ block[b].state = "live"
           /\ \A r \in TorchQueues : Busy(r, b) => r = FreedOn(b, named)
           /\ \A x \in Blocks : x # b => block'[x] = block[x]
           /\ block'[b].queue = FreedOn(b, named) /\ block'[b].life = block[b].life
           /\ block'[b].size = block[b].size /\ block'[b].forgot = block[b].forgot
           /\ throws => block'[b].state = "live" /\ commands' = commands
           /\ ~throws => /\ block'[b].state = "cached"
                         /\ Given(FreedOn(b, named), Command("barrier", b))
<1>. DEFINE q == FreedOn(b, named)  r0 == block[b]
<1>1. /\ b \in inUse /\ r0.state = "live" /\ inUse' = inUse \ {b}
      /\ \A r \in TorchQueues : Busy(r, b) =>
             r = named \/ (named = NoTorchQueue /\ r = r0.queue)
    BY DEF FreeBlock
<1>2. r0.queue \in TorchQueues /\ q \in TorchQueues /\ PlaceOK(r0)
    BY <1>1 DEF Tables, PlaceOK, FreedOn
<1>3. \A r \in TorchQueues : Busy(r, b) => r = q
    BY <1>1, TorchAssumption DEF FreedOn
<1>4. /\ r0 = [state |-> r0.state, size |-> r0.size, queue |-> r0.queue,
               ready |-> r0.ready, life |-> r0.life, forgot |-> r0.forgot]
      /\ r0.size \in {0} \cup BlockSizes /\ r0.life \in 0 .. MaxLives /\ r0.ready \in BOOLEAN
      /\ r0.forgot \in 0 .. MaxLives /\ r0.forgot <= r0.life
    BY <1>2 DEF PlaceOK, BlockRecords
<1>5. CASE throws
    <2>. DEFINE e == [r0 EXCEPT !.queue = q]
    <2>1. block' = [block EXCEPT ![b] = e] /\ UNCHANGED <<cache, commands>>
        BY <1>5 DEF FreeBlock
    <2>2. e = [state |-> "live", size |-> r0.size, queue |-> q, ready |-> r0.ready,
               life |-> r0.life, forgot |-> r0.forgot]
        <3>1. r0 \in BlockRecords /\ r0.state = "live"
            BY <1>1, <1>2 DEF PlaceOK
        <3>. HIDE DEF r0, q
        <3>. QED  BY <3>1, FreedRecord
    <2>. HIDE DEF e, r0, q
    <2>3. e \in BlockRecords
        <3>1. "live" \in States /\ q \in TorchQueues \cup {NoTorchQueue}
            BY <1>2 DEF States
        <3>. QED  BY <1>4, <2>2, <3>1, RecordIs
    <2>4. PlaceOK(e)
        BY <1>2, <1>4, <2>2, <2>3 DEF PlaceOK
    <2>5. /\ inUse' \in SUBSET Blocks /\ inUse' \subseteq inUse \cup {b} /\ b \notin inUse'
          /\ block[b].state # "cached" /\ e.state # "cached"
        BY <1>1, <2>2 DEF Types, r0
    <2>6. Types' /\ Tables'
        BY <2>1, <2>4, <2>5, PlaceTables
    <2>7. block'[b] = e /\ \A x \in Blocks : x # b => block'[x] = block[x]
        BY <2>1 DEF Types
    <2>. QED  BY <1>1, <1>2, <1>3, <1>5, <2>1, <2>2, <2>6, <2>7 DEF q, r0
<1>6. CASE ~throws
    <2>. DEFINE e == [r0 EXCEPT !.queue = q, !.ready = TRUE, !.state = "cached"]
    <2>1. /\ block' = [block EXCEPT ![b].queue = q, ![b].ready = TRUE, ![b].state = "cached"]
          /\ cache' = Append(cache, b)
          /\ Given(q, Command("barrier", b))
        BY <1>6 DEF FreeBlock, Given
    <2>2. block' = [block EXCEPT ![b] = e]
        BY <2>1 DEF Types
    <2>3. e = [state |-> "cached", size |-> r0.size, queue |-> q, ready |-> TRUE,
               life |-> r0.life, forgot |-> r0.forgot]
        <3>1. r0 \in BlockRecords
            BY <1>2 DEF PlaceOK
        <3>. HIDE DEF r0, q
        <3>. QED  BY <3>1, CachedRecord
    <2>. HIDE DEF e, r0, q
    <2>4. e \in BlockRecords
        <3>1. "cached" \in States /\ q \in TorchQueues \cup {NoTorchQueue} /\ TRUE \in BOOLEAN
            BY <1>2 DEF States
        <3>. QED  BY <1>4, <2>3, <3>1, RecordIs
    <2>5. PlaceOK(e)
        BY <1>2, <1>4, <2>3, <2>4 DEF PlaceOK
    <2>6. block'[b] = e /\ \A x \in Blocks : x # b => block'[x] = block[x]
        BY <2>2 DEF Types
    <2>7. block' \in [Blocks -> BlockRecords]
        BY <2>2, <2>4 DEF Types
    <2>8. commands' \in [TorchQueues -> Seq(CommandRecords)]
        BY <1>2, <2>1, CommandType, CommandGiven
    <2>9. /\ cache' \in Seq(Blocks) /\ Len(cache') = Len(cache) + 1
          /\ \A j \in 1 .. Len(cache) : cache'[j] = cache[j]
          /\ cache'[Len(cache) + 1] = b
        BY <2>1, Appended DEF Types
    <2>10. cache \in Seq(Blocks) /\ Len(cache) \in Nat /\ DOMAIN cache = 1 .. Len(cache)
           /\ DOMAIN cache' = 1 .. Len(cache) + 1
        BY <2>9 DEF Types
    <2>11. Range(cache') = Range(cache) \cup {b}
        BY <2>9, <2>10 DEF Range
    <2>12. b \notin Range(cache)
        BY <1>1 DEF Tables, Places, r0
    <2>13. IsInjective(cache')
        <3>1. \A j \in 1 .. Len(cache) : cache[j] # b
            BY <2>10, <2>12 DEF Range
        <3>2. \A j, k \in 1 .. Len(cache) : cache[j] = cache[k] => j = k
            BY <2>10 DEF Tables, IsInjective
        <3>. QED  BY <2>9, <2>10, <3>1, <3>2 DEF IsInjective
    <2>14. Places("cached")' = Places("cached") \cup {b}
        BY <2>3, <2>6 DEF Places
    <2>15. inUse' \subseteq Places("live")' \cup Places("raw")'
        BY <1>1, <2>6 DEF Tables, Places
    <2>16. \A x \in Blocks : PlaceOK(block'[x])
        BY <2>5, <2>6 DEF Tables
    <2>17. Range(cache') = Places("cached")'
        BY <2>11, <2>14 DEF Tables
    <2>18. Types'
        BY <1>1, <2>7, <2>8, <2>9 DEF Types
    <2>19. Tables'
        BY <2>13, <2>15, <2>16, <2>17 DEF Tables
    <2>20. /\ e.queue = q /\ e.life = r0.life /\ e.size = r0.size /\ e.state = "cached"
           /\ e.forgot = r0.forgot
        BY <2>3
    <2>21. /\ block'[b].queue = q /\ block'[b].life = r0.life /\ block'[b].size = r0.size
           /\ block'[b].state = "cached" /\ block'[b].forgot = r0.forgot
        BY <2>6, <2>20
    <2>. QED  BY <1>1, <1>2, <1>3, <1>6, <2>1, <2>6, <2>18, <2>19, <2>21 DEF q, r0
<1>. QED  BY <1>5, <1>6

-----------------------------------------------------------------------------
(* The order of the work on a place.                                        *)

\* The commands of a queue, by position.
Positions(q) == 1 .. Len(commands[q])

\* The i-th command of q is work on b whose barrier was not lost.
WorkAt(q, i, b) ==
    /\ commands[q][i].kind = "work" /\ commands[q][i].block = b
    /\ block[b].forgot < commands[q][i].life

\* Of such work on b that is not finished, that of an earlier life is in the
\* queue of b ahead of a barrier, and of all work of a later life.
OrderOf(b) ==
    \A q \in TorchQueues : \A i \in Positions(q) : WorkAt(q, i, b) =>
        /\ block[b].state # "none" /\ commands[q][i].life <= block[b].life
        /\ block[b].state = "cached" =>
              /\ block[b].queue = q
              /\ \E j \in Positions(q) : i < j /\ commands[q][j] = Command("barrier", b)
        /\ commands[q][i].life < block[b].life =>
              /\ block[b].queue = q
              /\ \E j \in Positions(q) : i < j /\ commands[q][j].kind = "barrier"
        /\ \A r \in TorchQueues : \A k \in Positions(r) :
              WorkAt(r, k, b) /\ commands[q][i].life < commands[r][k].life =>
                  /\ r = q
                  /\ \E j \in Positions(q) : i < j /\ j < k /\ commands[q][j].kind = "barrier"

\* No queue is busy with such work on the place.
Quiet(b) == \A q \in TorchQueues : \A i \in Positions(q) : ~WorkAt(q, i, b)

\* The first conjunct says that no place that was given back has work to come.
LEMMA QuietPlace ==
    ASSUME NEW b, OrderOf(b), block[b].state = "none"
    PROVE  Quiet(b)
BY DEF OrderOf, Quiet

\* A cached block whose barrier is done has no work to come.
LEMMA QuietCached ==
    ASSUME NEW b, OrderOf(b), block[b].state = "cached", BarrierDone(b)
    PROVE  Quiet(b)
<1>. SUFFICES ASSUME NEW q \in TorchQueues, NEW i \in Positions(q), WorkAt(q, i, b)
              PROVE  FALSE
    BY DEF Quiet
<1>1. \E j \in Positions(q) : commands[q][j] = Command("barrier", b)
    BY DEF OrderOf
<1>. QED  BY <1>1 DEF BarrierDone, Positions

\* If the barriers of all its lives were lost, it has none either.
LEMMA QuietForgotten ==
    ASSUME Types, NEW b \in Blocks, OrderOf(b), block[b].forgot = block[b].life
    PROVE  Quiet(b)
<1>. SUFFICES ASSUME NEW q \in TorchQueues, NEW i \in Positions(q), WorkAt(q, i, b)
              PROVE  FALSE
    BY DEF Quiet
<1>1. commands[q][i].life \in Nat /\ block[b].life \in Nat
    <2>1. commands[q][i] \in CommandRecords
        BY DEF Types, Positions
    <2>. QED  BY <2>1, RecordFields DEF Types, CommandRecords
<1>2. commands[q][i].life <= block[b].life
    BY DEF OrderOf
<1>. QED  BY <1>1, <1>2 DEF WorkAt

\* A cached block that may be reused by another queue, or given back, is quiet.
LEMMA QuietUnready ==
    ASSUME Types, Tables, NEW b \in Blocks, OrderOf(b), block[b].state = "cached",
           block[b].ready => BarrierDone(b)
    PROVE  Quiet(b)
<1>1. block[b].ready \/ block[b].forgot = block[b].life
    BY DEF Tables, PlaceOK
<1>. QED  BY <1>1, QuietCached, QuietForgotten

\* Where there is no work there is none to put in order.
LEMMA QuietOrder ==
    ASSUME NEW b, Quiet(b), block'[b].forgot = block[b].forgot, commands' = commands
    PROVE  OrderOf(b)'
<1>. SUFFICES ASSUME NEW q \in TorchQueues, NEW i \in Positions(q)', WorkAt(q, i, b)'
              PROVE  FALSE
    BY DEF OrderOf
<1>. QED  BY DEF Quiet, WorkAt, Positions

\* Nothing that matters to a place has changed.
LEMMA SameOrder ==
    ASSUME NEW b, OrderOf(b), block'[b] = block[b], commands' = commands
    PROVE  OrderOf(b)'
<1>1. Command("barrier", b)' = Command("barrier", b)
    BY DEF Command
<1>. QED  BY <1>1 DEF OrderOf, WorkAt, Positions

\* A cached block is handed out to the queue it is on: what is left of its
\* life is in that queue, ahead of its barrier.
LEMMA ReusedOrder ==
    ASSUME Types, NEW b \in Blocks, OrderOf(b), block[b].state = "cached",
           NEW e, e.state = "live", e.queue = block[b].queue, e.life = block[b].life + 1,
           e.forgot = block[b].forgot, block'[b] = e, commands' = commands
    PROVE  OrderOf(b)'
<1>. SUFFICES ASSUME NEW q \in TorchQueues, NEW i \in Positions(q), WorkAt(q, i, b)
              PROVE  /\ commands[q][i].life <= e.life
                     /\ e.queue = q
                     /\ \E j \in Positions(q) : i < j /\ commands[q][j].kind = "barrier"
                     /\ \A r \in TorchQueues : \A k \in Positions(r) :
                          WorkAt(r, k, b) /\ commands[q][i].life < commands[r][k].life =>
                            /\ r = q
                            /\ \E j \in Positions(q) :
                                  i < j /\ j < k /\ commands[q][j].kind = "barrier"
    BY SMTT(30) DEF OrderOf, WorkAt, Positions
<1>1. /\ commands[q][i].life <= block[b].life
      /\ block[b].queue = q
      /\ \E j \in Positions(q) : i < j /\ commands[q][j] = Command("barrier", b)
      /\ \A r \in TorchQueues : \A k \in Positions(r) :
            WorkAt(r, k, b) /\ commands[q][i].life < commands[r][k].life =>
                /\ r = q
                /\ \E j \in Positions(q) : i < j /\ j < k /\ commands[q][j].kind = "barrier"
    BY DEF OrderOf
<1>2. block[b].life \in Nat /\ commands[q][i].life \in Nat
    <2>1. commands[q][i] \in CommandRecords
        BY DEF Types, Positions
    <2>. QED  BY <2>1, RecordFields DEF Types, CommandRecords
<1>3. Command("barrier", b).kind = "barrier"
    BY DEF Command
<1>. QED  BY <1>1, <1>2, <1>3

\* A block keeps its order when a command that is not work on it is given.
LEMMA GivenOrder ==
    ASSUME Types, NEW b \in Blocks, OrderOf(b), block'[b] = block[b],
           NEW q \in TorchQueues, NEW c \in CommandRecords, Given(q, c),
           ~(c.kind = "work" /\ c.block = b)
    PROVE  OrderOf(b)'
<1>1. /\ Len(commands'[q]) = Len(commands[q]) + 1
      /\ \A i \in 1 .. Len(commands[q]) : commands'[q][i] = commands[q][i]
      /\ commands'[q][Len(commands[q]) + 1] = c
      /\ \A r \in TorchQueues : r # q => commands'[r] = commands[r]
    BY CommandGiven
<1>2. Command("barrier", b)' = Command("barrier", b)
    BY DEF Command
<1>3. \A r \in TorchQueues : Len(commands[r]) \in Nat
    BY DEF Types
<1>4. ASSUME NEW r \in TorchQueues, NEW i \in Positions(r)', WorkAt(r, i, b)'
      PROVE  i \in Positions(r) /\ WorkAt(r, i, b) /\ commands'[r][i] = commands[r][i]
    BY <1>1, <1>3, <1>4 DEF Positions, WorkAt
<1>5. \A r \in TorchQueues : \A i \in Positions(r) :
          i \in Positions(r)' /\ commands'[r][i] = commands[r][i]
    BY <1>1, <1>3 DEF Positions
<1>. SUFFICES ASSUME NEW r \in TorchQueues, NEW i \in Positions(r)', WorkAt(r, i, b)'
              PROVE  /\ block[b].state # "none" /\ commands'[r][i].life <= block[b].life
                     /\ block[b].state = "cached" =>
                          /\ block[b].queue = r
                          /\ \E j \in Positions(r)' :
                                i < j /\ commands'[r][j] = Command("barrier", b)
                     /\ commands'[r][i].life < block[b].life =>
                          /\ block[b].queue = r
                          /\ \E j \in Positions(r)' : i < j /\ commands'[r][j].kind = "barrier"
                     /\ \A u \in TorchQueues : \A k \in Positions(u)' :
                          WorkAt(u, k, b)' /\ commands'[r][i].life < commands'[u][k].life =>
                            /\ u = r
                            /\ \E j \in Positions(r)' :
                                  i < j /\ j < k /\ commands'[r][j].kind = "barrier"
    BY <1>2 DEF OrderOf
<1>6. i \in Positions(r) /\ WorkAt(r, i, b) /\ commands'[r][i] = commands[r][i]
    BY <1>4
<1>7. /\ block[b].state # "none" /\ commands[r][i].life <= block[b].life
      /\ block[b].state = "cached" =>
            /\ block[b].queue = r
            /\ \E j \in Positions(r) : i < j /\ commands[r][j] = Command("barrier", b)
      /\ commands[r][i].life < block[b].life =>
            /\ block[b].queue = r
            /\ \E j \in Positions(r) : i < j /\ commands[r][j].kind = "barrier"
      /\ \A u \in TorchQueues : \A k \in Positions(u) :
            WorkAt(u, k, b) /\ commands[r][i].life < commands[u][k].life =>
              /\ u = r
              /\ \E j \in Positions(r) : i < j /\ j < k /\ commands[r][j].kind = "barrier"
    BY <1>6 DEF OrderOf
<1>. HIDE DEF Positions, WorkAt, Command
<1>8. ASSUME NEW u \in TorchQueues, NEW k \in Positions(u)', WorkAt(u, k, b)',
             commands'[r][i].life < commands'[u][k].life
      PROVE  /\ u = r
             /\ \E j \in Positions(r)' : i < j /\ j < k /\ commands'[r][j].kind = "barrier"
    <2>1. k \in Positions(u) /\ WorkAt(u, k, b) /\ commands'[u][k] = commands[u][k]
        BY <1>4, <1>8
    <2>2. u = r /\ \E j \in Positions(r) : i < j /\ j < k /\ commands[r][j].kind = "barrier"
        BY <1>6, <1>7, <1>8, <2>1
    <2>. QED  BY <1>5, <2>2
<1>. QED  BY <1>5, <1>6, <1>7, <1>8

\* A block whose free failed stays live, on the one queue that has work on it.
LEMMA KeptOrder ==
    ASSUME NEW b \in Blocks, OrderOf(b), NEW q, \A r \in TorchQueues : Busy(r, b) => r = q,
           block[b].state = "live", block'[b].state = "live", block'[b].queue = q,
           block'[b].life = block[b].life, block'[b].forgot = block[b].forgot,
           commands' = commands
    PROVE  OrderOf(b)'
<1>. SUFFICES ASSUME NEW r \in TorchQueues, NEW i \in Positions(r), WorkAt(r, i, b)
              PROVE  /\ commands[r][i].life <= block'[b].life
                     /\ commands[r][i].life < block'[b].life =>
                           /\ block'[b].queue = r
                           /\ \E j \in Positions(r) : i < j /\ commands[r][j].kind = "barrier"
                     /\ \A u \in TorchQueues : \A k \in Positions(u) :
                          WorkAt(u, k, b) /\ commands[r][i].life < commands[u][k].life =>
                            /\ u = r
                            /\ \E j \in Positions(r) :
                                  i < j /\ j < k /\ commands[r][j].kind = "barrier"
    BY DEF OrderOf, WorkAt, Positions
<1>1. r = q
    BY DEF Busy, Positions, WorkAt
<1>2. /\ commands[r][i].life <= block[b].life
      /\ commands[r][i].life < block[b].life =>
           /\ block[b].queue = r
           /\ \E j \in Positions(r) : i < j /\ commands[r][j].kind = "barrier"
      /\ \A u \in TorchQueues : \A k \in Positions(u) :
           WorkAt(u, k, b) /\ commands[r][i].life < commands[u][k].life =>
             /\ u = r
             /\ \E j \in Positions(r) : i < j /\ j < k /\ commands[r][j].kind = "barrier"
    BY DEF OrderOf
<1>. QED  BY <1>1, <1>2

\* The barrier of a block that is freed comes after all work on it.
LEMMA FreedOrder ==
    ASSUME Types, NEW b \in Blocks, OrderOf(b), NEW q \in TorchQueues,
           \A r \in TorchQueues : Busy(r, b) => r = q,
           block[b].state = "live", block'[b].state = "cached", block'[b].queue = q,
           block'[b].life = block[b].life, block'[b].forgot = block[b].forgot,
           Given(q, Command("barrier", b))
    PROVE  OrderOf(b)'
<1>. DEFINE c == Command("barrier", b)  n == Len(commands[q]) + 1
<1>1. c \in CommandRecords /\ c.kind = "barrier"
    BY CommandType
<1>. HIDE DEF c
<1>2. /\ Len(commands'[q]) = Len(commands[q]) + 1
      /\ \A i \in 1 .. Len(commands[q]) : commands'[q][i] = commands[q][i]
      /\ commands'[q][n] = c
      /\ \A r \in TorchQueues : r # q => commands'[r] = commands[r]
    BY <1>1, CommandGiven DEF c
<1>3. Command("barrier", b)' = c
    BY DEF Command, c
<1>4. \A r \in TorchQueues : Len(commands[r]) \in Nat
    BY DEF Types
<1>5. ASSUME NEW r \in TorchQueues, NEW i \in Positions(r)', WorkAt(r, i, b)'
      PROVE  /\ i \in Positions(r) /\ WorkAt(r, i, b) /\ commands'[r][i] = commands[r][i]
             /\ r = q /\ i < n
    <2>1. i \in Positions(r) /\ WorkAt(r, i, b) /\ commands'[r][i] = commands[r][i]
        BY SMTT(30), <1>1, <1>2, <1>4, <1>5 DEF Positions, WorkAt
    <2>2. r = q
        BY <2>1 DEF Busy, Positions, WorkAt
    <2>. QED  BY <1>4, <2>1, <2>2 DEF Positions
<1>6. n \in Positions(q)' /\ \A i \in Positions(q) :
          i \in Positions(q)' /\ commands'[q][i] = commands[q][i]
    BY <1>2, <1>4 DEF Positions
<1>. SUFFICES ASSUME NEW r \in TorchQueues, NEW i \in Positions(r)', WorkAt(r, i, b)'
              PROVE  /\ commands'[r][i].life <= block'[b].life
                     /\ block'[b].queue = r
                     /\ \E j \in Positions(r)' : i < j /\ commands'[r][j] = c
                     /\ \E j \in Positions(r)' : i < j /\ commands'[r][j].kind = "barrier"
                     /\ \A u \in TorchQueues : \A k \in Positions(u)' :
                          WorkAt(u, k, b)' /\ commands'[r][i].life < commands'[u][k].life =>
                            /\ u = r
                            /\ \E j \in Positions(r)' :
                                  i < j /\ j < k /\ commands'[r][j].kind = "barrier"
    BY <1>3 DEF OrderOf
<1>7. /\ i \in Positions(r) /\ WorkAt(r, i, b) /\ commands'[r][i] = commands[r][i]
      /\ r = q /\ i < n
    BY <1>5
<1>8. /\ commands[r][i].life <= block[b].life
      /\ \A u \in TorchQueues : \A k \in Positions(u) :
            WorkAt(u, k, b) /\ commands[r][i].life < commands[u][k].life =>
              /\ u = r
              /\ \E j \in Positions(r) : i < j /\ j < k /\ commands[r][j].kind = "barrier"
    BY <1>7 DEF OrderOf
<1>. HIDE DEF Positions, WorkAt, Command, n
<1>9. ASSUME NEW u \in TorchQueues, NEW k \in Positions(u)', WorkAt(u, k, b)',
             commands'[r][i].life < commands'[u][k].life
      PROVE  /\ u = r
             /\ \E j \in Positions(r)' : i < j /\ j < k /\ commands'[r][j].kind = "barrier"
    <2>1. k \in Positions(u) /\ WorkAt(u, k, b) /\ commands'[u][k] = commands[u][k]
        BY <1>5, <1>9
    <2>2. u = r /\ \E j \in Positions(r) : i < j /\ j < k /\ commands[r][j].kind = "barrier"
        BY <1>7, <1>8, <1>9, <2>1
    <2>. QED  BY <1>6, <1>7, <2>2
<1>10. \E j \in Positions(r)' : i < j /\ commands'[r][j] = c
    BY <1>2, <1>6, <1>7
<1>. QED  BY <1>1, <1>7, <1>8, <1>9, <1>10

\* A block that is used: new work comes after what an earlier life left in the
\* queue, and on another queue nothing was left.
LEMMA UsedOrder ==
    ASSUME Types, NEW b \in Blocks, OrderOf(b), NEW q \in TorchQueues,
           q # block[b].queue => ~Busy(block[b].queue, b),
           block[b].state \in {"live", "raw"}, block'[b] = block[b],
           Given(q, Command("work", b))
    PROVE  OrderOf(b)'
<1>. DEFINE c == Command("work", b)  n == Len(commands[q]) + 1
<1>1. c \in CommandRecords /\ c.kind = "work" /\ c.life = block[b].life
    BY CommandType
<1>. HIDE DEF c
<1>2. /\ Len(commands'[q]) = Len(commands[q]) + 1
      /\ \A i \in 1 .. Len(commands[q]) : commands'[q][i] = commands[q][i]
      /\ commands'[q][n] = c
      /\ \A r \in TorchQueues : r # q => commands'[r] = commands[r]
    BY <1>1, CommandGiven DEF c
<1>3. \A r \in TorchQueues : Len(commands[r]) \in Nat
    BY DEF Types
<1>4. block[b].life \in Nat /\ \A r \in TorchQueues : \A i \in Positions(r) :
                                   commands[r][i].life \in Nat
    <2>1. block[b] \in BlockRecords
        BY DEF Types
    <2>2. \A r \in TorchQueues : \A i \in Positions(r) : commands[r][i] \in CommandRecords
        BY DEF Types, Positions
    <2>3. \A d \in CommandRecords : d.life \in Nat
        BY DEF CommandRecords
    <2>. QED  BY <2>1, <2>2, <2>3, RecordFields
<1>5. ASSUME NEW r \in TorchQueues, NEW i \in Positions(r)', WorkAt(r, i, b)'
      PROVE  \/ /\ i \in Positions(r) /\ WorkAt(r, i, b)
                /\ commands'[r][i] = commands[r][i]
                /\ r = q => i < n
             \/ r = q /\ i = n /\ commands'[r][i] = c
    BY <1>2, <1>3, <1>5 DEF Positions, WorkAt
<1>6. \A r \in TorchQueues : \A i \in Positions(r) :
          i \in Positions(r)' /\ commands'[r][i] = commands[r][i] /\ (r = q => i < n)
    BY <1>2, <1>3 DEF Positions
<1>. SUFFICES ASSUME NEW r \in TorchQueues, NEW i \in Positions(r)', WorkAt(r, i, b)'
              PROVE  /\ commands'[r][i].life <= block[b].life
                     /\ commands'[r][i].life < block[b].life =>
                           /\ block[b].queue = r
                           /\ \E j \in Positions(r)' : i < j /\ commands'[r][j].kind = "barrier"
                     /\ \A u \in TorchQueues : \A k \in Positions(u)' :
                          WorkAt(u, k, b)' /\ commands'[r][i].life < commands'[u][k].life =>
                            /\ u = r
                            /\ \E j \in Positions(r)' :
                                  i < j /\ j < k /\ commands'[r][j].kind = "barrier"
    BY DEF OrderOf
<1>7. \A u \in TorchQueues : \A k \in Positions(u) : WorkAt(u, k, b) =>
          commands[u][k].life <= block[b].life
    BY DEF OrderOf
<1>8. \A u \in TorchQueues : \A k \in Positions(u)' : WorkAt(u, k, b)' =>
          commands'[u][k].life <= block[b].life /\ commands'[u][k].life \in Nat
    <2>1. TAKE u \in TorchQueues
    <2>2. TAKE k \in Positions(u)'
    <2>3. HAVE WorkAt(u, k, b)'
    <2>4. CASE k \in Positions(u) /\ WorkAt(u, k, b) /\ commands'[u][k] = commands[u][k]
        BY <1>4, <1>7, <2>4
    <2>5. CASE commands'[u][k] = c
        BY <1>1, <1>4, <2>5
    <2>. QED  BY <1>5, <2>3, <2>4, <2>5
<1>9. CASE r = q /\ i = n /\ commands'[r][i] = c
    <2>1. commands'[r][i].life = block[b].life
        BY <1>1, <1>9
    <2>2. \A u \in TorchQueues : \A k \in Positions(u)' : WorkAt(u, k, b)' =>
              ~(commands'[r][i].life < commands'[u][k].life)
        BY <1>4, <1>8, <2>1
    <2>. QED  BY <1>4, <2>1, <2>2
<1>10. CASE /\ i \in Positions(r) /\ WorkAt(r, i, b) /\ commands'[r][i] = commands[r][i]
            /\ r = q => i < n
    <2>1. /\ commands[r][i].life < block[b].life =>
              /\ block[b].queue = r
              /\ \E j \in Positions(r) : i < j /\ commands[r][j].kind = "barrier"
          /\ \A u \in TorchQueues : \A k \in Positions(u) :
              WorkAt(u, k, b) /\ commands[r][i].life < commands[u][k].life =>
                /\ u = r
                /\ \E j \in Positions(r) : i < j /\ j < k /\ commands[r][j].kind = "barrier"
        BY <1>10 DEF OrderOf
    <2>2. Busy(r, b)
        BY <1>10 DEF Busy, WorkAt, Positions
    <2>. HIDE DEF Positions, WorkAt, n
    <2>3. ASSUME NEW u \in TorchQueues, NEW k \in Positions(u)', WorkAt(u, k, b)',
                 commands'[r][i].life < commands'[u][k].life
          PROVE  /\ u = r
                 /\ \E j \in Positions(r)' : i < j /\ j < k /\ commands'[r][j].kind = "barrier"
        <3>1. CASE u = q /\ k = n /\ commands'[u][k] = c
            <4>1. commands[r][i].life < block[b].life
                BY <1>1, <1>10, <2>3, <3>1
            <4>2. block[b].queue = r /\ \E j \in Positions(r) :
                      i < j /\ commands[r][j].kind = "barrier"
                BY <2>1, <4>1
            <4>3. r = q
                BY <2>2, <4>2
            <4>. QED  BY <1>6, <3>1, <4>2, <4>3
        <3>2. CASE k \in Positions(u) /\ WorkAt(u, k, b) /\ commands'[u][k] = commands[u][k]
            <4>1. /\ u = r
                  /\ \E j \in Positions(r) : i < j /\ j < k /\ commands[r][j].kind = "barrier"
                BY <1>10, <2>1, <2>3, <3>2
            <4>. QED  BY <1>6, <4>1
        <3>. QED  BY <1>5, <2>3, <3>1, <3>2
    <2>. QED  BY <1>6, <1>8, <1>10, <2>1, <2>3
<1>. QED  BY <1>5, <1>9, <1>10

\* A finished command leaves the order of the others: a barrier runs only when
\* it is the first of its queue, so it is not the one another command waits for.
LEMMA FinishedOrder ==
    ASSUME Types, NEW b \in Blocks, OrderOf(b), block'[b] = block[b],
           NEW q \in TorchQueues, NEW p \in 1 .. Len(commands[q]), Runnable(q, p),
           Len(commands'[q]) = Len(commands[q]) - 1,
           \A j \in 1 .. Len(commands[q]) - 1 :
               commands'[q][j] = IF j < p THEN commands[q][j] ELSE commands[q][j + 1],
           \A r \in TorchQueues : r # q => commands'[r] = commands[r]
    PROVE  OrderOf(b)'
<1>. DEFINE Old(r, j) == IF r = q /\ ~(j < p) THEN j + 1 ELSE j
            New(r, j) == IF r = q /\ p < j THEN j - 1 ELSE j
<1>1. \A r \in TorchQueues : Len(commands[r]) \in Nat
    BY DEF Types
<1>2. ASSUME NEW r \in TorchQueues, NEW j \in Positions(r)'
      PROVE  Old(r, j) \in Positions(r) /\ commands'[r][j] = commands[r][Old(r, j)]
    <2>1. CASE r = q
        BY <1>1, <2>1 DEF Positions
    <2>2. CASE r # q
        BY <1>1, <2>2 DEF Positions
    <2>. QED  BY <2>1, <2>2
<1>3. ASSUME NEW r \in TorchQueues, NEW i \in Positions(r)', NEW j \in Positions(r),
             Old(r, i) < j, commands[r][j].kind = "barrier"
      PROVE  /\ New(r, j) \in Positions(r)' /\ i < New(r, j)
             /\ commands'[r][New(r, j)] = commands[r][j]
             /\ \A k \in Positions(r)' : j < Old(r, k) => New(r, j) < k
    <2>1. CASE r = q
        <3>1. j # p
            BY <1>3, <2>1 DEF Runnable, Positions
        <3>2. i \in 1 .. Len(commands[q]) - 1 /\ j \in 1 .. Len(commands[q])
            BY <2>1 DEF Positions
        <3>3. CASE p < j
            <4>1. New(r, j) = j - 1 /\ j - 1 \in 1 .. Len(commands[q]) - 1 /\ ~(j - 1 < p)
                BY <1>1, <2>1, <3>2, <3>3
            <4>2. commands'[q][j - 1] = commands[q][(j - 1) + 1] /\ (j - 1) + 1 = j
                BY <3>2, <4>1
            <4>3. i < j - 1
                BY <1>3, <2>1, <3>2, <3>3
            <4>4. \A k \in Positions(r)' : j < Old(r, k) => j - 1 < k
                BY <2>1, <3>2, <3>3 DEF Positions
            <4>. QED  BY <2>1, <4>1, <4>2, <4>3, <4>4 DEF Positions
        <3>4. CASE j < p
            <4>1. New(r, j) = j /\ j \in 1 .. Len(commands[q]) - 1
                BY <1>1, <2>1, <3>2, <3>4
            <4>2. commands'[q][j] = commands[q][j]
                BY <3>4, <4>1
            <4>3. i < j
                BY <1>3, <2>1, <3>2, <3>4
            <4>4. \A k \in Positions(r)' : j < Old(r, k) => j < k
                BY <2>1, <3>2, <3>4 DEF Positions
            <4>. QED  BY <2>1, <4>1, <4>2, <4>3, <4>4 DEF Positions
        <3>. QED  BY <3>1, <3>2, <3>3, <3>4
    <2>2. CASE r # q
        BY <1>3, <2>2 DEF Positions
    <2>. QED  BY <2>1, <2>2
<1>4. Command("barrier", b)' = Command("barrier", b) /\ Command("barrier", b).kind = "barrier"
    BY DEF Command
<1>5. ASSUME NEW r \in TorchQueues, NEW i \in Positions(r)', NEW k \in Positions(r)',
             Old(r, i) < Old(r, k)
      PROVE  i < k
    BY <1>5 DEF Positions
<1>. HIDE DEF Old, New, Positions, Command
<1>. SUFFICES ASSUME NEW r \in TorchQueues, NEW i \in Positions(r)', WorkAt(r, i, b)'
              PROVE  /\ block[b].state # "none" /\ commands'[r][i].life <= block[b].life
                     /\ block[b].state = "cached" =>
                          /\ block[b].queue = r
                          /\ \E j \in Positions(r)' :
                                i < j /\ commands'[r][j] = Command("barrier", b)
                     /\ commands'[r][i].life < block[b].life =>
                          /\ block[b].queue = r
                          /\ \E j \in Positions(r)' : i < j /\ commands'[r][j].kind = "barrier"
                     /\ \A u \in TorchQueues : \A k \in Positions(u)' :
                          WorkAt(u, k, b)' /\ commands'[r][i].life < commands'[u][k].life =>
                            /\ u = r
                            /\ \E j \in Positions(r)' :
                                  i < j /\ j < k /\ commands'[r][j].kind = "barrier"
    BY <1>4 DEF OrderOf
<1>. DEFINE o == Old(r, i)
<1>6. o \in Positions(r) /\ WorkAt(r, o, b) /\ commands'[r][i] = commands[r][o]
    BY <1>2 DEF WorkAt
<1>7. /\ block[b].state # "none" /\ commands[r][o].life <= block[b].life
      /\ block[b].state = "cached" =>
            /\ block[b].queue = r
            /\ \E j \in Positions(r) : o < j /\ commands[r][j] = Command("barrier", b)
      /\ commands[r][o].life < block[b].life =>
            /\ block[b].queue = r
            /\ \E j \in Positions(r) : o < j /\ commands[r][j].kind = "barrier"
      /\ \A u \in TorchQueues : \A k \in Positions(u) :
            WorkAt(u, k, b) /\ commands[r][o].life < commands[u][k].life =>
              /\ u = r
              /\ \E j \in Positions(r) : o < j /\ j < k /\ commands[r][j].kind = "barrier"
    BY <1>6 DEF OrderOf
<1>. HIDE DEF o
<1>8. \A j \in Positions(r) : o < j /\ commands[r][j].kind = "barrier" =>
          /\ New(r, j) \in Positions(r)' /\ i < New(r, j)
          /\ commands'[r][New(r, j)] = commands[r][j]
          /\ \A k \in Positions(r)' : j < Old(r, k) => New(r, j) < k
    BY <1>3 DEF o
<1>9. ASSUME NEW u \in TorchQueues, NEW k \in Positions(u)', WorkAt(u, k, b)',
             commands'[r][i].life < commands'[u][k].life
      PROVE  /\ u = r
             /\ \E j \in Positions(r)' : i < j /\ j < k /\ commands'[r][j].kind = "barrier"
    <2>1. /\ Old(u, k) \in Positions(u) /\ WorkAt(u, Old(u, k), b)
          /\ commands'[u][k] = commands[u][Old(u, k)]
        BY <1>2, <1>9 DEF WorkAt
    <2>2. /\ u = r
          /\ \E j \in Positions(r) :
                 o < j /\ j < Old(u, k) /\ commands[r][j].kind = "barrier"
        BY <1>6, <1>7, <1>9, <2>1
    <2>3. PICK j \in Positions(r) : o < j /\ j < Old(u, k) /\ commands[r][j].kind = "barrier"
        BY <2>2
    <2>4. /\ New(r, j) \in Positions(r)' /\ i < New(r, j) /\ New(r, j) < k
          /\ commands'[r][New(r, j)].kind = "barrier"
        BY <1>8, <2>2, <2>3
    <2>. QED  BY <2>2, <2>4
<1>10. ASSUME block[b].state = "cached"
       PROVE  /\ block[b].queue = r
              /\ \E j \in Positions(r)' : i < j /\ commands'[r][j] = Command("barrier", b)
    <2>1. PICK j \in Positions(r) : o < j /\ commands[r][j] = Command("barrier", b)
        BY <1>7, <1>10
    <2>2. /\ New(r, j) \in Positions(r)' /\ i < New(r, j)
          /\ commands'[r][New(r, j)] = Command("barrier", b)
        BY <1>4, <1>8, <2>1
    <2>. QED  BY <1>7, <1>10, <2>2
<1>11. ASSUME commands'[r][i].life < block[b].life
       PROVE  /\ block[b].queue = r
              /\ \E j \in Positions(r)' : i < j /\ commands'[r][j].kind = "barrier"
    <2>1. PICK j \in Positions(r) : o < j /\ commands[r][j].kind = "barrier"
        BY <1>6, <1>7, <1>11
    <2>2. /\ New(r, j) \in Positions(r)' /\ i < New(r, j)
          /\ commands'[r][New(r, j)].kind = "barrier"
        BY <1>8, <2>1
    <2>. QED  BY <1>6, <1>7, <1>11, <2>2
<1>. QED  BY <1>6, <1>7, <1>9, <1>10, <1>11

-----------------------------------------------------------------------------
(* Every step keeps the tables and the order.                               *)

\* The work on every place is in order.
Orders == \A b \in Blocks : OrderOf(b)

\* A block of the cache is handed out.
LEMMA HitOrders ==
    ASSUME Types, Tables, Orders, NEW q \in TorchQueues, NEW n \in BlockSizes,
           AllocHit(q, n, FALSE)
    PROVE  Orders'
<1>1. PICK b \in Blocks : \E e :
          /\ Fresh(e, b, "live", q, n) /\ block' = [block EXCEPT ![b] = e]
          /\ block[b].state = "cached" /\ block[b].size = n /\ MayReuse(q, b)
    BY HitTables
<1>2. PICK e : /\ Fresh(e, b, "live", q, n) /\ block' = [block EXCEPT ![b] = e]
               /\ block[b].state = "cached" /\ block[b].size = n /\ MayReuse(q, b)
    BY <1>1
<1>3. block'[b] = e /\ \A x \in Blocks : x # b => block'[x] = block[x]
    BY <1>2 DEF Types
<1>4. commands' = commands
    BY DEF AllocHit
<1>5. OrderOf(b)'
    <2>1. CASE block[b].queue = q
        BY <1>2, <1>3, <1>4, <2>1, ReusedOrder DEF Fresh, Orders
    <2>2. CASE block[b].queue # q
        <3>1. block[b].ready => BarrierDone(b)
            BY <1>2, <2>2 DEF MayReuse
        <3>2. block'[b].forgot = block[b].forgot
            BY <1>2, <1>3 DEF Fresh
        <3>. QED  BY <1>2, <1>4, <3>1, <3>2, QuietUnready, QuietOrder DEF Orders
    <2>. QED  BY <2>1, <2>2
<1>6. ASSUME NEW x \in Blocks, x # b PROVE OrderOf(x)'
    BY <1>3, <1>4, <1>6, SameOrder DEF Orders
<1>. QED  BY <1>5, <1>6 DEF Orders

\* A block of the cache has lost its barrier: no work on it counts any more.
LEMMA ForgetOrders ==
    ASSUME Types, Tables, Orders, NEW q \in TorchQueues, NEW n \in BlockSizes,
           AllocHit(q, n, TRUE)
    PROVE  Orders'
<1>1. PICK b \in Blocks : \E e :
          block' = [block EXCEPT ![b] = e] /\ e.forgot = block[b].life
    BY ForgetTables
<1>2. PICK e : block' = [block EXCEPT ![b] = e] /\ e.forgot = block[b].life
    BY <1>1
<1>3. block'[b].forgot = block[b].life /\ \A x \in Blocks : x # b => block'[x] = block[x]
    BY <1>2 DEF Types
<1>4. commands' = commands
    BY DEF AllocHit
<1>5. OrderOf(b)'
    <2>. SUFFICES ASSUME NEW r \in TorchQueues, NEW i \in Positions(r)', WorkAt(r, i, b)'
                  PROVE  FALSE
        BY DEF OrderOf
    <2>1. i \in Positions(r) /\ block[b].life < commands[r][i].life
        BY <1>3, <1>4 DEF WorkAt, Positions
    <2>2. commands[r][i].life \in Nat /\ block[b].life \in Nat /\ block[b].forgot \in Nat
        <3>1. commands[r][i] \in CommandRecords
            BY <2>1 DEF Types, Positions
        <3>. QED  BY <3>1, RecordFields DEF Types, CommandRecords
    <2>3. block[b].forgot <= block[b].life
        BY DEF Tables, PlaceOK
    <2>4. WorkAt(r, i, b)
        BY <1>4, <2>1, <2>2, <2>3 DEF WorkAt
    <2>5. commands[r][i].life <= block[b].life
        BY <2>1, <2>4 DEF Orders, OrderOf
    <2>. QED  BY <2>1, <2>2, <2>5
<1>6. ASSUME NEW x \in Blocks, x # b PROVE OrderOf(x)'
    BY <1>3, <1>4, <1>6, SameOrder DEF Orders
<1>. QED  BY <1>5, <1>6 DEF Orders

\* Nothing is left to do on what may be given back.
LEMMA QuietReleasable ==
    ASSUME Types, Tables, Orders, NEW S, S \subseteq Releasable, NEW b \in S
    PROVE  Quiet(b)
<1>1. b \in Range(cache) /\ (block[b].ready => BarrierDone(b))
    BY DEF Releasable
<1>2. b \in Blocks /\ block[b].state = "cached"
    BY <1>1 DEF Tables, Places
<1>. QED  BY <1>1, <1>2, QuietUnready DEF Orders

\* The cache is emptied.
LEMMA EmptyOrders ==
    ASSUME Types, Tables, Orders, NEW S, EmptyCache(S)
    PROVE  Orders'
<1>1. S \subseteq Releasable /\ block' = Vacated(S) /\ commands' = commands
    BY DEF EmptyCache
<1>2. ASSUME NEW x \in Blocks PROVE OrderOf(x)'
    <2>1. CASE x \in S
        <3>1. block'[x].forgot = block[x].forgot
            BY <1>1, <2>1, VacatedPlace
        <3>. QED  BY <1>1, <2>1, <3>1, QuietReleasable, QuietOrder
    <2>2. CASE x \notin S
        <3>1. block'[x] = block[x]
            BY <1>1, <2>2, VacatedPlace
        <3>. QED  BY <1>1, <3>1, SameOrder DEF Orders
    <2>. QED  BY <2>1, <2>2
<1>. QED  BY <1>2 DEF Orders

\* A block is made.
LEMMA MissOrders ==
    ASSUME Types, Tables, Orders, NEW q \in TorchQueues, NEW n \in BlockSizes,
           NEW S, AllocMiss(q, n, S)
    PROVE  Orders'
<1>1. S \subseteq Releasable /\ commands' = commands
    BY DEF AllocMiss
<1>2. PICK b \in Places("none") \cup S : \E e :
          Fresh(e, b, "live", q, n) /\ block' = [Vacated(S) EXCEPT ![b] = e]
    BY MissTables
<1>3. PICK e : /\ block' = [Vacated(S) EXCEPT ![b] = e]
               /\ e.forgot = block[b].forgot
    BY <1>2 DEF Fresh
<1>4. /\ DOMAIN Vacated(S) = Blocks /\ S \subseteq Blocks
      /\ \A x \in Blocks : /\ x \notin S => Vacated(S)[x] = block[x]
                           /\ Vacated(S)[x].forgot = block[x].forgot
    BY <1>1, VacatedTables DEF Places
<1>5. b \in Blocks
    BY <1>4 DEF Places
<1>6. \A x \in Blocks : block'[x].forgot = block[x].forgot
    BY <1>3, <1>4, <1>5
<1>7. ASSUME NEW x \in Blocks PROVE OrderOf(x)'
    <2>1. CASE x \in S
        BY <1>1, <1>6, <2>1, QuietReleasable, QuietOrder
    <2>2. CASE x \in Places("none")
        BY <1>1, <1>6, <2>2, QuietPlace, QuietOrder DEF Orders, Places
    <2>3. CASE x \notin S /\ x \notin Places("none")
        <3>1. block'[x] = Vacated(S)[x]
            BY <1>2, <1>3, <1>4, <2>3
        <3>2. block'[x] = block[x]
            BY <1>4, <2>3, <3>1
        <3>. QED  BY <1>1, <3>2, SameOrder DEF Orders
    <2>. QED  BY <2>1, <2>2, <2>3
<1>. QED  BY <1>7 DEF Orders

\* A raw allocation begins.
LEMMA RawAllocOrders ==
    ASSUME Types, Tables, Orders, NEW q \in TorchQueues, NEW n \in BlockSizes, RawAlloc(q, n)
    PROVE  Orders'
<1>1. commands' = commands
    BY DEF RawAlloc
<1>2. PICK b \in Places("none") : \E e :
          block' = [block EXCEPT ![b] = e] /\ e.forgot = block[b].forgot
    BY RawAllocTables DEF Fresh
<1>3. ASSUME NEW x \in Blocks PROVE OrderOf(x)'
    <2>1. CASE x = b
        <3>1. block'[x].forgot = block[x].forgot
            BY <1>2, <2>1 DEF Types
        <3>. QED  BY <1>1, <2>1, <3>1, QuietPlace, QuietOrder DEF Orders, Places
    <2>2. CASE x # b
        <3>1. block'[x] = block[x]
            BY <1>2, <2>2 DEF Types
        <3>. QED  BY <1>1, <3>1, SameOrder DEF Orders
    <2>. QED  BY <2>1, <2>2
<1>. QED  BY <1>3 DEF Orders

\* A raw allocation ends.
LEMMA RawFreeOrders ==
    ASSUME Types, Tables, Orders, NEW b \in Blocks, NEW throws \in BOOLEAN,
           RawFree(b, throws)
    PROVE  Orders'
<1>1. /\ Quiet(b) /\ commands' = commands
      /\ throws => block' = block
      /\ ~throws => block' = Vacated({b})
    BY RawFreeTables DEF Quiet, WorkAt, Busy, Positions
<1>2. ASSUME NEW x \in Blocks PROVE OrderOf(x)'
    <2>1. CASE x = b
        <3>1. block'[b].forgot = block[b].forgot
            BY <1>1, VacatedPlace
        <3>. QED  BY <1>1, <2>1, <3>1, QuietOrder
    <2>2. CASE x # b
        <3>1. x \notin {b}
            BY <2>2
        <3>2. ~throws => block'[x] = block[x]
            BY <1>1, <3>1, VacatedPlace
        <3>. QED  BY <1>1, <3>2, SameOrder DEF Orders
    <2>. QED  BY <2>1, <2>2
<1>. QED  BY <1>2 DEF Orders

\* A block goes to the cache, behind its barrier.
LEMMA FreeOrders ==
    ASSUME Types, Tables, Orders, NEW b \in Blocks,
           NEW named \in TorchQueues \cup {NoTorchQueue}, NEW throws \in BOOLEAN,
           FreeBlock(b, named, throws)
    PROVE  Orders'
<1>. DEFINE q == FreedOn(b, named)
<1>1. /\ q \in TorchQueues /\ block[b].state = "live"
      /\ \A r \in TorchQueues : Busy(r, b) => r = q
      /\ \A x \in Blocks : x # b => block'[x] = block[x]
      /\ block'[b].queue = q /\ block'[b].life = block[b].life
      /\ block'[b].forgot = block[b].forgot
      /\ throws => block'[b].state = "live" /\ commands' = commands
      /\ ~throws => block'[b].state = "cached" /\ Given(q, Command("barrier", b))
    BY FreeTables
<1>. HIDE DEF q
<1>2. CASE throws
    <2>1. OrderOf(b)'
        BY <1>1, <1>2, KeptOrder DEF Orders
    <2>2. ASSUME NEW x \in Blocks, x # b PROVE OrderOf(x)'
        BY <1>1, <1>2, <2>2, SameOrder DEF Orders
    <2>. QED  BY <2>1, <2>2 DEF Orders
<1>3. CASE ~throws
    <2>1. OrderOf(b)'
        BY <1>1, <1>3, FreedOrder DEF Orders
    <2>. DEFINE c == Command("barrier", b)
    <2>2. c \in CommandRecords /\ c.kind = "barrier" /\ Given(q, c)
        BY <1>1, <1>3, CommandType
    <2>. HIDE DEF c
    <2>3. ASSUME NEW x \in Blocks, x # b PROVE OrderOf(x)'
        BY <1>1, <2>2, <2>3, GivenOrder DEF Orders
    <2>. QED  BY <2>1, <2>3 DEF Orders
<1>. QED  BY <1>2, <1>3

\* A queue is given work on a block.
LEMMA UseOrders ==
    ASSUME Types, Tables, Orders, NEW q \in TorchQueues, NEW b \in Blocks, UseBlock(q, b)
    PROVE  Orders'
<1>1. /\ b \in inUse /\ (q # block[b].queue => ~Busy(block[b].queue, b)) /\ block' = block
    BY DEF UseBlock
<1>2. block[b].state \in {"live", "raw"}
    BY <1>1 DEF Tables, Places
<1>. DEFINE c == Command("work", b)
<1>3. c \in CommandRecords /\ c.block = b /\ Given(q, c)
    BY UseTables, CommandType
<1>4. OrderOf(b)'
    BY <1>1, <1>2, <1>3, UsedOrder DEF Orders
<1>. HIDE DEF c
<1>5. ASSUME NEW x \in Blocks, x # b PROVE OrderOf(x)'
    BY <1>1, <1>3, <1>5, GivenOrder DEF Orders
<1>. QED  BY <1>4, <1>5 DEF Orders

\* A queue finishes a command.
LEMMA FinishOrders ==
    ASSUME Types, Tables, Orders, NEW q \in TorchQueues, NEW i \in 1 .. Len(commands[q]),
           FinishCommand(q, i)
    PROVE  Orders'
<1>1. /\ Runnable(q, i) /\ block' = block
      /\ Len(commands'[q]) = Len(commands[q]) - 1
      /\ \A j \in 1 .. Len(commands[q]) - 1 :
             commands'[q][j] = IF j < i THEN commands[q][j] ELSE commands[q][j + 1]
      /\ \A r \in TorchQueues : r # q => commands'[r] = commands[r]
    BY FinishTables
<1>2. ASSUME NEW x \in Blocks PROVE OrderOf(x)'
    BY <1>1, FinishedOrder DEF Orders
<1>. QED  BY <1>2 DEF Orders

\* The inductive invariant.
TorchInvariant == Types /\ Tables /\ Orders

\* It holds at first, ...
LEMMA TorchStart == TorchInit => TorchInvariant
<1>. SUFFICES ASSUME TorchInit PROVE TorchInvariant
    OBVIOUS
<1>1. /\ \A b \in Blocks : block[b] = NoBlock
      /\ block = [b \in Blocks |-> block[b]] /\ cache = <<>> /\ inUse = {}
      /\ commands = [q \in TorchQueues |-> <<>>]
    BY DEF TorchInit
<1>2. /\ NoBlock = [state |-> "none", size |-> 0, queue |-> NoTorchQueue, ready |-> FALSE,
                    life |-> 0, forgot |-> 0]
      /\ NoBlock.state = "none" /\ NoBlock.size = 0 /\ NoBlock.life = 0 /\ NoBlock.forgot = 0
    BY DEF NoBlock
<1>3. NoBlock \in BlockRecords
    <2>1. 0 \in 0 .. MaxLives
        BY TorchAssumption
    <2>2. [state |-> "none", size |-> 0, queue |-> NoTorchQueue, ready |-> FALSE,
           life |-> 0, forgot |-> 0] \in BlockRecords
        BY <2>1, EmptyRecord
    <2>. QED  BY <1>2, <2>2
<1>4. \A b \in Blocks : PlaceOK(block[b])
    <2>1. PlaceOK(NoBlock)
        BY <1>2, <1>3 DEF PlaceOK
    <2>. QED  BY <1>1, <2>1
<1>5. block \in [Blocks -> BlockRecords]
    BY <1>1, <1>3
<1>6. <<>> \in Seq(Blocks) /\ <<>> \in Seq(CommandRecords) /\ Len(<<>>) = 0
    OBVIOUS
<1>7. Types
    BY <1>1, <1>5, <1>6 DEF Types
<1>8. Places("cached") = {}
    BY <1>1, <1>2 DEF Places
<1>9. Range(cache) = {} /\ IsInjective(cache)
    BY <1>1 DEF Range, IsInjective
<1>10. Tables
    BY <1>1, <1>4, <1>8, <1>9 DEF Tables
<1>11. \A q \in TorchQueues : Positions(q) = {}
    BY <1>1, <1>6 DEF Positions
<1>12. Orders
    BY <1>11 DEF Orders, OrderOf
<1>. QED  BY <1>7, <1>10, <1>12 DEF TorchInvariant

\* ... and every step keeps it.
LEMMA TorchStep == TorchInvariant /\ [TorchNext]_torchVars => TorchInvariant'
<1>. SUFFICES ASSUME TorchInvariant, [TorchNext]_torchVars PROVE TorchInvariant'
    OBVIOUS
<1>. USE DEF TorchInvariant
<1>1. ASSUME NEW q \in TorchQueues, NEW n \in BlockSizes, NEW throws \in BOOLEAN,
             AllocHit(q, n, throws)
      PROVE  TorchInvariant'
    <2>1. CASE throws = TRUE
        BY <1>1, <2>1, ForgetTables, ForgetOrders
    <2>2. CASE throws = FALSE
        BY <1>1, <2>2, HitTables, HitOrders
    <2>. QED  BY <2>1, <2>2
<1>2. ASSUME NEW q \in TorchQueues, NEW n \in BlockSizes, RawAlloc(q, n)
      PROVE  TorchInvariant'
    BY <1>2, RawAllocTables, RawAllocOrders
<1>3. ASSUME NEW q \in TorchQueues, NEW n \in BlockSizes, NEW S \in SUBSET Blocks,
             AllocMiss(q, n, S)
      PROVE  TorchInvariant'
    BY <1>3, MissTables, MissOrders
<1>4. ASSUME NEW S \in SUBSET Blocks, EmptyCache(S)
      PROVE  TorchInvariant'
    BY <1>4, EmptyTables, EmptyOrders
<1>5. ASSUME NEW b \in Blocks, NEW throws \in BOOLEAN, RawFree(b, throws)
      PROVE  TorchInvariant'
    BY <1>5, RawFreeTables, RawFreeOrders
<1>6. ASSUME NEW b \in Blocks, NEW throws \in BOOLEAN,
             NEW q \in TorchQueues \cup {NoTorchQueue}, FreeBlock(b, q, throws)
      PROVE  TorchInvariant'
    BY <1>6, FreeTables, FreeOrders
<1>7. ASSUME NEW q \in TorchQueues, NEW b \in Blocks, UseBlock(q, b)
      PROVE  TorchInvariant'
    BY <1>7, UseTables, UseOrders
<1>8. ASSUME NEW q \in TorchQueues, NEW i \in 1 .. Len(commands[q]), FinishCommand(q, i)
      PROVE  TorchInvariant'
    BY <1>8, FinishTables, FinishOrders
<1>9. CASE UNCHANGED torchVars
    <2>1. block' = block /\ commands' = commands /\ cache' = cache /\ inUse' = inUse
        BY <1>9 DEF torchVars
    <2>2. \A b \in Blocks : OrderOf(b)'
        BY <2>1, SameOrder DEF Orders
    <2>. QED  BY <2>1, <2>2 DEF Types, Tables, Places, Orders
<1>. QED  BY <1>1, <1>2, <1>3, <1>4, <1>5, <1>6, <1>7, <1>8, <1>9 DEF TorchNext

\* Later work on a place is behind a barrier of its queue.
LEMMA LaterWork ==
    ASSUME NEW b, OrderOf(b), NEW q \in TorchQueues, NEW i \in Positions(q), WorkAt(q, i, b)
    PROVE  /\ block[b].state # "none"
           /\ \A r \in TorchQueues : \A k \in Positions(r) :
                 WorkAt(r, k, b) /\ commands[q][i].life < commands[r][k].life =>
                     \E j \in Positions(r) : j < k /\ commands[r][j].kind = "barrier"
BY SMTT(30) DEF OrderOf

\* Places in order are exclusive: the later work on a block is work whose barrier
\* was not lost either.
LEMMA ExclusiveByOrder == TorchInvariant => BarriersExclude
<1>. SUFFICES ASSUME TorchInvariant, NEW c \in Pending, c.command.kind = "work",
                     c.command.life > block[c.command.block].forgot
              PROVE  Protected(c)
    BY DEF BarriersExclude
<1>1. \A d \in Pending : /\ d.queue \in TorchQueues /\ d.at \in Positions(d.queue)
                         /\ d.command = commands[d.queue][d.at]
    BY DEF Pending, Positions
<1>2. \A d \in Pending : d.command \in CommandRecords
    BY <1>1 DEF TorchInvariant, Types, Positions
<1>. DEFINE b == c.command.block
<1>3. b \in Blocks /\ block[b].forgot \in Nat /\ \A d \in Pending : d.command.life \in Nat
    BY <1>2, RecordFields DEF TorchInvariant, Types, CommandRecords
<1>4. /\ c.queue \in TorchQueues /\ c.at \in Positions(c.queue)
      /\ c.command = commands[c.queue][c.at]
      /\ WorkAt(c.queue, c.at, b)
    BY <1>1, <1>3 DEF WorkAt
<1>5. /\ block[b].state # "none"
      /\ \A r \in TorchQueues : \A k \in Positions(r) :
            WorkAt(r, k, b) /\ c.command.life < commands[r][k].life =>
                \E j \in Positions(r) : j < k /\ commands[r][j].kind = "barrier"
    <2>1. OrderOf(b)
        BY <1>3 DEF TorchInvariant, Orders
    <2>. QED  BY <1>4, <2>1, LaterWork
<1>6. ASSUME NEW d \in Pending, d.command.kind = "work", d.command.block = b,
             c.command.life < d.command.life
      PROVE  ~Runnable(d.queue, d.at)
    <2>1. /\ d.queue \in TorchQueues /\ d.at \in Positions(d.queue)
          /\ d.command = commands[d.queue][d.at]
        BY <1>1
    <2>2. WorkAt(d.queue, d.at, b)
        BY <1>3, <1>6, <2>1 DEF WorkAt
    <2>3. PICK j \in Positions(d.queue) :
              j < d.at /\ commands[d.queue][j].kind = "barrier"
        BY <1>5, <1>6, <2>1, <2>2
    <2>4. j \in 1 .. d.at - 1
        BY <2>1, <2>3 DEF Positions
    <2>5. commands[d.queue][d.at].kind # "barrier"
        BY <2>2 DEF WorkAt
    <2>. QED  BY <2>3, <2>4, <2>5 DEF Runnable
<1>. QED  BY <1>5, <1>6 DEF Protected

\* Work on a block whose barrier no failed hit has lost never runs beside or after
\* work of a later owner, and its memory is not given back.
THEOREM TorchExclusive == TorchSpec => []BarriersExclude
<1>1. TorchSpec => []TorchInvariant
    BY TorchStart, TorchStep, PTL DEF TorchSpec
<1>. QED  BY <1>1, ExclusiveByOrder, PTL

-----------------------------------------------------------------------------
(* The counters are the sums of what the places hold.                       *)

\* The sizes of all places, and of those that are in use, of a table k.
SizesOf(k) == [b \in Blocks |-> k[b].size]
\* What a place counts for in active_bytes.
UsedSize(r) == IF r.state \in {"live", "raw"} THEN r.size ELSE 0
UsedOf(k) == [b \in Blocks |-> UsedSize(k[b])]

\* The bytes of all places, and of those in use.
Total(k) == SumFunction(SizesOf(k))
TotalUsed(k) == SumFunction(UsedOf(k))

\* reserved_bytes and active_bytes are these sums.
Counters == reservedBytes = Total(block) /\ activeBytes = TotalUsed(block)

\* Sizes are natural numbers.
LEMMA UsedSizeType ==
    ASSUME NEW r \in BlockRecords
    PROVE  r.size \in Nat /\ UsedSize(r) \in Nat
<1>1. r.size \in Nat
    BY RecordFields
<1>. QED  BY <1>1 DEF UsedSize

\* What is summed.
LEMMA SizesType ==
    ASSUME NEW k \in [Blocks -> BlockRecords]
    PROVE  /\ IsFiniteSet(DOMAIN SizesOf(k)) /\ DOMAIN SizesOf(k) = Blocks
           /\ \A b \in Blocks : SizesOf(k)[b] = k[b].size /\ SizesOf(k)[b] \in Nat
           /\ IsFiniteSet(DOMAIN UsedOf(k)) /\ DOMAIN UsedOf(k) = Blocks
           /\ \A b \in Blocks : UsedOf(k)[b] = UsedSize(k[b]) /\ UsedOf(k)[b] \in Nat
<1>1. \A b \in Blocks : k[b].size \in Nat /\ UsedSize(k[b]) \in Nat
    BY UsedSizeType
<1>. QED  BY <1>1, TorchAssumption DEF SizesOf, UsedOf

\* What a place adds to a counter is not above it.
LEMMA TotalsBound ==
    ASSUME NEW k \in [Blocks -> BlockRecords]
    PROVE  /\ Total(k) \in Nat /\ TotalUsed(k) \in Nat
           /\ \A b \in Blocks : k[b].size <= Total(k) /\ UsedSize(k[b]) <= TotalUsed(k)
<1>. DEFINE f == SizesOf(k)  g == UsedOf(k)
<1>1. /\ IsFiniteSet(DOMAIN f) /\ DOMAIN f = Blocks
      /\ \A b \in Blocks : f[b] = k[b].size /\ f[b] \in Nat
      /\ IsFiniteSet(DOMAIN g) /\ DOMAIN g = Blocks
      /\ \A b \in Blocks : g[b] = UsedSize(k[b]) /\ g[b] \in Nat
    BY SizesType
<1>. HIDE DEF f, g
<1>2. SumFunction(f) \in Nat /\ \A b \in Blocks : f[b] <= SumFunction(f)
    BY <1>1, SumOfNaturals
<1>3. SumFunction(g) \in Nat /\ \A b \in Blocks : g[b] <= SumFunction(g)
    BY <1>1, SumOfNaturals
<1>. QED  BY <1>1, <1>2, <1>3 DEF Total, TotalUsed, f, g

\* One place changes.
LEMMA OneChanges ==
    ASSUME NEW k \in [Blocks -> BlockRecords], NEW l \in [Blocks -> BlockRecords],
           NEW b \in Blocks, \A x \in Blocks : x # b => l[x] = k[x]
    PROVE  /\ Total(l) = Total(k) - k[b].size + l[b].size
           /\ TotalUsed(l) = TotalUsed(k) - UsedSize(k[b]) + UsedSize(l[b])
<1>. DEFINE f == SizesOf(k)  g == UsedOf(k)  fl == SizesOf(l)  gl == UsedOf(l)
<1>1. /\ IsFiniteSet(DOMAIN f) /\ DOMAIN f = Blocks
      /\ \A x \in Blocks : f[x] = k[x].size /\ f[x] \in Nat
      /\ IsFiniteSet(DOMAIN g) /\ DOMAIN g = Blocks
      /\ \A x \in Blocks : g[x] = UsedSize(k[x]) /\ g[x] \in Nat
    BY SizesType
<1>2. /\ DOMAIN fl = Blocks
      /\ \A x \in Blocks : fl[x] = l[x].size /\ fl[x] \in Nat
      /\ DOMAIN gl = Blocks
      /\ \A x \in Blocks : gl[x] = UsedSize(l[x]) /\ gl[x] \in Nat
    BY SizesType
<1>. HIDE DEF f, g, fl, gl
<1>3. \A x \in Blocks \ {b} : fl[x] = f[x] /\ gl[x] = g[x]
    BY <1>1, <1>2
<1>4. /\ \A x \in Blocks : f[x] \in Int /\ g[x] \in Int
      /\ fl[b] \in Int /\ gl[b] \in Int
    BY <1>1, <1>2
<1>5. SumFunction(fl) = SumFunction(f) - f[b] + fl[b]
    BY <1>1, <1>2, <1>3, <1>4, SumChanges
<1>6. SumFunction(gl) = SumFunction(g) - g[b] + gl[b]
    BY <1>1, <1>2, <1>3, <1>4, SumChanges
<1>. QED  BY <1>1, <1>2, <1>5, <1>6 DEF Total, TotalUsed, f, g, fl, gl

\* Places that were given back are places.
LEMMA VacatedType ==
    ASSUME Types, Tables, NEW S, S \subseteq Releasable
    PROVE  Vacated(S) \in [Blocks -> BlockRecords]
<1>1. \A b \in Blocks : Vacated(S)[b] \in BlockRecords
    BY VacatedTables DEF PlaceOK
<1>2. Vacated(S) = [b \in Blocks |-> Vacated(S)[b]]
    BY DEF Vacated
<1>. QED  BY <1>1, <1>2

\* What is given back leaves the sum, and was not counted as in use.
LEMMA TotalVacated ==
    ASSUME Types, Tables, NEW S, S \subseteq Releasable
    PROVE  /\ Total(Vacated(S)) = Total(block) - Bytes(S)
           /\ Bytes(S) \in Nat /\ Bytes(S) <= Total(block)
           /\ TotalUsed(Vacated(S)) = TotalUsed(block)
<1>. DEFINE v == Vacated(S)  f == SizesOf(block)  h == SizesOf(v)
<1>1. block \in [Blocks -> BlockRecords] /\ v \in [Blocks -> BlockRecords]
    BY VacatedType DEF Types
<1>2. S \in SUBSET Blocks
    BY VacatedTables DEF Places
<1>3. \A b \in Blocks : /\ b \notin S => v[b] = block[b]
                        /\ b \in S => /\ v[b].state = "none" /\ v[b].size = 0
                                      /\ block[b].state = "cached"
    BY VacatedTables DEF Places
<1>. HIDE DEF v
<1>4. /\ IsFiniteSet(DOMAIN f) /\ DOMAIN f = Blocks
      /\ \A x \in Blocks : f[x] = block[x].size /\ f[x] \in Nat
    BY <1>1, SizesType
<1>5. /\ IsFiniteSet(DOMAIN h) /\ DOMAIN h = Blocks
      /\ \A x \in Blocks : h[x] = v[x].size /\ h[x] \in Nat
    BY <1>1, SizesType
<1>. HIDE DEF f, h
<1>. DEFINE R == Blocks \ S
<1>6. R \in SUBSET Blocks /\ R \in SUBSET DOMAIN h /\ IsFiniteSet(R) /\ IsFiniteSet(S)
    BY <1>2, <1>5, TorchAssumption, FS_Subset
<1>7. SumFunction(f) = SumFunction(Restrict(f, S)) + SumFunction(Restrict(f, R))
    <2>1. \A x \in Blocks : f[x] \in Int
        BY <1>4
    <2>2. SumFunction(f) = SumFunction(Restrict(f, Blocks))
        BY <1>4, PartOfAll
    <2>3. SumFunction(Restrict(f, Blocks)) = SumFunction(Restrict(f, S)) + SumFunction(Restrict(f, R))
        BY <1>2, <2>1, SumOfParts, TorchAssumption
    <2>. QED  BY <2>2, <2>3
<1>8. SumFunction(h) = SumFunction(Restrict(h, R))
    <2>1. \A x \in DOMAIN h : h[x] \in Int
        BY <1>5
    <2>2. \A x \in DOMAIN h \ R : h[x] = 0
        BY <1>3, <1>5
    <2>. HIDE DEF R
    <2>. QED  BY <1>5, <1>6, <2>1, <2>2, SumOfRest
<1>9. SumFunction(Restrict(h, R)) = SumFunction(Restrict(f, R))
    <2>1. \A x \in R : h[x] = f[x]
        BY <1>3, <1>4, <1>5
    <2>. HIDE DEF R
    <2>2. /\ DOMAIN Restrict(h, R) = R /\ DOMAIN Restrict(f, R) = R
          /\ \A x \in R : Restrict(h, R)[x] = Restrict(f, R)[x]
        BY <2>1, PartIsFunction
    <2>. DEFINE hr == Restrict(h, R)  fr == Restrict(f, R)
    <2>. HIDE DEF hr, fr
    <2>3. IsFiniteSet(DOMAIN hr) /\ DOMAIN fr = DOMAIN hr /\ \A x \in DOMAIN hr : hr[x] = fr[x]
        BY <1>6, <2>2 DEF hr, fr
    <2>4. SumFunction(hr) = SumFunction(fr)
        BY <2>3, SumSame
    <2>. QED  BY <2>4 DEF hr, fr
<1>10. Bytes(S) = SumFunction(Restrict(f, S))
    <2>1. Restrict(f, S) = [b \in S |-> block[b].size]
        BY <1>2, <1>4 DEF Restrict
    <2>. QED  BY <2>1 DEF Bytes
<1>11. SumFunction(Restrict(f, S)) \in Nat /\ SumFunction(Restrict(f, R)) \in Nat
    <2>1. /\ IsFiniteSet(DOMAIN Restrict(f, S)) /\ \A x \in S : Restrict(f, S)[x] \in Nat
          /\ DOMAIN Restrict(f, S) = S
        BY <1>2, <1>4, <1>6, PartIsFunction
    <2>2. /\ IsFiniteSet(DOMAIN Restrict(f, R)) /\ \A x \in R : Restrict(f, R)[x] \in Nat
          /\ DOMAIN Restrict(f, R) = R
        BY <1>4, <1>6, PartIsFunction
    <2>. HIDE DEF R
    <2>. QED  BY <2>1, <2>2, SumOfNaturals
<1>12. TotalUsed(v) = TotalUsed(block)
    <2>1. \A b \in Blocks : UsedSize(v[b]) = UsedSize(block[b])
        BY <1>3 DEF UsedSize
    <2>2. UsedOf(v) = UsedOf(block)
        BY <2>1 DEF UsedOf
    <2>. QED  BY <2>2 DEF TotalUsed
<1>. DEFINE a == SumFunction(Restrict(f, S))  c == SumFunction(Restrict(f, R))
<1>13. Total(block) = a + c /\ Total(v) = c /\ Bytes(S) = a
    BY <1>7, <1>8, <1>9, <1>10 DEF Total, f, h
<1>. HIDE DEF a, c
<1>14. a \in Nat /\ c \in Nat
    BY <1>11 DEF a, c
<1>15. Total(v) = Total(block) - Bytes(S) /\ Bytes(S) \in Nat /\ Bytes(S) <= Total(block)
    BY <1>13, <1>14
<1>. QED  BY <1>12, <1>15 DEF v

\* decrease_torch_bytes, when the counter holds what is taken.
LEMMA LessIs ==
    ASSUME NEW t \in Nat, NEW n \in Nat, n <= t
    PROVE  Less(t, n) = t - n
BY DEF Less

\* A block of the cache is in use again.
LEMMA HitCounters ==
    ASSUME Types, Tables, Counters, NEW q \in TorchQueues, NEW n \in BlockSizes,
           AllocHit(q, n, FALSE)
    PROVE  Counters'
<1>1. /\ activeBytes' = activeBytes + n /\ reservedBytes' = reservedBytes
      /\ block' \in [Blocks -> BlockRecords] /\ block \in [Blocks -> BlockRecords]
    BY HitTables DEF AllocHit, Types
<1>2. PICK b \in Blocks : \E e :
          /\ Fresh(e, b, "live", q, n) /\ block' = [block EXCEPT ![b] = e]
          /\ block[b].state = "cached" /\ block[b].size = n /\ MayReuse(q, b)
    BY HitTables
<1>3. PICK e : Fresh(e, b, "live", q, n) /\ block' = [block EXCEPT ![b] = e]
    BY <1>2
<1>4. block'[b] = e /\ \A x \in Blocks : x # b => block'[x] = block[x]
    BY <1>1, <1>3
<1>5. block'[b].size = n /\ UsedSize(block'[b]) = n /\ UsedSize(block[b]) = 0
    BY <1>2, <1>3, <1>4 DEF Fresh, UsedSize
<1>6. /\ Total(block') = Total(block) - n + n
      /\ TotalUsed(block') = TotalUsed(block) - 0 + n
    <2>1. block[b].size = n
        BY <1>2
    <2>2. /\ Total(block') = Total(block) - block[b].size + block'[b].size
          /\ TotalUsed(block') = TotalUsed(block) - UsedSize(block[b]) + UsedSize(block'[b])
        BY <1>1, <1>4, OneChanges
    <2>. QED  BY <1>5, <2>1, <2>2
<1>7. Total(block) \in Nat /\ TotalUsed(block) \in Nat /\ n \in Nat
    BY <1>1, TotalsBound, TorchAssumption
<1>. QED  BY <1>1, <1>6, <1>7 DEF Counters

\* A block of the cache stays there.
LEMMA ForgetCounters ==
    ASSUME Types, Tables, Counters, NEW q \in TorchQueues, NEW n \in BlockSizes,
           AllocHit(q, n, TRUE)
    PROVE  Counters'
<1>1. /\ activeBytes' = activeBytes /\ reservedBytes' = reservedBytes
      /\ block' \in [Blocks -> BlockRecords] /\ block \in [Blocks -> BlockRecords]
    BY ForgetTables DEF AllocHit, Types
<1>2. PICK b \in Blocks : \E e :
          /\ block' = [block EXCEPT ![b] = e] /\ block[b].state = "cached"
          /\ e.state = "cached" /\ e.size = block[b].size
    BY ForgetTables
<1>3. /\ block'[b].size = block[b].size
      /\ UsedSize(block'[b]) = 0 /\ UsedSize(block[b]) = 0
      /\ \A x \in Blocks : x # b => block'[x] = block[x]
    BY <1>1, <1>2 DEF UsedSize
<1>4. /\ Total(block') = Total(block) - block[b].size + block[b].size
      /\ TotalUsed(block') = TotalUsed(block) - 0 + 0
    BY <1>1, <1>3, OneChanges
<1>5. Total(block) \in Nat /\ TotalUsed(block) \in Nat /\ block[b].size \in Nat
    BY <1>1, TotalsBound, UsedSizeType
<1>. QED  BY <1>1, <1>4, <1>5 DEF Counters

\* Bytes of the cache are given back.
LEMMA EmptyCounters ==
    ASSUME Types, Tables, Counters, NEW S, EmptyCache(S)
    PROVE  Counters'
<1>1. /\ S \subseteq Releasable /\ block' = Vacated(S)
      /\ reservedBytes' = Less(reservedBytes, Bytes(S)) /\ activeBytes' = activeBytes
    BY DEF EmptyCache
<1>2. /\ Total(block') = Total(block) - Bytes(S)
      /\ Bytes(S) \in Nat /\ Bytes(S) <= Total(block)
      /\ TotalUsed(block') = TotalUsed(block)
    BY <1>1, TotalVacated
<1>3. Total(block) \in Nat
    BY TotalsBound DEF Types
<1>4. Less(Total(block), Bytes(S)) = Total(block) - Bytes(S)
    BY <1>2, <1>3, LessIs
<1>. QED  BY <1>1, <1>2, <1>4 DEF Counters

\* Bytes of the cache are given back, and a block is made.
LEMMA MissCounters ==
    ASSUME Types, Tables, Counters, NEW q \in TorchQueues, NEW n \in BlockSizes,
           NEW S, AllocMiss(q, n, S)
    PROVE  Counters'
<1>. DEFINE v == Vacated(S)
<1>1. /\ activeBytes' = activeBytes + n
      /\ reservedBytes' = Less(reservedBytes, Bytes(S)) + n
      /\ S \subseteq Releasable
    BY DEF AllocMiss
<1>2. /\ block' \in [Blocks -> BlockRecords] /\ block \in [Blocks -> BlockRecords]
      /\ v \in [Blocks -> BlockRecords]
    BY <1>1, MissTables, VacatedType DEF Types
<1>3. PICK b \in Places("none") \cup S : \E e :
          Fresh(e, b, "live", q, n) /\ block' = [v EXCEPT ![b] = e]
    BY MissTables
<1>4. PICK e : Fresh(e, b, "live", q, n) /\ block' = [v EXCEPT ![b] = e]
    BY <1>3
<1>5. /\ b \in Blocks /\ v[b].state = "none" /\ v[b].size = 0
    <2>1. \A x \in Blocks : /\ PlaceOK(Vacated(S)[x]) /\ S \subseteq Blocks
                            /\ x \notin S => Vacated(S)[x] = block[x]
                            /\ x \in S => Vacated(S)[x].state = "none"
        BY <1>1, VacatedTables DEF Places
    <2>2. b \in Blocks /\ v[b].state = "none"
        BY <1>1, <1>3, <2>1, VacatedTables DEF Places
    <2>. QED  BY <2>1, <2>2 DEF PlaceOK
<1>. HIDE DEF v
<1>6. block'[b] = e /\ \A x \in Blocks : x # b => block'[x] = v[x]
    BY <1>2, <1>4, <1>5
<1>7. block'[b].size = n /\ UsedSize(block'[b]) = n /\ UsedSize(v[b]) = 0
    BY <1>4, <1>5, <1>6 DEF Fresh, UsedSize
<1>8. /\ Total(block') = Total(v) - 0 + n
      /\ TotalUsed(block') = TotalUsed(v) - 0 + n
    BY <1>2, <1>5, <1>6, <1>7, OneChanges
<1>9. /\ Total(v) = Total(block) - Bytes(S)
      /\ Bytes(S) \in Nat /\ Bytes(S) <= Total(block)
      /\ TotalUsed(v) = TotalUsed(block)
    BY <1>1, TotalVacated DEF v
<1>10. Total(block) \in Nat /\ TotalUsed(block) \in Nat /\ n \in Nat
    BY <1>2, TotalsBound, TorchAssumption
<1>11. Less(Total(block), Bytes(S)) = Total(block) - Bytes(S)
    BY <1>9, <1>10, LessIs
<1>. QED  BY <1>1, <1>8, <1>9, <1>10, <1>11 DEF Counters

\* A raw allocation is in use.
LEMMA RawAllocCounters ==
    ASSUME Types, Tables, Counters, NEW q \in TorchQueues, NEW n \in BlockSizes, RawAlloc(q, n)
    PROVE  Counters'
<1>1. /\ activeBytes' = activeBytes + n /\ reservedBytes' = reservedBytes + n
      /\ block' \in [Blocks -> BlockRecords] /\ block \in [Blocks -> BlockRecords]
    BY RawAllocTables DEF RawAlloc, Types
<1>2. PICK b \in Places("none") : \E e :
          Fresh(e, b, "raw", q, n) /\ block' = [block EXCEPT ![b] = e]
    BY RawAllocTables
<1>3. PICK e : Fresh(e, b, "raw", q, n) /\ block' = [block EXCEPT ![b] = e]
    BY <1>2
<1>4. b \in Blocks /\ block[b].state = "none" /\ block[b].size = 0
    BY <1>2 DEF Places, Tables, PlaceOK
<1>5. block'[b] = e /\ \A x \in Blocks : x # b => block'[x] = block[x]
    BY <1>1, <1>3, <1>4
<1>6. block'[b].size = n /\ UsedSize(block'[b]) = n /\ UsedSize(block[b]) = 0
    BY <1>3, <1>4, <1>5 DEF Fresh, UsedSize
<1>7. /\ Total(block') = Total(block) - 0 + n
      /\ TotalUsed(block') = TotalUsed(block) - 0 + n
    BY <1>1, <1>4, <1>5, <1>6, OneChanges
<1>8. Total(block) \in Nat /\ TotalUsed(block) \in Nat /\ n \in Nat
    BY <1>1, TotalsBound, TorchAssumption
<1>. QED  BY <1>1, <1>7, <1>8 DEF Counters

\* A raw allocation is given back, unless the driver refuses.
LEMMA RawFreeCounters ==
    ASSUME Types, Tables, Counters, NEW b \in Blocks, NEW throws \in BOOLEAN,
           RawFree(b, throws)
    PROVE  Counters'
<1>1. /\ block' \in [Blocks -> BlockRecords] /\ block \in [Blocks -> BlockRecords]
      /\ block[b].state = "raw"
      /\ throws => block' = block
      /\ ~throws => block' = Vacated({b})
    BY RawFreeTables DEF Types
<1>2. CASE throws
    <2>1. block' = block /\ activeBytes' = activeBytes /\ reservedBytes' = reservedBytes
        BY <1>1, <1>2 DEF RawFree
    <2>. QED  BY <2>1 DEF Counters
<1>3. CASE ~throws
    <2>1. /\ activeBytes' = Less(activeBytes, block[b].size)
          /\ reservedBytes' = Less(reservedBytes, block[b].size)
        BY <1>3 DEF RawFree
    <2>2. /\ block'[b].state = "none" /\ block'[b].size = 0
          /\ \A x \in Blocks : x # b => block'[x] = block[x]
        <3>1. \A x \in Blocks : x # b => x \notin {b}
            OBVIOUS
        <3>2. \A x \in Blocks : /\ x \in {b} => block'[x].state = "none" /\ block'[x].size = 0
                                /\ x \notin {b} => block'[x] = block[x]
            BY <1>1, <1>3 DEF Vacated, NoBlock
        <3>. QED  BY <3>1, <3>2
    <2>3. UsedSize(block'[b]) = 0 /\ UsedSize(block[b]) = block[b].size
        BY <1>1, <2>2 DEF UsedSize
    <2>4. /\ Total(block') = Total(block) - block[b].size + 0
          /\ TotalUsed(block') = TotalUsed(block) - block[b].size + 0
        BY <1>1, <2>2, <2>3, OneChanges
    <2>5. /\ Total(block) \in Nat /\ TotalUsed(block) \in Nat /\ block[b].size \in Nat
          /\ block[b].size <= Total(block) /\ block[b].size <= TotalUsed(block)
        BY <1>1, <2>3, TotalsBound, UsedSizeType
    <2>6. /\ Less(Total(block), block[b].size) = Total(block) - block[b].size
          /\ Less(TotalUsed(block), block[b].size) = TotalUsed(block) - block[b].size
        BY <2>5, LessIs
    <2>. QED  BY <2>1, <2>4, <2>5, <2>6 DEF Counters
<1>. QED  BY <1>2, <1>3

\* A block goes to the cache.
LEMMA FreeCounters ==
    ASSUME Types, Tables, Counters, NEW b \in Blocks,
           NEW named \in TorchQueues \cup {NoTorchQueue}, NEW throws \in BOOLEAN,
           FreeBlock(b, named, throws)
    PROVE  Counters'
<1>1. /\ block' \in [Blocks -> BlockRecords] /\ block \in [Blocks -> BlockRecords]
      /\ block[b].state = "live"
      /\ \A x \in Blocks : x # b => block'[x] = block[x]
      /\ block'[b].size = block[b].size
      /\ throws => block'[b].state = "live"
      /\ ~throws => block'[b].state = "cached"
    <2>1. block \in [Blocks -> BlockRecords]
        BY DEF Types
    <2>2. Types' /\ Tables'
        BY FreeTables
    <2>3. block' \in [Blocks -> BlockRecords]
        BY <2>2 DEF Types
    <2>. QED  BY <2>1, <2>3, FreeTables
<1>2. /\ reservedBytes' = reservedBytes
      /\ throws => activeBytes' = activeBytes
      /\ ~throws => activeBytes' = Less(activeBytes, block[b].size)
    BY DEF FreeBlock
<1>3. /\ UsedSize(block[b]) = block[b].size
      /\ throws => UsedSize(block'[b]) = block[b].size
      /\ ~throws => UsedSize(block'[b]) = 0
    BY <1>1 DEF UsedSize
<1>4. /\ Total(block') = Total(block) - block[b].size + block[b].size
      /\ TotalUsed(block') = TotalUsed(block) - block[b].size + UsedSize(block'[b])
    BY <1>1, <1>3, OneChanges
<1>5. /\ Total(block) \in Nat /\ TotalUsed(block) \in Nat /\ block[b].size \in Nat
      /\ block[b].size <= TotalUsed(block)
    BY <1>1, <1>3, TotalsBound, UsedSizeType
<1>6. Less(TotalUsed(block), block[b].size) = TotalUsed(block) - block[b].size
    BY <1>5, LessIs
<1>7. Total(block') = Total(block)
    BY <1>4, <1>5
<1>8. throws => TotalUsed(block') = TotalUsed(block)
    BY <1>3, <1>4, <1>5
<1>9. ~throws => TotalUsed(block') = TotalUsed(block) - block[b].size
    BY <1>3, <1>4, <1>5
<1>. QED  BY <1>2, <1>6, <1>7, <1>8, <1>9 DEF Counters

\* At first nothing is counted, ...
LEMMA CountersStart == TorchInit => Counters
<1>. SUFFICES ASSUME TorchInit PROVE Counters
    OBVIOUS
<1>1. \A b \in Blocks : block[b].size = 0 /\ UsedSize(block[b]) = 0
    BY DEF TorchInit, NoBlock, UsedSize
<1>. DEFINE f == SizesOf(block)  g == UsedOf(block)
<1>2. /\ IsFiniteSet(DOMAIN f) /\ \A b \in DOMAIN f : f[b] = 0
      /\ IsFiniteSet(DOMAIN g) /\ \A b \in DOMAIN g : g[b] = 0
    BY <1>1, TorchAssumption DEF SizesOf, UsedOf
<1>. HIDE DEF f, g
<1>3. SumFunction(f) = 0 /\ SumFunction(g) = 0
    BY <1>2, SumOfZeros
<1>. QED  BY <1>3 DEF Counters, Total, TotalUsed, f, g, TorchInit

\* ... and every step counts what it does.
LEMMA CountersStep ==
    TorchInvariant /\ Counters /\ [TorchNext]_torchVars => Counters'
<1>. SUFFICES ASSUME TorchInvariant, Counters, [TorchNext]_torchVars PROVE Counters'
    OBVIOUS
<1>. USE DEF TorchInvariant
<1>1. ASSUME NEW q \in TorchQueues, NEW n \in BlockSizes, NEW throws \in BOOLEAN,
             AllocHit(q, n, throws)
      PROVE  Counters'
    <2>1. CASE throws = TRUE
        BY <1>1, <2>1, ForgetCounters
    <2>2. CASE throws = FALSE
        BY <1>1, <2>2, HitCounters
    <2>. QED  BY <2>1, <2>2
<1>2. ASSUME NEW q \in TorchQueues, NEW n \in BlockSizes, RawAlloc(q, n)
      PROVE  Counters'
    BY <1>2, RawAllocCounters
<1>3. ASSUME NEW q \in TorchQueues, NEW n \in BlockSizes, NEW S \in SUBSET Blocks,
             AllocMiss(q, n, S)
      PROVE  Counters'
    BY <1>3, MissCounters
<1>4. ASSUME NEW S \in SUBSET Blocks, EmptyCache(S)
      PROVE  Counters'
    BY <1>4, EmptyCounters
<1>5. ASSUME NEW b \in Blocks, NEW throws \in BOOLEAN, RawFree(b, throws)
      PROVE  Counters'
    BY <1>5, RawFreeCounters
<1>6. ASSUME NEW b \in Blocks, NEW throws \in BOOLEAN,
             NEW q \in TorchQueues \cup {NoTorchQueue}, FreeBlock(b, q, throws)
      PROVE  Counters'
    BY <1>6, FreeCounters
<1>7. ASSUME UNCHANGED <<block, activeBytes, reservedBytes>>
      PROVE  Counters'
    BY <1>7 DEF Counters
<1>8. ASSUME NEW q \in TorchQueues, NEW b \in Blocks, UseBlock(q, b)
      PROVE  Counters'
    BY <1>7, <1>8 DEF UseBlock
<1>9. ASSUME NEW q \in TorchQueues, NEW i \in 1 .. Len(commands[q]), FinishCommand(q, i)
      PROVE  Counters'
    BY <1>7, <1>9 DEF FinishCommand
<1>10. CASE UNCHANGED torchVars
    BY <1>7, <1>10 DEF torchVars
<1>. QED  BY <1>1, <1>2, <1>3, <1>4, <1>5, <1>6, <1>8, <1>9, <1>10 DEF TorchNext

\* The invariant and the counters give the types.
LEMMA TypeByCounters == TorchInvariant /\ Counters => TorchTypeOK
<1>. SUFFICES ASSUME TorchInvariant, Counters PROVE TorchTypeOK
    OBVIOUS
<1>1. /\ block \in [Blocks -> BlockRecords]
      /\ Range(cache) = Places("cached") /\ IsInjective(cache)
      /\ inUse \subseteq Places("live") \cup Places("raw")
    BY DEF TorchInvariant, Types, Tables
<1>2. Bytes(Blocks) = Total(block)
    BY DEF Bytes, Total, SizesOf
<1>. DEFINE g == UsedOf(block)  U == Places("live") \cup Places("raw")
<1>3. /\ IsFiniteSet(DOMAIN g) /\ DOMAIN g = Blocks
      /\ \A b \in Blocks : g[b] = UsedSize(block[b]) /\ g[b] \in Nat
    BY <1>1, SizesType
<1>4. U \in SUBSET Blocks /\ \A b \in Blocks : b \in U <=> block[b].state \in {"live", "raw"}
    BY DEF Places
<1>. HIDE DEF g, U
<1>5. /\ \A b \in DOMAIN g : g[b] \in Int
      /\ \A b \in DOMAIN g \ U : g[b] = 0
      /\ \A b \in U : g[b] = block[b].size
    BY <1>3, <1>4 DEF UsedSize
<1>6. SumFunction(g) = SumFunction(Restrict(g, U))
    BY <1>3, <1>4, <1>5, SumOfRest
<1>7. Restrict(g, U) = [b \in U |-> block[b].size]
    BY <1>5 DEF Restrict
<1>8. Bytes(U) = TotalUsed(block)
    BY <1>6, <1>7 DEF Bytes, TotalUsed, g
<1>. QED  BY <1>1, <1>2, <1>8 DEF TorchTypeOK, Counters, BlockRecords, States, U

\* The tables and the counters agree.
THEOREM TorchTyped == TorchSpec => []TorchTypeOK
<1>1. TorchInit => TorchInvariant /\ Counters
    BY TorchStart, CountersStart
<1>2. (TorchInvariant /\ Counters) /\ [TorchNext]_torchVars => (TorchInvariant /\ Counters)'
    BY TorchStep, CountersStep
<1>3. TorchSpec => [](TorchInvariant /\ Counters)
    BY <1>1, <1>2, PTL DEF TorchSpec
<1>. QED  BY <1>3, TypeByCounters, PTL

-----------------------------------------------------------------------------
(* The parts side by side, as TLC runs them (MCBuffers).                     *)

\* A step is one of one part, and leaves the others alone.
LEMMA PartsStep ==
    [MCNext]_partVars => /\ [Next]_poolVars /\ [HostNext]_hostVars /\ [VramNext]_vramVars
                         /\ [TorchNext]_torchVars /\ [CopyNext]_copyVars
BY DEF MCNext, partVars

\* What the instances of the run do is what the components do: each of them is
\* specified alone, and nothing of one can disturb another.
THEOREM PartsAreComponents ==
    MCSpec => Spec /\ HostSpec /\ VramSpec /\ TorchSpec /\ CopySpec
<1>1. MCInit => PoolInit /\ HostInit /\ VramInit /\ TorchInit /\ CopyInit
    BY DEF MCInit
<1>. QED  BY <1>1, PartsStep, PTL DEF MCSpec, Spec, HostSpec, VramSpec, TorchSpec, CopySpec

\* The types of the transfer pool, the host buffer, the block cache and the copy owners.
THEOREM PartsTyped == MCSpec => []PartsTypeOK
<1>1. TypeOK /\ HostTypeOK /\ TorchTypeOK /\ CopyTypeOK => PartsTypeOK
    BY DEF PartsTypeOK
<1>. QED  BY <1>1, PartsAreComponents, PoolTypeCorrect, HostTyped, TorchTyped, CopyTypes, PTL

\* A buffer that is gone has left nothing behind: a host buffer that was not freed
\* empty and whose memory could all be queued (hostbuf_free), a device buffer if no
\* call of the driver failed (vrambuf_destroy).
THEOREM BuffersLeaveNothing == MCSpec => []GoneBuffersLeaveNothing
<1>1. GoneBuffersAreReturned /\ CleanBuffersLeaveNothing => GoneBuffersLeaveNothing
    BY DEF GoneBuffersLeaveNothing
<1>. QED  BY <1>1, PartsAreComponents, GoneReturned, CleanlyGone, PTL

=============================================================================
