--------------------------- MODULE CopyResidency ---------------------------
(***************************************************************************)
(* The driver copies that name a VBAR (src-xpu/ur-copy-residency.c).  A    *)
(* hooked call takes a hold on each VBAR it touches before it submits, and *)
(* publishes an owner of the holds after; polls of other threads take the  *)
(* whole list, give back what is complete and put the rest on it again.    *)
(* The holds are the ones of VbarPages (copies), where they keep the       *)
(* mappings of the VBAR.                                                   *)
(*                                                                         *)
(* The four hooks differ in the ranges they name and in that a fill never  *)
(* blocks.  Calls that name no VBAR pass through and are left out.         *)
(***************************************************************************)
EXTENDS Naturals, FiniteSets

CONSTANTS
    CopyVbars,      \* VBARs, of any device
    CopyQueues,
    NoCopyQueue,
    Submitters,     \* threads that call the hooked functions
    Pollers,        \* threads that poll
    MaxOwners       \* bound: CopyOwners at a time

CopyOwners == 1 .. MaxOwners

ASSUME CopyAssumption ==
    /\ IsFiniteSet(CopyVbars) /\ NoCopyQueue \notin CopyQueues /\ MaxOwners \in Nat

VARIABLES
    copyHolds,      \* copy_holds of each VBAR
    owner,          \* the CopyOwners, by number; NoOwner is memory that was freed
    pendingCopies,  \* pending_copies
    submitting,     \* the owner of the call each submitter is in, or 0
    polling,        \* the call of each poller, with its local list
    onDevice        \* whether the command of each copy is there: "no", "running", "done"

copyVars == <<copyHolds, owner, pendingCopies, submitting, polling, onDevice>>

NewOwner(vs, q, complete) ==
    [reservations |-> vs, queue |-> q, event |-> FALSE,
     complete |-> complete, require_queue_wait |-> FALSE]
NoOwner == NewOwner({}, NoCopyQueue, FALSE)
NoPoll  == [wait |-> FALSE, list |-> {}]

CopyInit ==
    /\ copyHolds = [v \in CopyVbars |-> 0]
    /\ owner = [c \in CopyOwners |-> NoOwner]
    /\ pendingCopies = {}
    /\ submitting = [s \in Submitters |-> 0]
    /\ polling = [p \in Pollers |-> NoPoll]
    /\ onDevice = [c \in CopyOwners |-> "no"]

\* What a call or a list still refers to.
InCall   == {submitting[s] : s \in Submitters} \ {0}
Polled   == UNION {polling[p].list : p \in Pollers}
Referred == InCall \cup pendingCopies \cup Polled

Unused == {c \in CopyOwners : owner[c] = NoOwner}

-----------------------------------------------------------------------------
(* The hooked calls.                                                        *)

\* prepare_copy, with aimdo_vbar_copy_acquire.  When the queue cannot be
\* retained nothing is submitted, and the holds are given back by a poll.
PrepareCopy(s, q, vs, retained) ==
    /\ submitting[s] = 0 /\ Unused # {}
    /\ vs # {} /\ Cardinality(vs) <= 2
    /\ LET c == CHOOSE d \in Unused : TRUE
       IN  IF retained
           THEN /\ owner' = [owner EXCEPT ![c] = NewOwner(vs, q, FALSE)]
                /\ submitting' = [submitting EXCEPT ![s] = c]
                /\ UNCHANGED pendingCopies
           ELSE /\ owner' = [owner EXCEPT ![c] = NewOwner(vs, NoCopyQueue, TRUE)]
                /\ pendingCopies' = pendingCopies \cup {c}
                /\ UNCHANGED submitting
    /\ copyHolds' = [v \in CopyVbars |-> copyHolds[v] + (IF v \in vs THEN 1 ELSE 0)]
    /\ UNCHANGED <<polling, onDevice>>

\* The original call appends its command, which a call that fails may have
\* done as well.
AppendCopy(s) ==
    LET c == submitting[s] IN
    /\ c # 0 /\ onDevice[c] = "no"
    /\ onDevice' = [onDevice EXCEPT ![c] = "running"]
    /\ UNCHANGED <<copyHolds, owner, pendingCopies, submitting, polling>>

CompleteCopy(c) ==
    /\ onDevice[c] = "running"
    /\ onDevice' = [onDevice EXCEPT ![c] = "done"]
    /\ UNCHANGED <<copyHolds, owner, pendingCopies, submitting, polling>>

\* What the owner keeps of the call.
Finished(o, ok, blocking, event) ==
    [o EXCEPT !.event = event, !.complete = ok /\ blocking, !.require_queue_wait = ~ok]

\* finish_copy, when the original call returns: with an event the owner may
\* keep, or without (none given, or it could not be retained).
FinishCopy(s, ok, blocking, event) ==
    LET c == submitting[s] IN
    /\ c # 0
    /\ ok => onDevice[c] # "no" /\ (blocking => onDevice[c] = "done")
    /\ owner' = [owner EXCEPT ![c] = Finished(@, ok, blocking, event)]
    /\ pendingCopies' = pendingCopies \cup {c}
    /\ submitting' = [submitting EXCEPT ![s] = 0]
    /\ UNCHANGED <<copyHolds, polling, onDevice>>

-----------------------------------------------------------------------------
(* aimdo_xpu_copy_residency_poll.                                           *)

\* Mutant of Taken: the list is read and not taken.
Taken_Read == pendingCopies

\* pending_copies after a poll took the list.
Taken == {}

BeginPoll(p, wait) ==
    /\ polling[p] = NoPoll /\ pendingCopies # {}
    /\ polling' = [polling EXCEPT ![p] = [wait |-> wait, list |-> pendingCopies]]
    /\ pendingCopies' = Taken
    /\ UNCHANGED <<copyHolds, owner, submitting, onDevice>>

\* The event of a call that failed says nothing of what the call appended.
EventSays(c) == onDevice[c] = "done" \/ owner[c].require_queue_wait
QueueDone(c) == \A d \in CopyOwners :
    owner[d].queue = owner[c].queue => onDevice[d] # "running"

\* Mutant of HasEvent: any event is good enough.
HasEvent_Any(c) == owner[c].event

\* The event is asked, or waited for, and not the queue.
HasEvent(c) == owner[c].event /\ ~owner[c].require_queue_wait

\* What the poll finds complete; an event or a queue that cannot be asked is
\* taken for one that is not.
FoundComplete(c, wait) ==
    \/ owner[c].complete
    \/ HasEvent(c) /\ EventSays(c)
    \/ ~HasEvent(c) /\ wait /\ QueueDone(c)

\* The list of a poll without c; the last one ends it.
Without(p, c) ==
    LET rest == polling[p].list \ {c} IN
    polling' = [polling EXCEPT ![p] = IF rest = {} THEN NoPoll ELSE [@ EXCEPT !.list = rest]]

\* release_copy, with aimdo_vbar_copy_release.
ReleaseCopy(p, c) ==
    /\ c \in polling[p].list /\ FoundComplete(c, polling[p].wait)
    /\ copyHolds' = [v \in CopyVbars |->
          IF v \in owner[c].reservations /\ copyHolds[v] > 0 THEN copyHolds[v] - 1
          ELSE copyHolds[v]]
    /\ owner' = [owner EXCEPT ![c] = NoOwner]
    /\ onDevice' = [onDevice EXCEPT ![c] = IF @ = "done" THEN "no" ELSE @]
    /\ Without(p, c)
    /\ UNCHANGED <<pendingCopies, submitting>>

KeepCopy(p, c) ==
    /\ c \in polling[p].list /\ ~owner[c].complete
    /\ pendingCopies' = pendingCopies \cup {c}
    /\ Without(p, c)
    /\ UNCHANGED <<copyHolds, owner, submitting, onDevice>>

CopyNext ==
    \/ \E s \in Submitters :
          \/ \E q \in CopyQueues, vs \in SUBSET CopyVbars, retained \in BOOLEAN :
                 PrepareCopy(s, q, vs, retained)
          \/ AppendCopy(s)
          \/ \E ok, blocking, event \in BOOLEAN : FinishCopy(s, ok, blocking, event)
    \/ \E p \in Pollers : \/ \E wait \in BOOLEAN : BeginPoll(p, wait)
                         \/ \E c \in polling[p].list : ReleaseCopy(p, c) \/ KeepCopy(p, c)
    \/ \E c \in CopyOwners : CompleteCopy(c)

CopySpec == CopyInit /\ [][CopyNext]_copyVars

-----------------------------------------------------------------------------
(* Properties.                                                              *)

CopyTypeOK ==
    /\ copyHolds \in [CopyVbars -> Nat]
    /\ owner \in [CopyOwners -> [reservations : SUBSET CopyVbars,
                                  queue : CopyQueues \cup {NoCopyQueue}, event : BOOLEAN,
                                  complete : BOOLEAN, require_queue_wait : BOOLEAN]]
    /\ pendingCopies \in SUBSET CopyOwners
    /\ submitting \in [Submitters -> CopyOwners \cup {0}]
    /\ polling \in [Pollers -> [wait : BOOLEAN, list : SUBSET CopyOwners]]
    /\ onDevice \in [CopyOwners -> {"no", "running", "done"}]

\* An owner is in one place at a time: a call, the list, or one poll's list.
OwnersAreInOnePlace ==
    /\ \A s, r \in Submitters : s # r /\ submitting[s] = submitting[r] => submitting[s] = 0
    /\ InCall \cap (pendingCopies \cup Polled) = {} /\ pendingCopies \cap Polled = {}
    /\ \A p, r \in Pollers : p # r => polling[p].list \cap polling[r].list = {}

\* Every VBAR has a hold for each call and each copy that names it, no more and no
\* less, and no copy runs on the device without its hold: whatever failed, and while
\* several polls pass the owners around (prepare_copy, finish_copy, release_copy).
HoldsCoverCopies ==
    /\ \A v \in CopyVbars :
          copyHolds[v] = Cardinality({c \in Referred : v \in owner[c].reservations})
    /\ OwnersAreInOnePlace
    /\ \A c \in CopyOwners : onDevice[c] = "running" => c \in Referred
=============================================================================
