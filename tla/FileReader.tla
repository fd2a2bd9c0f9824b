----------------------------- MODULE FileReader -----------------------------
(***************************************************************************)
(* The windows of the file reader (src/hostbuf-file-reader.c) over the     *)
(* file transfer pool, with the copies and reader events of the Windows    *)
(* XPU dispatch layer (src-xpu/dispatch.cpp).                              *)
(*                                                                         *)
(* A read goes through a ring of staging windows: the pool reads a part of *)
(* the file into the active window, and a copy takes it to the device.  On *)
(* an in-order queue of an opted-in process the copy is only submitted, so *)
(* the window must not be written again, or freed, before the device has   *)
(* done with it.  One thread per device uses the ring.  What other callers *)
(* of the pool do is in TransferPool; here the ring is the only one.       *)
(*                                                                         *)
(* Sizes and offsets count XFER_FILE_CHUNK_SIZE.                           *)
(***************************************************************************)
EXTENDS TransferPool

CONSTANTS
    Reader,         \* the thread of the ring, one of the pool's Callers
    Streams,        \* the stream pointers reads are asked for
    Queues,         \* the SYCL queues behind them
    AsyncQueues,    \* in-order queues, when AIMDO_XPU_ASYNC_FILE_READER=1
    ReaderSlots,    \* HOSTBUF_FILE_READER_SLOTS
    Window,         \* HOSTBUF_FILE_READER_WINDOW
    LeadIn,         \* LEAD_IN_THRESHOLD
    MaxSize,        \* bound: the longest read or write
    None            \* no stream, no event

ASSUME ReaderAssumption ==
    /\ Reader \in Callers
    /\ AsyncQueues \subseteq Queues
    /\ None \notin Streams \union [Queues -> [wholeQueue : BOOLEAN, ahead : Nat]]
    /\ ReaderSlots \in Nat \ {0, 1}
    /\ Window \in 1..MaxChunks
    /\ LeadIn \in 1..Window
    /\ MaxSize \in Nat

VARIABLES
    slots,      \* _hostbuf_file_reader_slots and, of each, its XpuReaderBuffer
    active,     \* _hostbuf_file_reader_active, 0 for -1
    rd,         \* the reading thread
    inflight    \* per queue, the copies the device has still to do, in order

ringVars == <<slots, active, rd, inflight>>
vars     == <<poolVars, ringVars>>

Slots == 1..ReaderSlots

\* An XpuCopyCompletion waits for an event, whose copy is the ahead-th that its
\* queue has still to do (none, once the event is done), or for the whole queue.
NoWait == [wholeQueue |-> FALSE, ahead |-> 0]

EmptySlot == [buffer |-> FALSE, offset |-> 0, stream |-> None, event |-> None,
              releasing |-> FALSE, copies |-> [q \in Queues |-> NoWait]]

IdleReader == [at |-> "idle", left |-> 0, stream |-> None, queue |-> None,
               write |-> FALSE, lo |-> 0, n |-> 0, slot |-> 0]

Init ==
    /\ PoolInit
    /\ slots    = [s \in Slots |-> EmptySlot]
    /\ active   = 0
    /\ rd       = IdleReader
    /\ inflight = [q \in Queues |-> <<>>]

-----------------------------------------------------------------------------
(* The device, and what waiting for it means.                               *)

\* The device does the first copy of an in-order queue; what waits for a later
\* one has one less ahead of it.
OneLess(copies, q) ==
    [copies EXCEPT ![q].ahead = IF @ = 0 THEN 0 ELSE @ - 1]

Complete(q) ==
    /\ inflight[q] # <<>>
    /\ inflight' = [inflight EXCEPT ![q] = Tail(@)]
    /\ slots' = [s \in Slots |->
           [slots[s] EXCEPT !.copies = OneLess(@, q),
                            !.event  = IF @ = None THEN None ELSE OneLess(@, q)]]
    /\ UNCHANGED <<poolVars, active, rd>>

\* Whether XpuCopyCompletion::wait returns, for all of an event or a buffer.
Drained(copies) ==
    \A q \in Queues :
        IF copies[q].wholeQueue THEN inflight[q] = <<>> ELSE copies[q].ahead = 0

-----------------------------------------------------------------------------
(* hostbuf_file_reader_retire_active: an event for the copies of the active *)
(* window, unless it has one or nothing was put in it.                      *)

NeedsEvent == /\ active # 0
              /\ slots[active].offset # 0
              /\ slots[active].event = None

RetireActive ==
    slots' = IF NeedsEvent
             THEN [slots EXCEPT ![active].event = slots[active].copies]
             ELSE slots

\* The event cannot be created or recorded.
RetireFails == NeedsEvent /\ UNCHANGED slots

ReaderReturns == rd' = IdleReader

-----------------------------------------------------------------------------
(* hostbuf_file_transfer.                                                   *)

\* A stream pointer may name another queue than at its last use: the wrapper it
\* pointed to may be gone and its address used again.
StartTransfer ==
    /\ rd.at = "idle"
    /\ pool = "up"
    /\ \E n \in 1..MaxSize, s \in Streams, q \in Queues, w \in BOOLEAN :
           rd' = [IdleReader EXCEPT !.at = "loop", !.left = n, !.write = w,
                                    !.stream = s, !.queue = q]
    /\ UNCHANGED <<poolVars, slots, active, inflight>>

\* Mutant of NeedsWindow: the threshold is forgotten.
NeedsWindow_NoLeadIn ==
    active # 0 =>
        LET slot == slots[active] IN
        \/ slot.event # None
        \/ slot.stream # rd.stream
        \/ slot.offset + rd.left >= Window

\* The active window cannot take the next part of this transfer.
NeedsWindow ==
    active # 0 =>
        LET slot == slots[active] IN
        \/ slot.event # None
        \/ slot.stream # rd.stream
        \/ slot.offset + rd.left >= Window /\ slot.offset >= LeadIn

ChangeWindow ==
    /\ rd.at = "loop"
    /\ rd.left # 0
    /\ NeedsWindow
    /\ \/ RetireActive /\ rd' = [rd EXCEPT !.at = "next"]
       \/ RetireFails /\ ReaderReturns
    /\ UNCHANGED <<poolVars, active, inflight>>

\* Mutant of NextWindow: the window is taken without waiting for its event.
NextWindow_NoWait ==
    /\ rd.at = "next"
    /\ LET s == (active % ReaderSlots) + 1 IN
       /\ slots' = [slots EXCEPT ![s].buffer = TRUE, ![s].offset = 0,
                                 ![s].stream = rd.stream, ![s].event = None]
       /\ active' = s
       /\ rd' = [rd EXCEPT !.at = "loop"]
    /\ UNCHANGED <<poolVars, inflight>>

\* hostbuf_file_reader_next: the next window of the ring, once its event is
\* done.  The wait may fail, and so may the allocation of a window never used.
NextWindow ==
    /\ rd.at = "next"
    /\ LET s == (active % ReaderSlots) + 1
           waits == slots[s].buffer /\ slots[s].event # None
       IN
       \/ /\ waits => Drained(slots[s].event)
          /\ slots' = [slots EXCEPT ![s].buffer = TRUE, ![s].offset = 0,
                                    ![s].stream = rd.stream, ![s].event = None]
          /\ active' = s
          /\ rd' = [rd EXCEPT !.at = "loop"]
       \/ /\ waits \/ ~slots[s].buffer
          /\ ReaderReturns
          /\ UNCHANGED <<slots, active>>
    /\ UNCHANGED <<poolVars, inflight>>

\* Mutant of UseWindow: the part is not cut at the end of the window.
UseWindow_NotCut ==
    /\ rd.at = "loop"
    /\ rd.left # 0
    /\ ~NeedsWindow
    /\ slots' = [slots EXCEPT ![active].offset = @ + rd.left]
    /\ BeginTransfer(Reader, rd.left)
    /\ rd' = [rd EXCEPT !.at = "transfer", !.lo = slots[active].offset, !.n = rd.left]
    /\ UNCHANGED <<calls, active, inflight>>

\* The next part goes into the window.  A read asks the pool for it; a write
\* first copies it from the device, which completes or fails here, and then
\* gives it to the pool.  A part that fails keeps its place in the window.
UseWindow ==
    /\ rd.at = "loop"
    /\ rd.left # 0
    /\ ~NeedsWindow
    /\ LET lo == slots[active].offset
           n == IF rd.left < Window - lo THEN rd.left ELSE Window - lo
       IN /\ slots' = [slots EXCEPT ![active].offset = lo + n]
          /\ \/ /\ BeginTransfer(Reader, n)
                /\ rd' = [rd EXCEPT !.at = "transfer", !.lo = lo, !.n = n]
             \/ /\ rd.write
                /\ ReaderReturns
                /\ UNCHANGED <<pool, stop, tasks, worker, call>>
    /\ UNCHANGED <<calls, active, inflight>>

Advanced == [rd EXCEPT !.at = "loop", !.left = rd.left - rd.n, !.lo = 0, !.n = 0]

\* xfer_file_read or xfer_file_write has returned; its frame is gone.
FileDone ==
    /\ rd.at = "transfer"
    /\ call[Reader].at = "idle"
    /\ rd' = CASE ~call[Reader].ok -> IdleReader
               [] call[Reader].ok /\ rd.write -> Advanced
               [] OTHER -> [rd EXCEPT !.at = "copy"]
    /\ call' = [call EXCEPT ![Reader] = NoCall]
    /\ UNCHANGED <<pool, stop, tasks, worker, calls, slots, active, inflight>>

\* Mutant of CopyAsync: a submission that throws leaves no obligation behind.
CopyAsync_ForgetsFailure ==
    /\ rd.at = "copy"
    /\ rd.queue \in AsyncQueues
    /\ LET q == rd.queue
           submitted == [inflight EXCEPT ![q] =
                            Append(@, [slot |-> active, lo |-> rd.lo, n |-> rd.n])]
       IN
       \/ /\ slots' = [slots EXCEPT ![active].copies[q] =
                          [wholeQueue |-> FALSE, ahead |-> Len(submitted[q])]]
          /\ inflight' = submitted
          /\ rd' = Advanced
       \/ /\ inflight' = submitted
          /\ ReaderReturns
          /\ UNCHANGED slots
    /\ UNCHANGED <<poolVars, active>>

\* xpu_memcpy_host_to_device.  Synchronous: nothing is left of the copy.
\* Asynchronous: the window remembers the newest copy of each queue; when the
\* submission throws, the copy may have been submitted or not, and the window
\* waits for the whole queue from then on.
CopySync ==
    /\ rd.at = "copy"
    /\ rd.queue \notin AsyncQueues
    /\ \/ rd' = Advanced
       \/ ReaderReturns
    /\ UNCHANGED <<poolVars, slots, active, inflight>>

CopyAsync ==
    /\ rd.at = "copy"
    /\ rd.queue \in AsyncQueues
    /\ LET q == rd.queue
           copy == [slot |-> active, lo |-> rd.lo, n |-> rd.n]
           submitted == [inflight EXCEPT ![q] = Append(@, copy)]
       IN
       \/ /\ ~slots[active].releasing
          /\ slots' = [slots EXCEPT ![active].copies[q] =
                          [wholeQueue |-> FALSE, ahead |-> Len(submitted[q])]]
          /\ inflight' = submitted
          /\ rd' = Advanced
       \/ /\ ~slots[active].releasing
          /\ slots' = [slots EXCEPT ![active].copies[q].wholeQueue = TRUE]
          /\ inflight' \in {inflight, submitted}
          /\ ReaderReturns
       \/ /\ slots[active].releasing
          /\ ReaderReturns
          /\ UNCHANGED <<slots, inflight>>
    /\ UNCHANGED <<poolVars, active>>

TransferDone ==
    /\ rd.at = "loop"
    /\ rd.left = 0
    /\ ReaderReturns
    /\ UNCHANGED <<poolVars, slots, active, inflight>>

-----------------------------------------------------------------------------
(* hostbuf_file_reader_cleanup_checked.                                     *)

StartCleanup ==
    /\ rd.at = "idle"
    /\ \/ RetireActive /\ rd' = [IdleReader EXCEPT !.at = "cleanup", !.slot = 1]
       \/ RetireFails /\ UNCHANGED rd
    /\ UNCHANGED <<poolVars, active, inflight>>

\* One window: wait for its event, then xpu_host_free, which waits once more
\* for every copy out of the buffer.  A window whose wait fails is left as it
\* is, for the next cleanup; one that cannot be freed refuses further copies.
CleanupSlot ==
    /\ rd.at = "cleanup"
    /\ LET s == rd.slot
           slot == slots[s]
           waits == slot.buffer /\ slot.event # None
       IN /\ \/ /\ waits => Drained(slot.event)
                /\ slot.buffer => Drained(slot.copies)
                /\ slots' = [slots EXCEPT ![s] = EmptySlot]
                /\ active' = IF active = s THEN 0 ELSE active
             \/ /\ slot.buffer
                /\ waits => Drained(slot.event)
                /\ slots' = [slots EXCEPT ![s].event = None, ![s].releasing = TRUE]
                /\ UNCHANGED active
             \/ waits /\ UNCHANGED <<slots, active>>
          /\ rd' = IF s = ReaderSlots THEN IdleReader ELSE [rd EXCEPT !.slot = s + 1]
    /\ UNCHANGED <<poolVars, inflight>>

-----------------------------------------------------------------------------

RingNext ==
    \/ StartTransfer
    \/ ChangeWindow
    \/ NextWindow
    \/ UseWindow
    \/ FileDone
    \/ CopySync
    \/ CopyAsync
    \/ TransferDone
    \/ StartCleanup
    \/ CleanupSlot
    \/ \E q \in Queues : Complete(q)

\* The library goes up, and goes down after a reader cleanup that succeeded,
\* with no call inside.  (After one that failed it goes down too, and leaks the
\* windows with the context that names them.)
PoolLife ==
    /\ \/ Initialize \/ CreateThread \/ Destroy
       \/ /\ rd.at = "idle"
          /\ slots = [s \in Slots |-> EmptySlot]
          /\ Cleanup
    /\ UNCHANGED ringVars

RNext ==
    \/ RingNext
    \/ Transferring /\ UNCHANGED ringVars
    \/ PoolLife

RSpec == Init /\ [][RNext]_vars

\* The reading thread runs, the device executes what was submitted, and the
\* pool is fair.
RFairness ==
    /\ PoolFairness
    /\ WF_vars(ChangeWindow) /\ WF_vars(NextWindow) /\ WF_vars(UseWindow)
    /\ WF_vars(FileDone) /\ WF_vars(CopySync) /\ WF_vars(CopyAsync)
    /\ WF_vars(TransferDone) /\ WF_vars(CleanupSlot)
    /\ \A q \in Queues : WF_vars(Complete(q))

FairReader == RSpec /\ RFairness

-----------------------------------------------------------------------------
(* Properties.                                                              *)

Completion == [wholeQueue : BOOLEAN, ahead : Nat]

ReaderTypeOK ==
    /\ TypeOK
    /\ slots \in [Slots -> [buffer : BOOLEAN, offset : 0..Window,
                             stream : Streams \union {None},
                             event : [Queues -> Completion] \union {None},
                             releasing : BOOLEAN, copies : [Queues -> Completion]]]
    /\ active \in 0..ReaderSlots
    /\ rd \in [at : {"idle", "loop", "next", "transfer", "copy", "cleanup"},
               left : 0..MaxSize, stream : Streams \union {None},
               queue : Queues \union {None}, write : BOOLEAN,
               lo : 0..Window, n : 0..Window, slot : 0..ReaderSlots]
    /\ inflight \in [Queues -> Seq([slot : Slots, lo : 0..Window, n : 1..Window])]

\* No part of a window is written, by the pool or by a copy from the device,
\* while a copy out of it is still to be done; and the pool writes to a window
\* only while the reader waits for it (hostbuf_file_transfer hands the next
\* part of the window to the pool while earlier parts are being copied).
WindowsAreStable ==
    /\ InRing(Reader) \union InHands(Reader) # {} => rd.at = "transfer"
    /\ rd.at \in {"transfer", "copy"} =>
           \A q \in Queues : \A i \in 1..Len(inflight[q]) :
               LET c == inflight[q][i] IN
               c.slot = active => c.lo + c.n <= rd.lo \/ rd.lo + rd.n <= c.lo

\* Every copy the device has still to do comes out of memory that is still
\* allocated, and is covered by what the window's owner would wait for: the
\* newest copy of its queue or the whole queue, in the window's own record and,
\* once the window is not the active one, in its event.  This survives every
\* failure to create, record or wait for an event, to submit and to free.
CopiesAreFenced ==
    \A q \in Queues : \A i \in 1..Len(inflight[q]) :
        LET s == inflight[q][i].slot
            Covered(copies) == copies[q].wholeQueue \/ i <= copies[q].ahead
        IN /\ slots[s].buffer
           /\ Covered(slots[s].copies)
           /\ s # active => slots[s].event # None /\ Covered(slots[s].event)

\* Every read, write and cleanup of the ring returns.
ReadsReturn == rd.at # "idle" ~> rd.at = "idle"

=============================================================================
