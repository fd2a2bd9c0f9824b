------------------------------ MODULE UsmHook ------------------------------
(***************************************************************************)
(* The hook on device USM of the Linux XPU build (src-xpu/ur-usm-hook.cpp) *)
(* with its accounting (src-xpu/stubs.c) and the part of control.py that   *)
(* attaches it to a context of the library and detaches it.                *)
(*                                                                         *)
(* Every urUSMDeviceAlloc and urUSMFree of the process goes through the    *)
(* hook.  While it is enabled, memory is entered in a ledger and charged   *)
(* to the budget of its device.  A request of PyTorch above the budget is  *)
(* refused once, so that PyTorch gives up its cache and asks again.  Calls *)
(* look at the flags first, without the mutex, and go straight to the      *)
(* driver if there is nothing to do.                                       *)
(*                                                                         *)
(* Memory of other libraries may outlive the context: its entries are      *)
(* retired, no longer charged, and charged again to the next context.      *)
(* control.py runs on a thread of its own here: what it does to the g_retry *)
(* of its thread has no effect that a change of the generation has not.    *)
(* Left out: the amount evicted from VBARs to make room (and with it the   *)
(* bytes a flush returned), and the statistics but one.                    *)
(***************************************************************************)
EXTENDS Naturals, FiniteSets, FiniteSetsExt

CONSTANTS
    HookThreads,    \* threads that allocate and free
    Cells,          \* addresses the driver gives out
    HookDevices,
    Requests,       \* what each thread asks for
    MaxGeneration   \* bound: no context is made from this g_generation on

\* torch: the stack of the request shows libc10_xpu.so.  owned: it is made in
\* a scope of aimdo_xpu_owned_usm_enter.
ASSUME HookAssumption ==
    /\ \A t \in HookThreads :
           Requests[t] \subseteq [device : HookDevices, size : Nat \ {0},
                                 torch : BOOLEAN, owned : BOOLEAN]
    /\ MaxGeneration \in Nat

VARIABLES
    cells,          \* of each address: free, held by a caller, or lost
    context,        \* the devices of lib.init, none before it
    usage,          \* total_vram_usage of each of them: the share of the hook
    phase,          \* control.py: down, up, on, failed, off
    enabled,        \* g_enabled
    generation,     \* g_generation
    shutdown,       \* g_owned_shutdown
    hint,           \* g_torch_cached_bytes: whether PyTorch has a cache to give
    ledger,         \* g_allocations
    retiredLive,    \* g_retired_live_count
    retiring,       \* xpu_ur_hook_retire_borrowed holds the mutex, half way
    duplicates,     \* g_stats[kDuplicatePointerCalls]
    usmCall,        \* the call each thread is in
    retry,          \* g_retry of each thread
    refused         \* the request a thread was refused last, and how often

ledgerVars == <<usage, ledger, retiredLive, duplicates>>
stateVars  == <<context, phase, enabled, generation, shutdown, retiring>>
callVars   == <<usmCall, retry, refused>>
hookVars   == <<cells, hint, ledgerVars, stateVars, callVars>>

Asked(r) == {[device |-> r.device, size |-> r.size, generation |-> generation]}
NoRetry  == {}
Never    == [asked |-> NoRetry, times |-> 0]
Idle     == [at |-> "idle"]

HookInit ==
    /\ cells = [p \in Cells |-> "free"]
    /\ context = {} /\ usage = [d \in HookDevices |-> 0]
    /\ phase = "down" /\ enabled = FALSE /\ generation = 0
    /\ shutdown = FALSE /\ retiring = FALSE
    /\ hint = [d \in HookDevices |-> FALSE]
    /\ ledger = <<>> /\ retiredLive = 0 /\ duplicates = 0
    /\ usmCall = [t \in HookThreads |-> Idle]
    /\ retry = [t \in HookThreads |-> NoRetry]
    /\ refused = [t \in HookThreads |-> Never]

Become(p, state)  == cells' = [cells EXCEPT ![p] = state]
Enter(t, c)       == usmCall' = [usmCall EXCEPT ![t] = c]
Forget(t)         == retry' = [retry EXCEPT ![t] = NoRetry]
Locked(t, at)     == usmCall[t].at = at /\ ~retiring

-----------------------------------------------------------------------------
(* The budget.                                                              *)

Bytes(l, ps, d) ==
    MapThenSumSet(LAMBDA p : l[p].size, {p \in ps : l[p].device = d})

\* aimdo_xpu_account_allocation for entries ps of l, all on devices of the
\* context; elsewhere it fails.  What would fall below zero is zero.
Charged(u, l, ps) == [d \in HookDevices |-> u[d] + Bytes(l, ps, d)]
Credited(u, l, ps) ==
    [d \in HookDevices |-> LET n == Bytes(l, ps, d) IN IF n < u[d] THEN u[d] - n ELSE 0]

Mark(l, ps, counted) ==
    [p \in DOMAIN l |-> IF p \in ps THEN [l[p] EXCEPT !.accounted = counted] ELSE l[p]]

Here(ps) == {p \in ps : ledger[p].device \in context}

-----------------------------------------------------------------------------
(* urUSMDeviceAlloc.                                                        *)

\* The checks before the mutex.
AllocCheck(t, r) ==
    /\ usmCall[t] = Idle
    /\ IF r.owned /\ shutdown THEN UNCHANGED usmCall
       ELSE Enter(t, [at |-> IF enabled THEN "alloc" ELSE "pass", request |-> r])
    /\ UNCHANGED <<cells, hint, ledgerVars, stateVars, retry, refused>>

\* The driver answers without anything being tracked.
Untracked(t) ==
    /\ \/ \E p \in Cells : cells[p] = "free" /\ Become(p, "held")
       \/ UNCHANGED cells
    /\ refused' = [refused EXCEPT ![t] = Never]
    /\ UNCHANGED <<hint, ledgerVars, stateVars>>

\* The hook is off.
AllocPass(t) ==
    /\ usmCall[t].at = "pass"
    /\ Untracked(t) /\ Enter(t, Idle) /\ UNCHANGED retry

\* The hook was switched off after the first check, or it does not know the
\* device.
AllocUnknown(t) ==
    /\ Locked(t, "alloc")
    /\ LET r == usmCall[t].request IN
       /\ ~(r.owned /\ shutdown)
       /\ ~enabled \/ r.device \notin context
    /\ Untracked(t) /\ Enter(t, Idle) /\ Forget(t)

\* AIMDO allocates nothing for itself any more.
AllocShutdown(t) ==
    /\ Locked(t, "alloc") /\ usmCall[t].request.owned /\ shutdown
    /\ Enter(t, Idle)
    /\ UNCHANGED <<cells, hint, ledgerVars, stateVars, retry, refused>>

\* The driver has memory, and it is not known to the ledger.
Track(p, r) ==
    /\ p \notin DOMAIN ledger
    /\ LET new == [size |-> r.size, device |-> r.device, accounted |-> TRUE,
                   retired |-> FALSE, owned |-> r.owned]
           l   == [q \in DOMAIN ledger \cup {p} |-> IF q = p THEN new ELSE ledger[q]]
       IN /\ ledger' = l
          /\ usage' = Charged(usage, l, {p})
    /\ Become(p, "held")
    /\ UNCHANGED <<retiredLive, duplicates>>

\* The address is in the ledger already: the caller does not get it, and
\* nobody gives it back.
Duplicate(p) ==
    /\ p \in DOMAIN ledger
    /\ duplicates' = duplicates + 1
    /\ Become(p, "lost")
    /\ UNCHANGED <<usage, ledger, retiredLive>>

\* real_allocate_and_account.  Out of memory is also the answer if the entry
\* cannot be made; the memory then goes back.  An answer that arms the thread
\* lets the same request evict as much as it needs; another error does not.
Answer(t, r, arms) ==
    LET failed == IF arms /\ r.torch THEN Asked(r) ELSE NoRetry IN
    /\ \/ \E p \in Cells :
              /\ cells[p] = "free"
              /\ \/ Track(p, r) /\ Forget(t)
                 \/ Duplicate(p) /\ retry' = [retry EXCEPT ![t] = failed]
       \/ /\ retry' = [retry EXCEPT ![t] = failed] \/ Forget(t)
          /\ UNCHANGED <<cells, ledgerVars>>
    /\ refused' = [refused EXCEPT ![t] = Never]
    /\ UNCHANGED hint

\* The request fails without the driver having been asked.
Fail(t) ==
    /\ Forget(t)
    /\ refused' = [refused EXCEPT ![t] = Never]
    /\ UNCHANGED <<cells, hint, ledgerVars>>

\* The synthetic failure that makes PyTorch flush its cache.  The hint is
\* consumed.
Refuse(t, r) ==
    /\ hint[r.device] /\ hint' = [hint EXCEPT ![r.device] = FALSE]
    /\ retry' = [retry EXCEPT ![t] = Asked(r)]
    /\ refused' = [refused EXCEPT ![t] =
           [asked |-> Asked(r), times |-> IF @.asked = Asked(r) THEN @.times + 1 ELSE 1]]
    /\ UNCHANGED <<cells, ledgerVars>>

\* The request is arbitrated.  short: it exceeds the budget of the device.
Alloc(t) ==
    /\ Locked(t, "alloc") /\ enabled
    /\ LET r == usmCall[t].request
           again == r.torch /\ retry[t] = Asked(r)
       IN /\ r.device \in context /\ ~(r.owned /\ shutdown)
          /\ \/ Fail(t)                              \* the ledger cannot grow
             \/ again /\ Answer(t, r, FALSE)
             \/ \E short \in BOOLEAN :
                    LET refuses == short /\ r.torch /\ hint[r.device] IN
                    /\ ~again
                    /\ \/ refuses /\ Refuse(t, r)
                       \/ short /\ ~r.torch /\ Fail(t)      \* nothing to evict
                       \/ ~refuses /\ Answer(t, r, TRUE)
    /\ Enter(t, Idle)
    /\ UNCHANGED stateVars

-----------------------------------------------------------------------------
(* urUSMFree.                                                               *)

\* The check before the mutex.  Nobody frees an address twice.
FreeCheck(t, p) ==
    /\ usmCall[t] = Idle /\ cells[p] = "held"
    /\ \A u \in HookThreads : usmCall[u].at \in {"free", "passFree"} => usmCall[u].ptr # p
    /\ Enter(t, [at |-> IF enabled \/ retiredLive > 0 THEN "free" ELSE "passFree",
                 ptr |-> p])
    /\ UNCHANGED <<cells, hint, ledgerVars, stateVars, retry, refused>>

FreePass(t) ==
    /\ usmCall[t].at = "passFree"
    /\ Become(usmCall[t].ptr, "free") \/ UNCHANGED cells
    /\ Enter(t, Idle)
    /\ UNCHANGED <<hint, ledgerVars, stateVars, retry, refused>>

\* Mutant of Released: a retired entry is taken for one of an earlier context.
Released_Retired(e, p) == IF e.accounted /\ ~e.retired THEN Here({p}) ELSE {}

\* The entries whose bytes are given back to the budget.
Released(e, p) == IF e.accounted THEN Here({p}) ELSE {}

\* The entry of the address leaves the ledger.
Remove(p) ==
    IF p \in DOMAIN ledger
    THEN /\ usage' = Credited(usage, ledger, Released(ledger[p], p))
         /\ retiredLive' = retiredLive - (IF ledger[p].retired THEN 1 ELSE 0)
         /\ ledger' = [q \in DOMAIN ledger \ {p} |-> ledger[q]]
         /\ UNCHANGED duplicates
    ELSE UNCHANGED ledgerVars

\* Mutant of KeepRetry: a free under the mutex ends the exchange.
KeepRetry_Never(t) == Forget(t)

\* What PyTorch frees before it asks again does not end the exchange.
KeepRetry(t) == IF enabled THEN UNCHANGED retry ELSE Forget(t)

Free(t) ==
    /\ Locked(t, "free")
    /\ KeepRetry(t)
    /\ \/ Become(usmCall[t].ptr, "free") /\ Remove(usmCall[t].ptr)
       \/ UNCHANGED <<cells, ledgerVars>>                \* the driver refuses
    /\ Enter(t, Idle)
    /\ UNCHANGED <<hint, stateVars, refused>>

-----------------------------------------------------------------------------
(* Attaching and detaching.                                                 *)

NoHints == hint' = [d \in HookDevices |-> FALSE]

\* lib.init: a context with budgets of its own.
InitDevices(ds) ==
    /\ phase = "down" /\ generation < MaxGeneration
    /\ context' = ds /\ phase' = "up"
    /\ usage' = [d \in HookDevices |-> 0]
    /\ UNCHANGED <<cells, hint, ledger, retiredLive, duplicates, enabled, generation,
                   shutdown, retiring, callVars>>

Retired == {p \in DOMAIN ledger : ledger[p].retired}
Waiting == {p \in Retired : ~ledger[p].accounted}

\* xpu_ur_hook_enable, enable_locked: the context takes over what is retired.
Enable ==
    /\ phase = "up" /\ Here(Waiting) = Waiting
    /\ ledger' = Mark(ledger, Waiting, TRUE)
    /\ usage' = Charged(usage, ledger, Waiting)
    /\ generation' = generation + 1
    /\ enabled' = TRUE /\ shutdown' = FALSE /\ phase' = "on"
    /\ NoHints
    /\ UNCHANGED <<cells, context, retiring, retiredLive, duplicates, callVars>>

\* Mutant of RollBack: what was taken over stays charged.
RollBack_Kept(l, u) == ledger' = l /\ usage' = u

\* Every retired entry that is charged is given back.
RollBack(l, u) ==
    LET ps == {p \in Here(Retired) : l[p].accounted} IN
    /\ ledger' = Mark(l, ps, FALSE)
    /\ usage' = Credited(u, l, ps)

\* An entry is of a device that the new context does not have; some others
\* have been taken over by then.
EnableFails ==
    /\ phase = "up" /\ Here(Waiting) # Waiting
    /\ \E ps \in SUBSET Here(Waiting) :
           RollBack(Mark(ledger, ps, TRUE), Charged(usage, ledger, ps))
    /\ phase' = "failed"
    /\ UNCHANGED <<cells, hint, retiredLive, duplicates, context, enabled, generation,
                   shutdown, retiring, callVars>>

Attached == phase \in {"on", "failed"} /\ ~retiring

\* xpu_ur_hook_disable, in deinit.
Disable ==
    /\ Attached /\ DOMAIN ledger = {}
    /\ enabled' = FALSE /\ generation' = generation + 1 /\ phase' = "off"
    /\ NoHints
    /\ UNCHANGED <<cells, ledgerVars, context, shutdown, retiring, callVars>>

\* xpu_ur_hook_retire_borrowed, in deinit or after a failed adoption: memory of
\* AIMDO itself must be gone.
Retire ==
    /\ Attached /\ \A p \in DOMAIN ledger : ~ledger[p].owned
    /\ shutdown' = TRUE /\ enabled' = FALSE
    /\ generation' = generation + 1 /\ retiring' = TRUE
    /\ NoHints
    /\ UNCHANGED <<cells, ledgerVars, context, phase, callVars>>

\* ... and the entries are marked.  The count is raised by the first.
RetireMarks ==
    /\ retiring
    /\ ledger' = [p \in DOMAIN ledger |->
           [ledger[p] EXCEPT !.retired = TRUE, !.accounted = FALSE]]
    /\ retiredLive' = retiredLive + Cardinality(DOMAIN ledger \ Retired)
    /\ retiring' = FALSE /\ phase' = "off"
    /\ UNCHANGED <<cells, hint, usage, duplicates, context, enabled, generation,
                   shutdown, callVars>>

\* A failed adoption in a process that has no gate to hold allocations back.
GiveUp ==
    /\ phase = "failed" /\ ~retiring
    /\ phase' = "off"
    /\ UNCHANGED <<cells, hint, ledgerVars, context, enabled, generation, shutdown,
                   retiring, callVars>>

\* lib.cleanup.
CloseContext ==
    /\ phase = "off"
    /\ context' = {} /\ phase' = "down"
    /\ usage' = [d \in HookDevices |-> 0]
    /\ UNCHANGED <<cells, hint, ledger, retiredLive, duplicates, enabled, generation,
                   shutdown, retiring, callVars>>

\* xpu_ur_hook_set_torch_cached_bytes.
Publish(d, some) ==
    /\ ~retiring /\ enabled
    /\ hint' = [hint EXCEPT ![d] = some]
    /\ UNCHANGED <<cells, ledgerVars, stateVars, callVars>>

-----------------------------------------------------------------------------
HookNext ==
    \/ \E t \in HookThreads :
           \/ \E r \in Requests[t] : AllocCheck(t, r)
           \/ AllocPass(t) \/ AllocUnknown(t) \/ AllocShutdown(t) \/ Alloc(t)
           \/ \E p \in Cells : FreeCheck(t, p)
           \/ FreePass(t) \/ Free(t)
    \/ \E ds \in SUBSET HookDevices \ {{}} : InitDevices(ds)
    \/ Enable \/ EnableFails \/ Disable \/ Retire \/ RetireMarks \/ GiveUp \/ CloseContext
    \/ \E d \in HookDevices, some \in BOOLEAN : Publish(d, some)

HookSpec == HookInit /\ [][HookNext]_hookVars

-----------------------------------------------------------------------------
(* Properties.                                                              *)

HookTypeOK ==
    /\ cells \in [Cells -> {"free", "held", "lost"}]
    /\ context \subseteq HookDevices
    /\ usage \in [HookDevices -> Nat]
    /\ phase \in {"down", "up", "on", "failed", "off"}
    /\ {enabled, shutdown, retiring} \subseteq BOOLEAN
    /\ generation \in Nat /\ retiredLive \in Nat /\ duplicates \in Nat
    /\ hint \in [HookDevices -> BOOLEAN]
    /\ DOMAIN ledger \subseteq Cells
    /\ \A p \in DOMAIN ledger :
           ledger[p] \in [size : Nat, device : HookDevices, accounted : BOOLEAN,
                          retired : BOOLEAN, owned : BOOLEAN]

\* The budget of a device is charged with exactly the entries that say so until
\* the hook is detached from its context, a destroyed context with none, and the
\* count that sends frees to the ledger is that of the retired entries: through
\* retirements, adoptions that fail half way, a second retirement of the same
\* memory, and late frees (enable_locked, retire_borrowed_locked, urUSMFree).
LedgerIsCounted ==
    LET counted == {p \in DOMAIN ledger : ledger[p].accounted} IN
    /\ phase # "off" => \A d \in HookDevices : usage[d] = Bytes(ledger, counted, d)
    /\ Here(counted) = counted
    /\ retiredLive = Cardinality(Retired)

\* A thread that repeats the request it was refused is not refused again: the
\* flush of PyTorch is followed by an answer of the driver, whatever the thread
\* freed on the way and whoever published a new hint (urUSMDeviceAlloc).  The
\* generation is part of a request: if the hook was attached anew, or its memory
\* retired, in between, the repetition is a new request and may be refused once
\* more, as the code means it (test_retry_generation_invalidates_worker_state).
RetriesAreAnswered == \A t \in HookThreads : refused[t].times <= 1

\* "A duplicate pointer identifies a broken lower-allocation contract": with a
\* driver that keeps it, memory freed and given out again is never taken for a
\* duplicate (real_allocate_and_account).
DuplicatesBlameTheDriver == duplicates = 0
=============================================================================
