---------------------------- MODULE NativeOwner ----------------------------
(***************************************************************************)
(* The allocator proxy of the malloc graph (src-xpu/native-owner-proxy.cpp)*)
(* as several threads use it.  Every allocation gets an Owner.  Native     *)
(* memory goes back to the allocator of PyTorch, custom memory to SYCL,    *)
(* and compiler memory to the malloc graph of the thread that allocated    *)
(* it.  Before memory goes back, the queues that use it are waited for.    *)
(* A compiler allocation that another thread deletes is either a rogue or  *)
(* a candidate, which any thread may free, or it is deferred to its        *)
(* creator.  What cannot be freed safely makes the process terminal.       *)
(*                                                                         *)
(* Of the malloc graph (MallocGraph) only what becomes of a pointer is     *)
(* kept.  Allocations, scopes and transitions hold the lifecycle mutex;    *)
(* deletions do not, and are made of one step per critical section.        *)
(***************************************************************************)
EXTENDS Naturals, FiniteSets, Sequences

CONSTANTS
    TorchThreads,
    Creators,       \* the threads that run a malloc graph
    Pointers,
    UseQueues,
    Queue,          \* the queue the allocations are made on
    NoThread, NoOwner,
    MaxOwners,      \* bound: allocations
    MaxOps,         \* bound: submissions
    MaxFaults       \* bound: calls that fail

ASSUME NativeAssumption ==
    /\ Queue \in UseQueues /\ Creators \subseteq TorchThreads
    /\ MaxOwners \in Nat /\ NoOwner \notin Nat /\ NoThread \notin TorchThreads

VARIABLES
    memory,         \* what a pointer is: free, native, custom, raw, or in a graph
    graphOK,        \* the graph of each thread has not failed
    busy,           \* the queues with unfinished work on each pointer
    owner,          \* every Owner made so far
    owners,         \* g_owners: pointer -> number of its owner
    deferred,       \* g_deferred_frees
    alive,          \* ThreadState.alive
    terminal,       \* g_compiler_terminal
    customFailed,   \* g_custom_failures
    custom,         \* g_custom_scope
    compiler,       \* g_compiler_scope
    transition,     \* the thread that holds the lifecycle mutex in a transition
    pc, current,    \* the deletion, exit or transition a thread is in
    ops, faults     \* bounded counters

graphVars == <<memory, graphOK, busy>>
ownerVars == <<owner, owners, deferred>>
scopeVars == <<custom, compiler, transition>>
proxyVars == <<alive, terminal, customFailed>>
flowVars  == <<pc, current>>
nativeVars == <<graphVars, ownerVars, scopeVars, proxyVars, flowVars, ops, faults>>

Numbers == 1..MaxOwners

\* Pointers of a graph: live in the trace, live but freed out of their scope,
\* a candidate, a candidate that was freed, or a rogue.
GraphStates == {"live", "outside", "candidate", "freed", "rogue"}

NativeInit ==
    /\ memory = [p \in Pointers |-> "free"]
    /\ graphOK = [t \in Creators |-> TRUE]
    /\ busy = [p \in Pointers |-> {}]
    /\ owner = <<>>
    /\ owners = <<>>
    /\ deferred = [t \in TorchThreads |-> <<>>]
    /\ alive = [t \in TorchThreads |-> TRUE]
    /\ terminal = FALSE /\ customFailed = FALSE
    /\ custom = [t \in TorchThreads |-> FALSE]
    /\ compiler = [t \in TorchThreads |-> FALSE]
    /\ transition = NoThread
    /\ pc = [t \in TorchThreads |-> "idle"]
    /\ current = [t \in TorchThreads |-> NoOwner]
    /\ ops = 0 /\ faults = 0

Fault == faults < MaxFaults /\ faults' = faults + 1

\* A thread may start a call; calls under the lifecycle mutex wait for it.
MayCall(t)      == alive[t] /\ pc[t] = "idle"
Unwinding(t) == /\ current[t] # NoOwner /\ pc[t] \in {"wait", "destroy"}
                /\ owner[current[t]].kind # "native" /\ ~owner[current[t]].live
MayChange(t) ==
    /\ MayCall(t) /\ transition = NoThread
    /\ \A u \in TorchThreads : pc[u] # "locked" /\ ~Unwinding(u)

Put(f, x, v) == [y \in DOMAIN f \cup {x} |-> IF y = x THEN v ELSE f[y]]
Drop(f, x)   == [y \in DOMAIN f \ {x} |-> f[y]]

-----------------------------------------------------------------------------
(* Allocation.                                                              *)

NewOwner(kind, p, t, accounted) ==
    [kind |-> kind, ptr |-> p, creator |-> t, consumers |-> {}, fenced |-> FALSE,
     live |-> accounted]

Number == Len(owner) + 1

\* The owner is entered in g_owners and accounted for.
Owned(t, kind, p) ==
    /\ owner' = Append(owner, NewOwner(kind, p, t, kind # "native"))
    /\ owners' = Put(owners, p, Number)
    /\ UNCHANGED <<deferred, flowVars, faults>>

\* The insertion fails: the owner is destroyed on the way out.
NotOwned(t, kind, p) ==
    /\ Fault
    /\ owner' = Append(owner, NewOwner(kind, p, t, FALSE))
    /\ pc' = [pc EXCEPT ![t] = "wait"]
    /\ current' = [current EXCEPT ![t] = Number]
    /\ UNCHANGED <<owners, deferred>>

\* Mutant of MayAllocate: the lifecycle mutex is not taken.
MayAllocate_Unlocked(t) == MayCall(t) /\ Number \in Numbers

MayAllocate(t) == MayChange(t) /\ Number \in Numbers

\* In a compiler scope the memory comes from the graph of the thread.
AllocCompiler(t, p) ==
    /\ MayAllocate(t) /\ compiler[t] /\ ~terminal
    /\ t \in Creators /\ graphOK[t] /\ memory[p] = "free"
    /\ memory' = [memory EXCEPT ![p] = "live"]
    /\ Owned(t, "compiler", p) \/ NotOwned(t, "compiler", p)
    /\ UNCHANGED <<graphOK, busy, scopeVars, proxyVars, ops>>

AllocCustom(t, p) ==
    /\ MayAllocate(t) /\ custom[t] /\ ~compiler[t] /\ memory[p] = "free"
    /\ memory' = [memory EXCEPT ![p] = "custom"]
    /\ Owned(t, "custom", p) \/ NotOwned(t, "custom", p)
    /\ UNCHANGED <<graphOK, busy, scopeVars, proxyVars, ops>>

\* Outside of a scope, or in a compiler scope on a queue that it excludes.
AllocNative(t, p) ==
    /\ MayAllocate(t) /\ memory[p] = "free"
    /\ IF compiler[t] THEN ~terminal ELSE ~custom[t]
    /\ memory' = [memory EXCEPT ![p] = "native"]
    /\ Owned(t, "native", p)
    /\ UNCHANGED <<graphOK, busy, scopeVars, proxyVars, ops>>

\* raw_alloc is refused in a custom scope; it has no owner.
AllocRaw(t, p) ==
    /\ MayAllocate(t) /\ ~custom[t] /\ memory[p] = "free"
    /\ memory' = [memory EXCEPT ![p] = "raw"]
    /\ UNCHANGED <<graphOK, busy, ownerVars, scopeVars, proxyVars, flowVars, ops, faults>>

DeleteRaw(t, p) ==
    /\ MayCall(t) /\ memory[p] = "raw"
    /\ memory' = [memory EXCEPT ![p] = "free"]
    /\ UNCHANGED <<graphOK, busy, ownerVars, scopeVars, proxyVars, flowVars, ops, faults>>

-----------------------------------------------------------------------------
(* The application uses what it holds.                                      *)

\* recordStream; the queue of the allocation is waited for in any case.
RecordStream(t, p, q) ==
    /\ MayCall(t) /\ p \in DOMAIN owners /\ owner[owners[p]].kind # "native"
    /\ owner' = [owner EXCEPT ![owners[p]].consumers = @ \cup {q}]
    /\ UNCHANGED <<graphVars, owners, deferred, scopeVars, proxyVars, flowVars, ops, faults>>

\* Work is submitted on the queue of the allocation or a recorded one.
Submit(p, q) ==
    /\ ops < MaxOps
    /\ p \in DOMAIN owners /\ owner[owners[p]].kind # "native"
    /\ q \in owner[owners[p]].consumers \cup {Queue}
    /\ busy' = [busy EXCEPT ![p] = @ \cup {q}]
    /\ ops' = ops + 1
    /\ UNCHANGED <<memory, graphOK, ownerVars, scopeVars, proxyVars, flowVars, faults>>

Finish(p, q) ==
    /\ q \in busy[p]
    /\ busy' = [busy EXCEPT ![p] = @ \ {q}]
    /\ UNCHANGED <<memory, graphOK, ownerVars, scopeVars, proxyVars, flowVars, ops, faults>>

-----------------------------------------------------------------------------
(* The malloc graph of a thread.                                            *)

\* The end of a scope, and the end of the outermost one.  A graph that failed
\* is aborted, which collects and hands over everything as well.
CollectScope(t, p) ==
    /\ MayCall(t) /\ memory[p] \in {"live", "outside"}
    /\ \E n \in DOMAIN owner :
           /\ owner[n].ptr = p /\ owner[n].creator = t
           /\ \A m \in DOMAIN owner : m > n => owner[m].ptr # p
    /\ memory' = [memory EXCEPT ![p] = IF @ = "live" THEN "candidate" ELSE "freed"]
    /\ UNCHANGED <<graphOK, busy, ownerVars, scopeVars, proxyVars, flowVars, ops, faults>>

\* The device is synchronized before, and again if memory is freed.
HandOff(t, p) ==
    /\ MayCall(t) /\ t \in Creators
    /\ memory[p] \in {"candidate", "freed"} /\ busy[p] = {}
    /\ memory' = [memory EXCEPT ![p] = IF @ = "freed" THEN "free" ELSE "rogue"]
    /\ UNCHANGED <<graphOK, busy, ownerVars, scopeVars, proxyVars, flowVars, ops, faults>>

GraphFails(t) ==
    /\ MayCall(t) /\ graphOK[t] /\ Fault
    /\ graphOK' = [graphOK EXCEPT ![t] = FALSE]
    /\ UNCHANGED <<memory, busy, ownerVars, scopeVars, proxyVars, flowVars, ops>>

\* free_rogue knows the pointer.
Known(p) == memory[p] \in {"candidate", "freed", "rogue"}

\* free_rogue: a candidate is marked, a rogue is freed (MallocGraph, Rogues).
FreeRogue(p) ==
    memory' = [memory EXCEPT ![p] = IF @ = "rogue" THEN "free" ELSE "freed"]

-----------------------------------------------------------------------------
(* Deletion.                                                                *)

Goto(t, where)   == pc' = [pc EXCEPT ![t] = where] /\ UNCHANGED current
Leave(t)        == pc' = [pc EXCEPT ![t] = "idle"] /\ current' = [current EXCEPT ![t] = NoOwner]
Mine(t)          == owner[current[t]]
Foreign(t)       == Mine(t).kind = "compiler" /\ Mine(t).creator # t

\* proxy_delete: the owner leaves the table first.  Whoever deletes holds the
\* last reference to the tensor.  Only a compiler owner of another thread is
\* looked at before its destructor runs.
Delete(t, p) ==
    /\ MayCall(t) /\ p \in DOMAIN owners
    /\ LET foreign == owner[owners[p]].kind = "compiler" /\ owner[owners[p]].creator # t IN
       IF foreign /\ terminal THEN UNCHANGED flowVars
       ELSE /\ pc' = [pc EXCEPT ![t] = IF foreign THEN "fence" ELSE "wait"]
            /\ current' = [current EXCEPT ![t] = owners[p]]
    /\ owners' = Drop(owners, p)
    /\ UNCHANGED <<graphVars, owner, deferred, scopeVars, proxyVars, ops, faults>>

\* Mutant of WaitFor: only the queue of the allocation is waited for.
WaitFor_OwnQueue(o) == {Queue}

\* The queues wait_consumers submits a barrier to.
WaitFor(o) == o.consumers \cup {Queue}

\* wait_consumers, called by proxy_delete ("fence") or by ~Owner ("wait").
Wait(t) ==
    /\ pc[t] \in {"fence", "wait"}
    /\ Mine(t).kind = "native" \/ Mine(t).fenced
       \/ busy[Mine(t).ptr] \cap WaitFor(Mine(t)) = {}
    /\ owner' = [owner EXCEPT ![current[t]].fenced = @ \/ Mine(t).kind # "native"]
    /\ Goto(t, IF pc[t] = "fence" THEN "hand" ELSE "destroy")
    /\ UNCHANGED <<graphVars, owners, deferred, scopeVars, proxyVars, ops, faults>>

\* The Owner is destroyed: what remains of it is whether its bytes count.
Destroyed(t, counted) ==
    owner' = [owner EXCEPT ![current[t]].consumers = {}, ![current[t]].fenced = FALSE,
                           ![current[t]].live = counted]

\* What cannot be freed is kept for ever.
Failed(t) ==
    /\ terminal' = (terminal \/ Mine(t).kind = "compiler")
    /\ customFailed' = (customFailed \/ Mine(t).kind = "custom")
    /\ Destroyed(t, Mine(t).live)
    /\ Leave(t)
    /\ UNCHANGED <<owners, deferred, alive, busy, scopeVars, ops>>

WaitFails(t) ==
    /\ pc[t] \in {"fence", "wait"} /\ Mine(t).kind # "native" /\ ~Mine(t).fenced
    /\ Fault
    /\ Failed(t)
    /\ UNCHANGED <<memory, graphOK>>

\* The memory is given back and no longer accounted for.
GivenBack(t) ==
    /\ Destroyed(t, FALSE)
    /\ Leave(t)
    /\ UNCHANGED <<owners, deferred, busy, scopeVars, proxyVars, ops, faults>>

\* ~Owner of native and custom memory.
Release(t) ==
    /\ pc[t] = "destroy" /\ Mine(t).kind # "compiler"
    /\ memory' = [memory EXCEPT ![Mine(t).ptr] = "free"]
    /\ GivenBack(t)
    /\ UNCHANGED graphOK

\* proxy_delete on another thread, and ~Owner: any thread may free a rogue.
ReleaseRogue(t) ==
    /\ pc[t] \in {"hand", "destroy"} /\ Mine(t).kind = "compiler" /\ Known(Mine(t).ptr)
    /\ FreeRogue(Mine(t).ptr)
    /\ GivenBack(t)
    /\ UNCHANGED graphOK

\* ~Owner on the thread of the graph: malloc_graph_free_owned, which fails the
\* graph if the allocation belongs to another scope.
ReleaseOwned(t) ==
    /\ pc[t] = "destroy" /\ Mine(t).kind = "compiler" /\ ~Foreign(t)
    /\ memory[Mine(t).ptr] = "live" /\ graphOK[t]
    /\ \/ memory' = [memory EXCEPT ![Mine(t).ptr] = "free"] /\ UNCHANGED graphOK
       \/ /\ memory' = [memory EXCEPT ![Mine(t).ptr] = "outside"]
          /\ graphOK' = [graphOK EXCEPT ![t] = FALSE]
    /\ GivenBack(t)

\* The graph of this thread does not handle the pointer, or a call fails on
\* the way.
ReleaseFails(t) ==
    /\ pc[t] \in {"hand", "destroy"} /\ Mine(t).kind = "compiler"
    /\ \/ /\ pc[t] = "destroy" /\ ~Known(Mine(t).ptr)
          /\ ~(~Foreign(t) /\ graphOK[t])
          /\ UNCHANGED faults
       \/ Fault
    /\ Failed(t)
    /\ UNCHANGED <<memory, graphOK>>

\* Mutant of Defer: a thread that is gone is not noticed.
Defer_Unchecked(t) ==
    /\ pc[t] = "hand" /\ ~Known(Mine(t).ptr)
    /\ deferred' = [deferred EXCEPT ![Mine(t).creator] = Append(@, current[t])]
    /\ Leave(t)
    /\ UNCHANGED <<graphVars, owner, owners, scopeVars, proxyVars, ops, faults>>

\* Mutant of Defer: the free is queued for the thread that deletes.
Defer_OwnThread(t) ==
    /\ pc[t] = "hand" /\ ~Known(Mine(t).ptr)
    /\ deferred' = [deferred EXCEPT ![t] = Append(@, current[t])]
    /\ Goto(t, "deferred")
    /\ UNCHANGED <<graphVars, owner, owners, scopeVars, proxyVars, ops, faults>>

\* Neither a rogue nor a candidate: the creator frees it later.
Defer(t) ==
    /\ pc[t] = "hand" /\ ~Known(Mine(t).ptr)
    /\ deferred' = [deferred EXCEPT ![Mine(t).creator] = Append(@, current[t])]
    /\ Goto(t, "deferred")
    /\ UNCHANGED <<graphVars, owner, owners, scopeVars, proxyVars, ops, faults>>

Checking(n)  == {u \in TorchThreads : pc[u] = "deferred" /\ current[u] = n}
Queued(n)    == \E t \in TorchThreads : \E i \in DOMAIN deferred[t] : deferred[t][i] = n

\* Only then it is checked that the creator is still there, and only after
\* that the reference of this thread goes.  If the creator has drained the
\* owner by then this is the last one, and ~Owner runs here.
CheckCreator(t) ==
    /\ pc[t] = "deferred"
    /\ terminal' = (terminal \/ ~alive[Mine(t).creator])
    /\ IF Queued(current[t]) THEN Leave(t) ELSE Goto(t, "wait")
    /\ UNCHANGED <<graphVars, ownerVars, scopeVars, alive, customFailed, ops, faults>>

\* The reference of the queue goes, and ~Owner runs if it was the last.
LastReference(t, n) ==
    IF Checking(n) = {}
    THEN /\ pc' = [pc EXCEPT ![t] = "wait"]
         /\ current' = [current EXCEPT ![t] = n]
    ELSE UNCHANGED flowVars

\* Mutant of Drain: the owner stays in the queue.
Drain_KeepsOwner(t) ==
    /\ MayCall(t) /\ ~terminal /\ deferred[t] # <<>>
    /\ LastReference(t, Head(deferred[t]))
    /\ UNCHANGED <<graphVars, owner, owners, deferred, scopeVars, proxyVars, ops, faults>>

\* One round of drain_deferred_frees.
Drain(t) ==
    /\ MayCall(t) /\ ~terminal /\ deferred[t] # <<>>
    /\ deferred' = [deferred EXCEPT ![t] = Tail(@)]
    /\ LastReference(t, Head(deferred[t]))
    /\ UNCHANGED <<graphVars, owner, owners, scopeVars, proxyVars, ops, faults>>

\* ThreadExitGuard: first the thread is gone, then it looks for frees that
\* were deferred to it.
Exit(t) ==
    /\ MayCall(t) /\ t \in Creators /\ ~custom[t] /\ ~compiler[t] /\ transition # t
    /\ alive' = [alive EXCEPT ![t] = FALSE]
    /\ Goto(t, "exit")
    /\ UNCHANGED <<graphVars, ownerVars, scopeVars, terminal, customFailed, ops, faults>>

ExitCheck(t) ==
    /\ pc[t] = "exit"
    /\ terminal' = (terminal \/ deferred[t] # <<>>)
    /\ Leave(t)
    /\ UNCHANGED <<graphVars, ownerVars, scopeVars, alive, customFailed, ops, faults>>

-----------------------------------------------------------------------------
(* Scopes and transitions.                                                  *)

ScopeBegin(t) ==
    /\ MayChange(t) /\ ~custom[t]
    /\ custom' = [custom EXCEPT ![t] = TRUE]
    /\ UNCHANGED <<graphVars, ownerVars, compiler, transition, proxyVars, flowVars, ops, faults>>

ScopeEnd(t) ==
    /\ MayChange(t) /\ custom[t]
    /\ custom' = [custom EXCEPT ![t] = FALSE]
    /\ UNCHANGED <<graphVars, ownerVars, compiler, transition, proxyVars, flowVars, ops, faults>>

CompilerBegin(t) ==
    /\ MayChange(t) /\ t \in Creators /\ ~custom[t] /\ ~compiler[t] /\ ~terminal
    /\ compiler' = [compiler EXCEPT ![t] = TRUE]
    /\ UNCHANGED <<graphVars, ownerVars, custom, transition, proxyVars, flowVars, ops, faults>>

CompilerEnd(t) ==
    /\ MayChange(t) /\ compiler[t]
    /\ compiler' = [compiler EXCEPT ![t] = FALSE]
    /\ UNCHANGED <<graphVars, ownerVars, custom, transition, proxyVars, flowVars, ops, faults>>

\* allocation_owners_clear reads the counters first and the tables afterwards,
\* while other threads go on deleting.
CountersClear ==
    /\ \A t \in TorchThreads : ~custom[t] /\ ~compiler[t]
    /\ ~terminal /\ ~customFailed
    /\ \A n \in DOMAIN owner : ~owner[n].live
    /\ \A p \in Pointers : memory[p] # "raw"
TablesClear == owners = <<>> /\ \A t \in TorchThreads : deferred[t] = <<>>

TransitionBegin(t) ==
    /\ MayChange(t) /\ CountersClear
    /\ Goto(t, "locked")
    /\ UNCHANGED <<graphVars, ownerVars, scopeVars, proxyVars, ops, faults>>

TransitionEnter(t) ==
    /\ pc[t] = "locked"
    /\ transition' = IF TablesClear THEN t ELSE NoThread
    /\ Leave(t)
    /\ UNCHANGED <<graphVars, ownerVars, custom, compiler, proxyVars, ops, faults>>

TransitionEnd(t) ==
    /\ MayCall(t) /\ transition = t
    /\ transition' = NoThread
    /\ UNCHANGED <<graphVars, ownerVars, custom, compiler, proxyVars, flowVars, ops, faults>>

-----------------------------------------------------------------------------
NativeNext ==
    \/ \E t \in TorchThreads :
        \/ \E p \in Pointers :
              \/ AllocCompiler(t, p) \/ AllocCustom(t, p) \/ AllocNative(t, p)
              \/ AllocRaw(t, p) \/ DeleteRaw(t, p) \/ Delete(t, p)
              \/ CollectScope(t, p) \/ HandOff(t, p)
              \/ \E q \in UseQueues \ {Queue} : RecordStream(t, p, q)
        \/ Wait(t) \/ WaitFails(t) \/ Release(t) \/ ReleaseRogue(t) \/ ReleaseOwned(t)
        \/ ReleaseFails(t) \/ Defer(t) \/ CheckCreator(t) \/ Drain(t)
        \/ ScopeBegin(t) \/ ScopeEnd(t) \/ CompilerBegin(t) \/ CompilerEnd(t)
        \/ TransitionBegin(t) \/ TransitionEnter(t) \/ TransitionEnd(t)
        \/ Exit(t) \/ ExitCheck(t)
    \/ \E t \in Creators : GraphFails(t)
    \/ \E p \in Pointers, q \in UseQueues : Submit(p, q) \/ Finish(p, q)

NativeSpec == NativeInit /\ [][NativeNext]_nativeVars

-----------------------------------------------------------------------------
(* Properties.                                                              *)

OwnerRecords ==
    [kind : {"native", "custom", "compiler"}, ptr : Pointers, creator : TorchThreads,
     consumers : SUBSET UseQueues, fenced : BOOLEAN, live : BOOLEAN]

NativeTypeOK ==
    /\ memory \in [Pointers -> {"free", "native", "custom", "raw"} \cup GraphStates]
    /\ graphOK \in [Creators -> BOOLEAN]
    /\ busy \in [Pointers -> SUBSET UseQueues]
    /\ owner \in Seq(OwnerRecords) /\ Len(owner) <= MaxOwners
    /\ DOMAIN owners \subseteq Pointers
    /\ \A p \in DOMAIN owners : owners[p] \in DOMAIN owner
    /\ \A t \in TorchThreads : \A i \in DOMAIN deferred[t] :
           /\ deferred[t][i] \in DOMAIN owner
           /\ owner[deferred[t][i]].kind = "compiler" /\ owner[deferred[t][i]].creator = t
    /\ transition \in TorchThreads \cup {NoThread}
    /\ \A t \in TorchThreads : current[t] \in DOMAIN owner \cup {NoOwner}

\* Memory goes back only when no queue the application told the proxy about
\* still works on it, on whatever thread and however late it is freed.
FreedMemoryIsIdle == \A p \in Pointers : memory[p] = "free" => busy[p] = {}

\* An allocation that is not free has exactly one owner that can still free
\* it: in the table, in a deletion, or deferred.  Otherwise the process is
\* terminal, or the graph itself frees it at the next handoff.  A free that is
\* deferred to a thread that is gone never runs: whichever of the two comes
\* last, the exit or the deferral, makes the process terminal.
Holders(p) ==
    {n \in DOMAIN owner : owner[n].ptr = p /\
        \/ p \in DOMAIN owners /\ owners[p] = n
        \/ \E t \in TorchThreads : current[t] = n
        \/ Queued(n)}
Stranded(t) ==
    /\ ~alive[t] /\ pc[t] = "idle" /\ deferred[t] # <<>>
    /\ \A u \in TorchThreads : pc[u] # "deferred"
MemoryHasOneOwner ==
    /\ \A p \in Pointers :
        /\ Cardinality(Holders(p)) <= 1
        /\ memory[p] = "free" => Holders(p) = {}
        /\ memory[p] \in {"native", "custom", "live", "candidate", "rogue"} =>
               Holders(p) # {} \/ terminal \/ customFailed
    /\ \A t \in TorchThreads :
        /\ \A i, j \in DOMAIN deferred[t] : deferred[t][i] = deferred[t][j] => i = j
        /\ Stranded(t) => terminal

\* A transition of the hooks finds no memory of the proxy in use and no scope
\* open, and nobody can allocate before it ends.
TransitionIsQuiescent ==
    transition # NoThread =>
        /\ \A p \in Pointers : memory[p] \notin {"custom", "raw", "live", "candidate", "rogue"}
        /\ \A t \in TorchThreads : ~custom[t] /\ ~compiler[t] /\ deferred[t] = <<>>

\* The native free of a compiler allocation runs on the thread of its graph.
FreesRunOnTheirThread == \A t \in TorchThreads : pc[t] = "destroy" => ~Foreign(t)
=============================================================================
