# A TLA+ model of comfy-aimdo (XPU)

comfy-aimdo lets a PyTorch application keep more model weights than the device has
memory. Weights live in *VBARs*, ranges of device address space whose 32 MiB pages get
physical memory when they are faulted in and lose it under pressure. On Intel GPUs
(XPU) under Windows there is no safe point where everything stops: pages are reclaimed
by whichever thread needs memory, while operators that read other pages, or the same
ones, are still queued on the GPU. This project models that core: which page may lose
its memory when, how the library knows that the GPU is done with it, and what is left
behind when the driver refuses a call half way. Beside it stand the path on which
weights come from a file (a pool of threads that reads, the ring of staging windows that
the device copies from, the host buffer they live in), the owner of device virtual memory
with the growing device buffer on it, and the malloc graph, which replays traces of
allocations onto shared pages, with the allocator proxy that several threads reach it
through. The last parts are the block cache behind PyTorch's allocator, the owners of
driver copies that name a VBAR, and the hook on device memory of the Linux build.

Paths are relative to the repository, lines are those of the modelled commit.

## 1. Inventory

| Component | State | Operations | Talks to | Hard because | Correct when |
|---|---|---|---|---|---|
| VBAR page table, `src/model-vbar.c` (Windows XPU build) | per page: handle, mapping, pins, holds, serial, eviction generation, retirement tokens; per VBAR: watermark, limit, copy holds, closing; priority list; `total_vram_usage` | fault, unpin, register consumer, consumer acquire / release, copy acquire / release, prioritize, limits, watermark, free_memory, reclaim, free | retirement registry (tokens, snapshots), driver (VMM calls, synchronize), budget, copy hooks | two-phase eviction without a lock in between; a fault that reclaims on its way; driver calls that fail in the middle | no work in flight loses its memory; pins are exact; accounting is exact; a known signature means known contents; calls return |
| Queue retirement, `src-xpu/dispatch.cpp` | a table of queues with incarnation, open and retired generation, pending uses, fences | note queue, token, snapshot, reset; `xpu_set_queues`, init, cleanup | SYCL queues and events, page table | tokens race with barriers; slots are reused after a reset; barriers and event queries fail | a completed token covers only finished work; tokens do retire |
| Torch block cache, `src-xpu/dispatch.cpp:1205-1455` | live and cached blocks, byte counters | allocate, free, empty cache, raw segments | Torch, SYCL events | reuse by another queue; release deferred until an event | a block is never handed out while used |
| Host and reader buffers, events, copies, `src-xpu/dispatch.cpp:548-1200` | host allocations, reader events | alloc / free / register host, memcpy, record reader event | file reader | cleanup with copies outstanding | host memory outlives the copies out of it |
| Virtual memory manager, `src-xpu/vmm-manager.h` | reservations, physical handles, mappings with cleanup spans | reserve, free, create, map, access, unmap, destroy | Level Zero | partial unmap, retried with the same span; sub-ranges; devices of one context share addresses | never maps over, frees under, or loses track of a mapping |
| Shared pages, `src/vmm-ref.c` | references to physical pages with the address each is mapped at, references to reserved ranges | alloc, ref, unref | driver, malloc graph | the last reference of an address unmaps it, the last of all releases; both may fail | memory is mapped only where a reference says so, released once, after that |
| Malloc graph, `src/malloc-graph.c`, `src/malloc-rogue.c` | event tree with snapshots, stack of scopes, virtual to physical pages, black holes, candidates, rogues | push, pop, alloc, free, note excluded, abort, destroy; free_rogue from any thread; (pause, set_stream) | native owner, shared pages | replay gives addresses without looking; divergence rebuilds the state; memory that outlives its scope; other threads free it during the handoff | two live allocations never share memory, and memory in use never changes under its user |
| VRAM buffer, `src/vrambuf.c` | base, size, handles of the chunks | create, grow, destroy | VMM | growth fails half way and is undone; the undo fails | what grow gave is mapped; destroy unmaps exactly those ranges |
| Host buffer, `src/hostbuf*.c` | size, committed, last chunk, prewarm job, decommit queue | allocate, extend, reallocate, truncate, free | prewarm threads, decommit worker, transfer pool | asynchronous decommit and prewarm against growth; bounded queue; partial failure | memory of chunks is committed and touched, nobody writes zeros into it, all of it comes back |
| File reader, `src/hostbuf-file-reader.c` | staging slots with offset, stream, event | read, write, cleanup | transfer pool, reader events | slot reuse against copies in flight | no window is overwritten before its copy has finished |
| Transfer pool, `src/xfer-file.c` | bounded task queue, waits on callers' stacks | transfer, worker, init, cleanup | host buffer, file reader | two condition variables with single signals; stop | every transfer returns, with all its chunks done |
| Budget, `src/control.c`, `src-win/shmem-detect.c` | cached budget samples | deficit, force poll | DXGI, page table | samples are stale | a deficit is only advice |
| Copy residency, `src-xpu/ur-copy-residency.c` | list of copies in flight | tracked copy, poll | UR hooks, page table | published after submission; failed submission | holds are released once and only after the copy |
| USM hook (Linux), `src-xpu/ur-usm-hook.cpp` | ledger of addresses, generation, retry per thread, cache hint and budget per device | alloc, free, enable, disable, retire | driver, budget, PyTorch | flags read without the mutex; memory outlives its context; a refusal that must not be repeated | the budget is charged with exactly what the ledger says; a flush of PyTorch is answered |
| Other hooks, `src-xpu/ur-usm-detour.c`, `ze-*.c*` | original entry points | alloc / free detours | budget, page table | re-entrancy | pressure is only recorded, never acted on |
| Native owner, `src-xpu/native-owner-proxy.cpp` | owner per pointer, deferred frees per thread, scopes, lifecycle lock, terminal flag | allocate (4 kinds), delete, record stream, drain, scopes, transition, thread exit | Torch, malloc graph | deletion on any thread, racing with drain, exit and transition; barriers fail | memory goes back idle, on a thread that may free it, by one owner; else the process is terminal |
| Python, `comfy_aimdo/*.py` | leases, signatures | fault, unpin with the consumer's queue | all | exceptions give queue 0 | names the queue that used the page |

Not worth a model: CUDA / HIP dispatch, stubs, platform wrappers, file mapping, disk
ids, packaging (see *Not modelled*). `PROJECT.json` lists every component with its status, and the hazards of
the code at their lines.

## 2. Modules

    RetireContract      what the page table relies on: a frontier per queue that
         ^              never runs ahead of the device
         | refined by
    RetireQueues        the registry: slots, incarnations, generations, fences, reset
         ^
    RetireQueuesProofs  theorems about RetireQueues
    MCRetireQueues      instances for TLC

    VbarMapping         one page; outcomes of the driver sequences
         ^
    VbarPages           the page table, its callers and the device
         ^                    ^
    VbarProofs          MCVbarPages, MCVbarCalls: instances for TLC
         ^
    VbarWorkProofs      the first proves what holds of pages and pins, the second that
                        submitted work keeps its memory, that memory in use is counted,
                        that leased pages hold their contents, and the types

    TransferPool        callers, threads and ring of the file transfer pool
         ^ extended by
    FileReader          the staging windows, composed with the pool and the device
    TransferProofs      theorems about both

    VmmManager          the owner of device virtual memory, and the driver below it
         ^ extended by
    VramBuffer          the device buffer, next to any other user of the manager
    HostBuffer          the host buffer, its prewarm threads and decommit worker
         ^
    BufferProofs        theorems about all three

    TorchBlocks         the block cache of PyTorch's allocator, and its queues
    CopyResidency       the hooked copies, their owners and the polls

    MCBuffers           TransferPool, HostBuffer, VramBuffer, TorchBlocks and
         ^              CopyResidency for TLC, side by side
    DispatchProofs      theorems about TorchBlocks and CopyResidency, and about
                        the parts side by side

    SharedPages         operators: references to physical pages
         ^
    Rogues              memory that outlived its scope, freed by any thread
         ^
    MallocGraph         the traces, their replay and their placement
         ^
    MCMallocGraph       instances for TLC

    NativeOwner         the allocator proxy of the graph, several threads
    UsmHook             the hook on device USM, its ledger and its contexts
         ^
    MCUsmHook           who uses the hook, for TLC

    MCServices          FileReader (with TransferPool), NativeOwner and UsmHook for
         ^              TLC, side by side
    OwnerProofs         theorems about NativeOwner and UsmHook, and about the parts
                        side by side

    LibraryTheorems     facts about sums over finite sets and about sequences, used by
                        VbarWorkProofs, DispatchProofs and OwnerProofs

### RetireContract and RetireQueues

Commands of one queue are numbered in the order of submission. A token of the program
`<slot, incarnation, generation>` is kept in `issued` with the prefix of its queue it
stands for (`upto`: everything submitted when it was taken); `snapshot` is the
`completed[]` array of the latest pressure boundary. `slots`, `count`, `incarnations`
and `accepting` are `g_retire_queues`, `g_retire_queue_count`,
`g_retire_incarnation_counter` and `g_retire_accepting`.

| Action | Code |
|---|---|
| `Register` | `aimdo_xpu_register_consumer_queue`, the lookup of `resolve_queue` |
| `TokenCurrent` | `aimdo_xpu_retire_token_current`, with its poll and its batch |
| `Snapshot` | `aimdo_xpu_retire_snapshot` |
| `ResetBegin`, `ResetCopy`, `ResetWait`, `ResetEnd` | `aimdo_xpu_retire_reset`, which gives the mutex up while it waits |
| `Accept`, `NoteInitial` | the rest of `xpu_set_queues` (one device) |
| `RuntimeInit` | the last line of `aimdo_cuda_runtime_init` |
| `Submit`, `Finish` | the application and the device (external); operators of a queue may finish in any order, a barrier waits for all before it |

A call to the driver that throws is a parameter of the action (`throws`: identifying
or copying the queue; `unanswered`: fences whose query throws; `refused`: slots whose
barrier is refused). Queue identity is by value, as `*retire_queue.queue == *queue` is.

`Contract` maps the registry to `RetireContract`: the frontier of a queue is the
longest prefix that a completed token stands for. `VbarPages` takes exactly that from
it: its `Snapshot` reports any frontier whose commands the device has finished, so every
behaviour of the registry is covered, and tokens there are prefixes, not triples.

### VbarMapping and VbarPages

`page` is the residency map of all VBARs. Two of a page's fields are not in the program:
`content` (does the physical memory hold what the application copied there) and `known`
(the signature the application remembers). A handle is a Boolean: the driver may return
the value of a released handle again, so its value distinguishes nothing. `mapped` is the
code's unmapped / mapped / unknown. `VbarMapping` gives each driver sequence
(`vbar_map_new_page`, `vbar_restore_page_mapping`, `mod1`) as the set of its outcomes,
with the number of driver calls that failed.

Each action is one critical section of `vbar_lock`. What a thread does between two of
them is in `call[t]`: `pc`, the candidates it froze, the frontier it took, the work its
synchronize waits for. A fault holds the lock for several steps (`lock = t`), because it
reclaims in the middle, re-entering its own lock; `Scans` and `Commit` allow that.

| Action | Code |
|---|---|
| `Allocate`, `Prioritize`, `Deprioritize`, `SetLimit` | the functions of those names; `vbars_reset_watermark_limits` is `SetLimit` of all VBARs |
| `Pressure` | `vbars_prepare_allocation`, `vbars_free_retired`, `vbars_free_all_retired`, up to `Snapshot` |
| `SetWatermark`, `FreeMemory` | the functions of those names, then the synchronized scan of their range |
| `Snapshot`, `Freeze`, `Commit` | the asynchronous reclaim (kind `"retired"`) |
| `Freeze`, `Synchronized` / `SynchronizeFails`, `Commit` | the synchronized reclaims (kinds `"reference"`, `"model"`) |
| `Fault`, `EnterFault`, then per page `FaultHit`, `FaultRestore`, `FaultUnknown`, or `FaultMiss` and up to three `FaultMap`, then `ReturnFault` | `vbar_fault` |
| `TakeToken`, then `Register`, `Unpin` or `Release` | consumer registration, unpin and consumer release, whose token is taken before the lock |
| `Acquire`, `CopyAcquire`, `CopyRelease` | consumer holds and copy holds |
| `Free`, `Synchronized`, `CheckFree`, `Synchronized`, `BeginTeardown`, `TeardownPage`, `EndTeardown` | `vbar_free` |
| `Submit`, `Finish` | the application and the device (external) |

Decisions and abstractions:

* `async` is `vbar_async_reclaim_enabled()`: an environment variable read once, hence
  chosen in `Init` and never changed.
* Budget and deferred requests (`budget_deficit`, `vbars_request_reclaim`) are a
  `deficit` that may be anything at every call; only the check against `vram_capacity`
  on the first miss of a fault is computed.
* `vbar_freeze_retired_candidates` uses try-lock, which can fail for an instant at any
  time, so a retired scan may always come back empty (unless the thread owns the lock).
* Two checks of a fault are left out because the lock makes them unreachable: a
  watermark that moved after `EnterFault`. The range check of a fault, which only fails
  for an offset beyond the VBAR, is left out too: faults name pages of the VBAR.
* `vbars_free_all_retired` is `Pressure` with a need no scan can satisfy. Its
  copy poll, and that of every fault, is `CopyRelease`, which may happen at any time.
* The application follows the README: it copies the contents of a page whose returned
  signature it does not know, unpins what it faulted, names in the unpin the one queue
  whose work it has not registered, does not use a VBAR it is freeing, and does not free
  a VBAR while its own fault is on the way. Work whose queue it cannot name
  (`_consumer_queue_ptr` gives 0 after any exception) is `NoQueue`.
* The pageout callback is left out: on Windows VBARs with one are skipped by retired
  scans and the policy document does not qualify writeback there.

### TransferPool and FileReader

`TransferPool` has the ring as a sequence (`tasks`), each thread of the pool (`worker`)
and, for each caller, its latest call with the `XferFileWait` on its stack (`call`). A
thread in `condvar_wait` is at `for_items`, `for_space` or `for_chunks`; a signal makes
any one sleeper run again, which then takes the mutex in its own next step, so others
may be faster. A chunk is in the hands of a thread from `Pop` to `Move`; in between lies
the unlocked file access.

| Action | Code |
|---|---|
| `Begin`, `Enqueue`, `Collect` | `xfer_file_transfer`: its start, one turn of its loop, its wait and return |
| `Pop`, `Move` | `xfer_file_task_pop`; the transfer of the chunk and the count after it |
| `Initialize`, `CreateThread`, `Cleanup`, `Destroy` | `xfer_file_init`, `xfer_file_cleanup` |
| `SpuriousWake` | a `condvar_wait` that returns by itself (external) |

A shutdown happens only when no call is inside: the pool itself does not keep callers
out, `comfy_aimdo/control.py` shuts the library down last.

`FileReader` extends it: the reading thread is a caller of the pool, and a part of a read
is one of its transfers. `slots` are `_hostbuf_file_reader_slots`, with the
`XpuReaderBuffer` of each window (`copies`, `releasing`); `inflight` is what the device
has still to copy, per queue and in order, as asynchronous copies are made on in-order
queues only. An `XpuCopyCompletion` is the number of copies its queue has still to do up
to its own (`ahead`), or the wait for the whole queue (`wait_queue`). A stream pointer may
name another queue at every call, since the wrapper behind it may have been freed and its
address reused; that is why windows remember queues.

| Action | Code |
|---|---|
| `StartTransfer`, `ChangeWindow`, `NextWindow`, `UseWindow`, `FileDone`, `CopySync` / `CopyAsync`, `TransferDone` | `hostbuf_file_transfer` with `hostbuf_file_reader_retire_active`, `hostbuf_file_reader_next`, `xpu_reader_event_record`, `xpu_event_synchronize`, `xpu_memcpy_host_to_device` |
| `StartCleanup`, `CleanupSlot` | `hostbuf_file_reader_cleanup_checked` with `xpu_host_free` |
| `Complete` | the device (external) |

After `NextWindow` the model takes the decision of the loop once more; a fresh
window of the right stream never needs another, so this is the code's fall through.
Abstractions: the copy from the device of a write is complete or failed when it returns
(`wait_and_throw`, then `cuCtxSynchronize`); a synchronous copy leaves nothing behind;
other callers of the pool are in `TransferPool` and not repeated here; one thread per
device uses the ring, as its state has no lock.

### HostBuffer

Sizes are in units of which `PageUnits` make a page. `backed` and `touched` are what the
system gave and what was written to it; `held` is what the caller got from
`hostbuf_extend` and still uses. The owner's call is `pc` with `hcall`; the decommit worker
takes the head of `jobs`, each prewarm thread works off its share `todo`.

| Action | Code |
|---|---|
| `Allocate`, `DestroyBuffer` | `hostbuf_allocate`, the end of `hostbuf_free` |
| `Extend`, `ExtendInPlace`, `ExtendReserve` / `ReserveFails`, `GrowCommit` / `GrowFails`, `GrowEnd` | `hostbuf_extend`, `hostbuf_grow` |
| `Truncate` or `Free`, `BeginDecommit`, `QueuePart` / `QueueFails`, `TruncateEnd` / `ReleaseFails` | `hostbuf_truncate`, `hostbuf_free` |
| `Decommit` | one job of `hostbuf_decommit_worker` |
| `Touch`, `EndWork` | `hostbuf_prewarm_worker` |

Registration of host memory is a no-op on XPU (`dispatch.cpp:789-797`) and left out. The
caller reallocates only the chunk it extended last: `last_chunk_size` survives a
truncation and a failed growth (`hostbuf.c:208`), and a reallocation after either would
give memory away that is still held; nothing in the repository reallocates at all.
A pool of which a thread could not be made hangs the next start for ever
(`hostbuf-prewarm.c:68`): `CallsReturn` exempts exactly that state.

### VmmManager and VramBuffer

`reservations`, `physical`, `mappings` are the lists of the class; `dres`, `dphys`,
`dmap` what the driver holds. A `VmmOwner` is a record of device and context; addresses and
handles mean something within a context only, so the same numbers occur in two of them.
Every operation holds the mutex and is one action; that of `unmap` has the set of mappings
the driver refused as a parameter (`kept`). `Covered` asks for every page where the code
adds up bytes, which is the same while no two mappings overlap (`MappingsAreGrounded`).

| Action | Code |
|---|---|
| `Reserve`, `FreeReserved`, `Create`, `Map`, `Unmap`, `DestroyPhysical` | the methods of `VmmManager` |
| `VramCreate` | `vrambuf_create` |
| `Grow`, then per chunk `CreateChunk`, `MapChunk`, `AccessChunk`, or `UndoMap`, `UndoCreate` | `vrambuf_grow`, `three_stooges` |
| `VramDestroy`, `UnmapNext`, `ReleaseNext`, `EndDestroy` | `vrambuf_destroy` |
| `Client`, `ClientFails` | another owner, which may ask for anything (external) |

`vrambuf_destroy` only logs an unmap, a release or a free that fails and forgets the
buffer; what stays behind is then in the tables of the manager and nowhere else, which is
why `CleanBuffersLeaveNothing` speaks of behaviours without a failure.

### TorchBlocks

A place in device memory (`block`) is free, live, cached or a raw segment; `life` counts
how often it was handed out, so that work of an earlier holder can be told from work of
the present one. `commands` is what each queue has still to do: work on a block, or the
barrier `free_torch_block` records. Queues run their commands in any order, but nothing
passes a barrier. All functions hold one mutex to the end, waits included; each is one
action, enabled once what it waits for has happened.

| Action | Code |
|---|---|
| `AllocHit`, `AllocMiss` | `allocate_torch_block`: a cached block of the exact size, or new memory, with the releases before and after a refusal |
| `FreeBlock` | `free_torch_block`, whose barrier may be refused |
| `EmptyCache` | `xpu_allocator_empty_cache`; also an allocation that released blocks and was refused |
| `RawAlloc`, `RawFree` | `allocate_raw_torch_segment`, `free_raw_torch_segment` |
| `UseBlock`, `FinishCommand` | the application and the device (external) |

The application orders its own work, as PyTorch does: on another queue than that of the
allocation it waits for what that one was given, and when it frees a block no queue but
the named one still works on it. The host allocation for the entry of a hit may fail
(`throws`): by then the block has its new queue and no barrier, and stays cached so;
`forgot`, no field of the program, is the life whose barrier was lost last. Left out: several
devices, peaks and statistics, and the other host allocations that fail while a table is
changed. One of those loses a block: when the table of live blocks cannot grow, the emplace
has moved the block away before it throws, and the next search of the cache meets an empty entry.

### CopyResidency

An owner has a number while it exists and is in one of three places: the call that made it
(`submitting`), the list `pending_copies`, or the private list of a poll (`polling`).
`onDevice` is what became of its command. What a poll finds out about one owner and what it
does with it is one step; other polls and calls come between.

| Action | Code |
|---|---|
| `PrepareCopy`, `AppendCopy`, `FinishCopy` | `tracked_copy`, `tracked_copy_2d`, `tracked_fill`, `tracked_fill_2d`: `prepare_copy`, the original call, `finish_copy` |
| `BeginPoll`, then `ReleaseCopy` or `KeepCopy` for each owner | `aimdo_xpu_copy_residency_poll` |
| `CompleteCopy` | the device (external) |

A call that fails may have appended its command or not, and may leave an event that proves
nothing: only the queue's end does. Events and queues that cannot be asked count as
not complete. Calls that name no VBAR pass through; a copy that names more than two, or one
being closed, is refused without a trace; both are left out.

### SharedPages, Rogues and MallocGraph

`SharedPages` has the state of the driver and of all references as one record and each
function of `vmm-ref.c` as an operator on it; a reference is named by the place that
keeps it. `Rogues` adds the two global lists of `malloc-rogue.c`, with `free_rogue` in the
steps between which it gives up `allocations_lock` (`BeginFree`, `DropPage`, `EndFree`).
`MallocGraph` is the graph and its thread. A call event and its scope are one node of
`tree`; `live` stands for `AllocationState` and the small ranges, from which the spans are
computed. `held` is what the application has. `graph.refused`, no field of the program, is the
pointer of the latest free that the graph answered without recording it.

| Action | Code |
|---|---|
| `Alloc` (`Replay`, `RecordLarge`, `RecordSmall`), `NoteExcluded` | `malloc_graph_alloc`, `malloc_graph_note_excluded_allocation` |
| `Free`, `FreeRogue` | `malloc_graph_free`, preceded by `free_rogue` as the allocators do |
| `PushRoot`, `Push` | `malloc_graph_push` |
| `Pop`, `PopSkipped`; then `Handoff` / `HandoffFails` per candidate and `Finalize` / `FinalizeFails` | `malloc_graph_pop` with `collect_rogue_candidates`, `finalize_rogues` |
| `Abort`, `Handoff`, `AbortEnds` | `malloc_graph_abort` |
| `NoticeFreed` | `graph_failed` |
| `Destroy` | `malloc_graph_destroy` |
| `RogueStep` | other threads inside `free_rogue` |

Left out: pausing, changing the stream, the counters, failing host allocations inside
`handoff_rogue` and `sever_event`; `finalize_rogues` is one step, in which each driver call
may fail (the release of a replaced page, whose result the code ignores, does not).

### NativeOwner

Every `Owner` ever made is in `owner`, by number; `owners` and `deferred` are
`g_owners` and `g_deferred_frees`. A reference of `std::shared_ptr` is where a number
occurs: in the table, in a queue, or in the deletion a thread is in (`current`). Of the
malloc graph only the state of each pointer is kept (`memory`), and `CollectScope`, `HandOff`,
`GraphFails` change it as the actions of `MallocGraph` do. `Delete` to `Drain` are
`proxy_delete`, `~Owner` and `aimdo_full_proxy_drain_deferred_frees`, one step for each
critical section and each wait for the device; the code under `g_lifecycle_mutex` is
atomic but for what takes other locks inside it (`TransitionBegin`, `TransitionEnter`).
Left out: the table of raw memory allocated inside a compiler scope, claims on a pointer
that has an owner, several devices.

### UsmHook

The variables are the globals of `ur-usm-hook.cpp` (`g_enabled`, `g_generation`,
`g_allocations`, `g_retired_live_count`, `g_owned_shutdown`, `g_retry` of each thread) and,
as `usage`, the share of the hook in `total_vram_usage` of each device of the `context`.
`cells` is what the driver gave out, `phase` where `control.py` is, `refused` (not in the
program) what a thread was refused last. A call looks at the flags first and takes the mutex
afterwards, if at all; `usmCall` keeps what it saw.

| Action | Code |
|---|---|
| `AllocCheck`, then `AllocPass`, `AllocUnknown`, `AllocShutdown` or `Alloc` (`Fail`, `Answer`, `Refuse`) | `urUSMDeviceAlloc` with `real_allocate_and_account` |
| `FreeCheck`, then `FreePass` or `Free` | `urUSMFree` |
| `InitDevices`, `CloseContext` | `lib.init`, `lib.cleanup`: the devices and their budgets (`stubs.c`) |
| `Enable`, `EnableFails` (`RollBack`) | `xpu_ur_hook_enable`, `enable_locked` |
| `Disable` | `xpu_ur_hook_disable` |
| `Retire`, `RetireMarks` | `xpu_ur_hook_retire_borrowed`, between the flag it clears and the count it raises |
| `GiveUp` | `control.py`: a failed adoption in a process without a gate |
| `Publish` | `xpu_ur_hook_set_torch_cached_bytes`, with or without a cache |

Left out: how much is evicted and how many bytes a flush returned (whether a request is
short of budget is any answer), every statistic but the duplicates, and the `g_retry` of the
thread that runs `control.py`, which is not a thread that allocates here.

## 3. Properties

Registry: `CompleteTokensAreDone` (a token the comparison accepts covers only finished
work, across resets, reuse of slots, failed barriers and queries), `ForgottenTokensAreDone`
(a reset forgets a token only after its work is finished), `SlotsAreDistinct`,
`ImplementsContract` (refinement of `RetireContract`), `TokensRetire` (liveness), `TypeOK`.

Page table: `WorkIsBacked` (no operator in flight loses a page: the promise of the
library), `PinsAreLeases` (pins are exactly those of leases and of faults on their way,
and an owned page is mapped), `UsageIsCounted` (both counters follow what is owned and
mapped through every failure), `FrozenPagesAreOwned` (each frozen page belongs to exactly
one reclaim), `LeasesHaveContent` (a known signature means the contents are there),
`CopiesKeepMappings` (action property), `EveryCallReturns` (liveness: calls return whatever
fails, and while copies, pins and holds are kept for ever; in particular a reclaim that
frees nothing stops), `TypeOK`.

Transfer pool: `WaitsOutliveTheirTasks` (no thread holds a chunk of a call that has
returned; `pending` is exact), `TransfersAreWhole` (true exactly when every chunk was
moved), `SleepersAreNotNeeded` (single signals suffice: while one sleeps, each task or
free place has somebody awake for it), `TransfersReturn` (liveness, with shutdown),
`TypeOK`.

File reader: `WindowsAreStable` (no part of a window is written while a copy out of it is
to be done), `CopiesAreFenced` (what is still to be copied comes from allocated memory
and is covered by the window's record and, once retired, by its event, whatever failed),
`ReadsReturn` (liveness), `ReaderTypeOK`.

Host buffer: `HeldMemoryIsReady` (chunks in use are committed and touched, through
every truncation, failure and late decommit), `PrewarmIsHarmless` (no zero is written into a
chunk in use, or into memory on its way out), `GoneBuffersAreReturned`, `CallsReturn`
(liveness: a call waits for room in a queue that others empty; it does not return once the
prewarm pool was created only in part, which is the state the property exempts; its run checks it with
`TransfersReturn` as `BufferCallsReturn`), `HostTypeOK`.

Virtual memory: `MappingsAreGrounded` (whatever failed, the lists are what the driver
holds; each mapping has a reservation, physical memory and its addresses), `CleanupsCanBeRepeated`
(an unfinished unmap keeps its span, and repeating it is accepted), `BufferIsMapped` (what
grow gave stays mapped chunk by chunk, and destroy unmaps exactly those ranges: several at
once crash the driver, says the comment in `vrambuf_destroy`), `CleanBuffersLeaveNothing`.

Torch blocks: `BarriersExclude` (unless a failed hit lost its barrier, work on a block never
runs beside, or before, work of a later holder on any queue, and no memory with work to come is
given back: reuse by the same queue relies on the barrier's place in it alone; a lost
barrier exposes the work of its own life and of earlier ones, not that of later ones),
`BlocksAreExclusive` (the same of all work: violated, finding 3), `TorchTypeOK` (with the byte
counters, which are the sums of what the tables hold through every failure).

Copies: `HoldsCoverCopies` (a hold for each call and copy that names a VBAR, no more and
no less; an owner is in one place; no copy runs without its hold), `CopyTypeOK`.

The run of these parts checks their type invariants as one, `PartsTypeOK`, and
`GoneBuffersAreReturned` with `CleanBuffersLeaveNothing` as `GoneBuffersLeaveNothing`.

Malloc graph: `AllocationsAreDisjoint` (the units of physical memory under what the
application holds, as the driver maps them, never overlap: pages are shared on the
strength of what was live together so far), `HeldMemoryIsStable` (action property: handoff,
finalize, abort and destruction remap pages without changing what is under an allocation),
`NothingLeaks` (once the graph is destroyed and the application holds nothing, all memory,
mappings and addresses are back, of allocations freed out of their scope too, before,
during or after their handoff; but of a free that the graph answered while it refused to
record it, one rogue is left with its own pages, which nobody frees), `GraphTypeOK`, `SkippedRootsAreIdle` (violated, finding 4).

Native owner: `FreedMemoryIsIdle` (no memory goes back with work on a recorded queue),
`MemoryHasOneOwner` (exactly one owner can still free it, or the process is terminal; no
deferred free is stranded with an exited thread), `TransitionIsQuiescent`, `NativeTypeOK`,
`FreesRunOnTheirThread` (violated, finding 5).

USM hook: `LedgerIsCounted` (each budget is charged with exactly the entries marked so, and
the count that sends frees to the ledger is that of the retired ones: through retirement,
adoption that fails half way, a second retirement of the same memory and frees that come
late), `RetriesAreAnswered` (a request repeated under the same generation after a refusal reaches the driver, whatever the
thread frees on the way and whoever publishes a new hint), `HookTypeOK`,
`DuplicatesBlameTheDriver` (violated, finding 6). The run checks the type invariants of its
three parts as one, `ServicesTypeOK`.

## 4. Runs and bounds

| Run | Instance | States | Shows |
|---|---|---|---|
| `RetireQueues`, wide | 2 queues, 2 slots, 1 fence, batches of 2, 2 incarnations, 1 generation, 1 operator per queue, 1 failure | 0.3 M with the next | slots are reused after a reset, the refinement with both queues registered, tokens retire |
| `RetireQueues`, long | 1 queue, 1 slot, 2 generations, the rest as above | | generations run out, a full batch waits for a fence slot, tokens retire |
| `VbarSafety` | 2 VBARs of 1 page, 2 threads, room for 1 page, both modes, 1 failure, 1 operator, 1 copy, 5 calls (of which an allocation for each VBAR) | 2.6 M | every interleaving of two callers on one page; competition of VBARs, priority order, teardown, reference mode |
| `VbarFailures` | 1 VBAR of 2 pages, 2 threads; 4 calls with 2 failures, or 3 calls with 1 operator and 1 copy | 0.6 M | each driver sequence failing at each place, faults failing on their second page; every call returning, whatever fails and whatever copies, pins and holds are kept for ever |
| `Buffers`, pool | 2 callers, 2 threads, ring of 2, transfers of up to 3 chunks, 3 calls | 0.1 M | single signals, failing chunks, partial starts, shutdown |
| `Buffers`, host | pages of 2 units, 12 reserved, 4 prewarmed, queue of 4, 2 helpers, sizes 0, 1, 3, 2 failures | 0.3 M | growth, truncation and reallocation against decommit and prewarm; a tail longer than the queue |
| `Buffers`, vram | 5 pages, buffer of 3 in chunks of 2, 3 handles, one other owner (same device and another context, or another device of the context), 1 failure | 0.1 M | a last chunk that is shorter, undone chunks, half-finished unmaps |
| `Buffers`, torch | 2 places, 2 queues of up to 3 commands, sizes 1 and 2 (1 only once a hit has lost a barrier), 3 lives | 0.2 M | reuse by the same and another queue, release at once and after a wait, refused barriers, hits that fail at their entry |
| `Buffers`, copies | 2 VBARs, 1 queue, 2 submitters, 2 pollers, 2 owners | 40 k | polls that overlap, copies that fail after their submission |
| `Services`, reader | 2 windows of 2 chunks, reads and writes of up to 3, 1 stream pointer, 3 queues of which 2 asynchronous, 1 thread | 0.5 M | windows filled, crossed and reused with copies in flight; every call of the driver failing at any time |
| `Services`, proxy | 2 threads, 1 with a graph, 2 pointers, 2 owners, 2 queues, 1 operator, 1 failure | 0.7 M | deletions racing with drains, exits, handoffs and transitions |
| `Services`, hook | a thread of PyTorch and one of another library, 2 devices, 2 addresses, contexts up to the generation 3 | 0.2 M | memory that outlives its context, adopted, refused or retired again; frees and refusals on the way |
| `MallocGraph` | memory for 4 pages, 5 events, 2 scopes, 2 allocations held, 1 rogue being freed, 1 failure | 1.0 M | see below |
| `VbarStale` | 1 thread, 3 calls after the allocation, 2 failures | stops at the violation | finding 1 |
| `VbarCapture` | 2 threads, 2 queues, capture holds, 4 calls after the allocation, 1 failure | stops at the violation | finding 2 |
| `TorchForgotten` | 1 place, 2 queues of up to 2 commands, 1 size, 2 lives | stops at the violation | finding 3 |
| `MallocGraphSkipped` | 5 events, 2 scopes, 2 allocations, no failure | stops at the violation | finding 4 |
| `NativeOwnerStray` | 2 threads, 1 pointer, 1 owner, no failure | stops at the violation | finding 5 |
| `UsmHookDuplicate` | the hook with 1 address | stops at the violation | finding 6 |

Five runs hold several instances. In `RetireQueues` (`MCRetireQueues`) the wide instance takes tokens
of first generations only, and the long one uses one queue. In `VbarSafety` and `VbarFailures` an
allocation is one of the counted calls, so in the former there are four on one VBAR or three on two. In
`VbarFailures` (`MCVbarCalls`, whose `Bounded` is the CONSTRAINT of the run) no driver call fails while a
copy is under way or once an operator was submitted; both together are in `VbarSafety`. The constraint
cuts no step that fairness asks for: of a thread's steps there is always one without a failure. In `MallocGraph` a behaviour is either flat (one
scope, 4 events, with every size, option and failure) or plain (nested scopes, 5 events, one
page each, no failure, always a page of memory left, and the free of a rogue, once begun, not
interleaved; `assert_breaks` is the only option, without nested scopes): both together would
be beyond reach, and what needs a failure needs no nesting. In `Buffers` one of the five
components moves (`part`), in `Services` one of three: they share no state. In the vram
part of `Buffers` there is one other owner (`rival`): what an owner can do to the buffer it
does without a third.

The bounds are constants: `MaxOps`, `MaxFaults`, `MaxCalls`, `MaxCopies`, `MaxNeed` and,
as smaller values of constants of the code, `MaxTracked`, `FenceSlots`, `BatchUses`,
`MaxIncarnation`, `MaxGeneration`, `Batch`, `Capacity`. `MaxBusyCalls` bounds the calls of
behaviours with operators or copies. `MaxBusyGen` bounds the eviction generation of a page there: no
call that returns goes beyond it, and one that freezes the same pages for ever gets there, and then
stays, so that TLC sees it not return. `OneSizeIfForgetful` keeps behaviours of the Torch blocks with a lost barrier to blocks of
one size. They bound how much happens, not
in which order. Why they are enough: a stale candidate needs one thread that froze and
one that faults and unpins (2 threads, 3 calls, a 4th to freeze again); reuse of a slot
needs two incarnations; a failure in a cleanup path needs two failing calls in
one sequence, hence `VbarFailures`; a partial fault needs two pages. A shared page needs two
allocations that are not live together, and a third event where the replay leaves the
trace; a candidate needs a scope that ends before its allocation; a tail of the host
buffer that takes two jobs needs more pages than the queue; a chunk that is undone after
others needs a buffer of two chunks; an owner whose last reference is on the wrong thread needs two
threads and one pointer; memory that is retired, adopted and retired again needs two
contexts, and the generation grows by one with each `enable`, `disable` and retirement. A cached block handed to the wrong queue needs two queues; two
holders of a place that overlap need two lives, and a third for a raw segment or an empty
cache in between; an owner taken twice needs two polls. A lost signal needs two sleepers or two free
places (ring of 2, 2 threads, 2 callers); a transfer that fills the ring needs three
chunks; a window is reused by a transfer longer than the windows after it. The reader's
failures are not bounded, and neither is the number of its calls. `QueueCap`,
`Threads`, `ReaderSlots`, `Window` and `LeadIn` are smaller values of constants of the
code, `MaxChunks` and `MaxSize` bound sizes; `MaxCalls` bounds the calls of the pool,
because a mutex may favour others for ever: a caller that finds the ring full again each
time is starved by callers that never stop. Counted calls are
those that begin something; returning, unpinning and releasing are always allowed, so a
bound never strands a lease. Symmetry of threads (and of VBARs) is used in the
safety runs of the page table only. In `Services` the first pointer that gets an owner
is fixed instead, since pointers are interchangeable. Deadlock is checked in the runs of the registry and the
page table. It is not checked in `Buffers`, `Services` and `MallocGraph`, where the system
really ends: a buffer that is gone, a destroyed graph, exited threads, a terminal process, a
last context; `BufferCallsReturn` and `ReadsReturn` say that pool, host buffer and reader do
not stop before, whatever they wait for.

## 5. Fairness

`RetireQueues!FairSpec`: the device finishes what can finish (a barrier only after what
precedes it), and owners keep reaching pressure boundaries whose driver calls succeed
(every `vbar_fault` passes one, and failures are bounded). Nothing is assumed of resets
or of consumers.

`VbarPages!FairSpec`: a thread inside a call goes on when it can (weak fairness of
`Step(t)`: the operating system schedules it, and the lock is given to a waiter when it
stays free), and the device finishes the work it was given. Callers owe nothing:
an unpin, a release, the end of a copy may never come.

`TransferPool!PoolFairness`: threads that can run do run, the access to the file ends, and a
start or shutdown under way goes on. The start of a transfer, spurious wake-ups and
shutdown are owed by nobody. `FileReader!FairReader` adds that the reading thread runs and
that the device does the copies it was given.

`HostBuffer!HostFairness`: the owner goes on inside a call (a system call returns; that it
fails is owed to nobody, so a call that waits is not rescued by a failure), the decommit worker takes the next job, and each prewarm thread works
on. No call is ever owed. Nothing is assumed in `VramBuffer`, `TorchBlocks`,
`CopyResidency`, `MallocGraph`, `NativeOwner` and `UsmHook`, which have no liveness
properties: their calls are loops over lists that nobody else lengthens, and their waits are
driver calls. `MCRetireQueues`, `MCVbarCalls`, `MCBuffers` and `MCServices` take over the fairness of
their parts, within their bounds.

## 6. Findings

1. `VbarStale`: when the map (or access) of a fresh page fails and its release fails too,
   the page keeps an unfilled handle under the old serial (`src/model-vbar.c:476-495`).
   The next fault maps it and returns the old signature (`:1562-1594`); the
   application, told by `README.md:100-102` to copy only on a changed signature, trusts
   memory nobody filled. Two driver calls must fail in a row; with one the property holds
   (`VbarSafety`).
2. `VbarCapture`: while any capture hold is open on a page, an ordinary consumer whose
   queue is unknown is not marked (`src/model-vbar.c:1810`, `:1989`). When the capture is
   released with its own queue, the page carries only that token and can be reclaimed
   under the other operator. `docs/XPU_PLATFORM_MEMORY_POLICY.md:194` promises reclaim
   "only when unpinned and safe to retire"; its lines 317-320 excuse a capture-time unpin
   because the capture hold prevents reclaim, which lasts only until the release. Without
   capture holds the property holds (`WorkBacked`; the other runs use external holds).
3. `TorchForgotten`: a cache hit overwrites the block's queue and drops its barrier
   (`src-xpu/dispatch.cpp:1275-1276`) before it enters the block in the table of live blocks
   (`:1278`). When that throws because no memory is left for the entry, the hit returns
   nothing (`:1286-1288`) and the block stays cached without its barrier: `empty_cache` gives it
   back without a wait, a later hit hands it to another queue, while work of whoever freed it
   may still run. `docs/XPU_PLATFORM_MEMORY_POLICY.md:216-217` says of cached blocks that "their
   completion state protects reuse". What remains true with such failures is
   `BarriersExclude`: they expose only the work behind the barrier they lost.
4. `MallocGraphSkipped`: `malloc_graph_pop` takes a root for one that "received only
   requests excluded by the owner queue" when it counted an excluded request and its cursor
   is still the root (`src/malloc-graph.c:1336-1340`). Scopes inside a root do not move
   the cursor of the root, so a root that made one excluded request and in its scopes
   recorded allocations is skipped too, and counts as complete, while its candidates are
   neither handed over nor finalized. `packaging/xpu_runtime_provider/README.md:202-205`
   grants this to a root with only excluded requests. The run `MallocGraph` does not reach such a root: it has
   either options or nested scopes (section 4).
5. `NativeOwnerStray`: a thread that deletes another thread's pointer queues the owner for
   its creator and keeps a reference of its own until `src-xpu/native-owner-proxy.cpp:295`.
   When the creator drains in between, the last reference is dropped on the deleting thread,
   `malloc_graph_free_owned` refuses there, and the process becomes terminal.
   `packaging/xpu_runtime_provider/README.md:130-133` promises the free on the
   thread of the graph. That the failure is a stop and not a wrong free is
   `FreedMemoryIsIdle` and `MemoryHasOneOwner`.
6. `UsmHookDuplicate`: `retire_borrowed_locked` clears `g_enabled`
   (`src-xpu/ur-usm-hook.cpp:665`) before it raises `g_retired_live_count` for its first
   entry (`:675`). `urUSMFree` reads both without the mutex (`:527`): in between it finds the
   hook off and nothing retired, frees the memory and leaves the entry, which the next
   context adopts. That context pays for memory that is gone, and when the driver gives the
   address out again the allocation is refused and lost. It takes a thread of another
   library that frees while the context is torn down. The comment at `:322` calls a
   duplicate the sign of "a broken lower-allocation contract";
   `tests/ur_usm_hook_unit.cpp:231` tests the reuse of an address after a retired free.

Seen and not counted as findings: `vram_buffer.py:52` rounds its idea of the allocated size
up to whole chunks where the library stops at the maximal size; the "changed during teardown" stop of `vbar_free`
cannot be reached in the model, and the bump of the eviction generation on cancel is
redundant with the one on freeze.

## 7. Proofs

`RetireQueuesProofs` proves, for every number of queues, slots, fences, operators,
failures and every width of the token fields:

* `TypeCorrect` : `Spec => []TypeOK`
* `CompleteTokensFinished` : `Spec => []CompleteTokensAreDone`
* `ForgottenTokensFinished` : `Spec => []ForgottenTokensAreDone`
* `SlotsDistinct` : `Spec => []SlotsAreDistinct`
* `RegistryImplementsContract` : `Spec => ImplementsContract`

They assume only `RetireAssumption` and what the module says about the device. None of these
properties is inductive. The invariant `IInv` adds why they hold:

* `DeviceOK`: a finished barrier finished everything submitted before it.
* `SlotOK`: a slot has retired fewer generations than it opened; an outstanding fence
  belongs to a closed generation and its barrier is a barrier of the slot's queue. A
  current token names the slot's queue; the prefix of one that is not retired precedes
  the barrier of every outstanding fence of its generation or a later one; the prefix of a
  retired one is finished.
* `TokensOK`: a token has an incarnation the counter has reached, and its prefix was
  submitted.
* `RegistryOK`: incarnations do not exceed the counter, registered slots have one, slots
  beyond the count are empty.
* `SnapshotOK`: the latest snapshot claims no more of a slot than the slot itself does in
  the same incarnation, so what it completes is finished.
* `ForgottenOK`, `ResetOK`: what a reset forgot is finished; while it waits nothing is
  accepted, and as long as every drain succeeded each token of a registered slot is of a
  queue still to be waited for or is finished.

Each action preserves each part in a step of its own; the theorems combine them with
the initial condition.

`SlotsAreDistinct` is inductive beside `IInv`: only `Noted` gives a slot a name, and it does
so for a queue no used slot has, under an incarnation above all of them (`RegistryOK`); a slot
that was counted and then lost to a failed copy is named by no queue; polling, closing a batch
and snapshots rename nothing (`SameNames`); a reset empties the table.

`ImplementsContract` is proved as a refinement of `RetireContract`, whose `frontier` is the
longest prefix a token completed by the latest snapshot stands for. That prefix exists because
no token stands for more than was submitted (`LargestExists`, from the well-founded order of the
numbers), and it is finished because a completed token is covered (`CompleteCovered`, the
argument of `CompleteTokensFinished`). A step of the device changes neither the tokens nor the
snapshot, so it maps to `DeviceStep`; any other step leaves `done` alone and at most submits
barriers, so it maps to `Report`, whatever it did to the frontier. With it the page table's
assumption about its tokens (`VbarPages` is written against this contract) holds for every size of
the registry and not only for the instance of the run.

`BufferProofs` proves of `VramBuffer`, for every set of owners, address space, chunk size, set of
sizes and number of failures, beside any one other owner doing anything at any time:

* `TablesAreSound` : `VramSpec => [](VmmInv /\ VramInv)`
* `MappingsGrounded` : `VramSpec => []MappingsAreGrounded`
* `CleanupsRepeatable` : `VramSpec => []CleanupsCanBeRepeated`
* `BufferMapped` : `VramSpec => []BufferIsMapped`
* `CleanlyGone` : `VramSpec => []CleanBuffersLeaveNothing`

They assume `VmmAssumption` and `VramAssumption` (types of the constants, an owner of the
buffer among the owners) and that the driver gives nobody a range or a handle that is in
use. The tables are sound because of what the manager checks, whoever asks; the buffer
is sound because the manager never confuses it with somebody else. Hence two invariants:

* `VmmInv`: types; reservations of a context do not overlap (`ReservationsAreApart`);
  a handle names one piece of memory of a context (`HandlesAreUnique`); a span waiting for
  its cleanup lies inside a reservation of its owner and around the mapping
  (`SpansAreOwned`); `MappingsAreGrounded`. One lemma per operation of the manager; the
  longest is `UnmapKeeps`, where a repeated unmap meets mappings that kept an older span.
* `VramInv`: the types of the buffer and of its call; a growth never asks for an empty
  range. `BufInv`: what the chunks and the call's position say of the manager's tables.
  Each chunk before the unmapping position is a mapping of exactly its range
  (`ChunkBacked`), the chunk under way has the reservation, the handle or the mapping its
  step needs, and nothing of the buffer lies beyond. One lemma for each step of the
  buffer that changes the tables, and one (`QuietKeeps`) for those that do not; steps of
  others preserve it since `OthersKeepMine`. `Multiples` and `Quotients` are the
  arithmetic of chunks that both rest on.
* `CleanInv`, for `CleanlyGone`: as long as no call of the driver has failed, the buffer's
  reservations, handles and mappings are what its record and the position of its call say and
  nothing else. So every unmap and release of `vrambuf_destroy` is one the manager accepts
  (`ExactUnmaps`: it names exactly one mapping), and the reservation is empty when its turn comes.

and of `HostBuffer`, for every size of pages, reservation and prewarm, every number of helper threads,
length of the decommit queue, set of sizes and number of failures:

* `HostIsInvariant` : `HostSpec => []HostInvariant`
* `HostTyped` : `HostSpec => []HostTypeOK`
* `HeldReady` : `HostSpec => []HeldMemoryIsReady`
* `PrewarmHarmless` : `HostSpec => []PrewarmIsHarmless`
* `GoneReturned` : `HostSpec => []GoneBuffersAreReturned`

They assume `HostBufferAssumption` only (sizes are numbers, a page has a size, the reservation is
whole pages). The property is about `held`, the threads work on `todo`, the worker on `jobs`, and
none of these sees the others, so the invariant has to say what keeps them apart. `Live` is what is
committed for good: all that is committed, or what a truncation that is queuing its tail keeps.

* `WarmOK`: unless memory was dropped, everything up to `Live` is backed, and touched or about to
  be by a thread of the pool (`Coming`); every job of the queue lies behind `Live`, so that a late
  decommit takes nothing that is in use.
* `PoolOK`: what a thread of the pool is still to touch is backed and behind `size`, so that no zero
  lands in a chunk in use. `QueueOK`: while the queue has a job the pool is at rest, which is
  what the drain at the start of a growth and the stop of the pool in a truncation are for; the queue's
  counter is the sum of its jobs.
* `HostCallOK`, `GrowthOK`: what each place of a call goes with; a growth between its commit and
  its end has an empty queue and has committed its tail.
* `SystemOK`: what the system still backs when the buffer has no base belongs to a release that is
  the last job of the queue, so once the queue is empty all of it has come back.

`DispatchProofs` proves of `CopyResidency`, for every number of VBARs, queues, owners, submitting and
polling threads, and whatever fails:

* `HoldsCovered` : `CopySpec => []HoldsCoverCopies`

It assumes `CopyAssumption` only. The invariant `OwnersInv` adds to the property that an
owner something refers to names a VBAR (`OwnersNameVbars`: a new owner is then none of
those), and that one which counts as complete has nothing on the device and is in no
call (`CompleteIsDone`: its release is then harmless). One lemma for each action; the counts
change by `FS_AddElement` and `FS_RemoveElement`.

and of `TorchBlocks`, for every set of places, of queues and of sizes:

* `TorchExclusive` : `TorchSpec => []BarriersExclude`
* `TorchTyped` : `TorchSpec => []TorchTypeOK`

They assume `TorchAssumption`: finitely many places (the byte counters are sums over them), sizes that
are positive numbers, and `NoTorchQueue` is no queue. Neither is inductive. `Tables` says of each place in
which table it is, `Counters` that the counters are the sums; a counter never saturates because what
is subtracted is part of the sum. `OrderOf` is the order of the work on a place. The life it has now
comes after every other. It speaks of the lives after the last one whose barrier a failed hit lost
(`forgot`); such a hit only makes them fewer (`ForgetTables`, `ForgetOrders`, `ForgetCounters`). Work of an earlier life is on the queue the place belongs to, with a barrier
behind it; two works of different lives are on one queue with a barrier in between; a cached place has the
barrier of its own life behind all work on it, and one that is given back has no work
(`FreedOrder`, `ReusedOrder`, `UsedOrder`, `FinishedOrder`). A place cached by another queue is handed out
only when that barrier has run, and with it all the work. `EmptyCache` keeps the other blocks in
their order: `Remaining` is a recursive function, and what it leaves is proved by induction over
its positions (`RemainingIs`).

Of the parts side by side, as `MCBuffers` composes them, it proves, with the assumptions of all of
them:

* `PartsAreComponents` : `MCSpec => Spec /\ HostSpec /\ VramSpec /\ TorchSpec /\ CopySpec`
* `PartsTyped` : `MCSpec => []PartsTypeOK`
* `BuffersLeaveNothing` : `MCSpec => []GoneBuffersLeaveNothing`

A step of the composition is one of one part and leaves the variables of the others alone
(`PartsStep`), so it is a step or a stutter of each; what is proved of a part is then true of the
composition, which is what the run `Buffers` checks.

`VbarProofs` proves, for every number of VBARs, pages, threads and queues, every capacity and
batch size and whatever the driver refuses:

* `PinsLeased` : `Spec => []PinsAreLeases`
* `FrozenOwned` : `Spec => []FrozenPagesAreOwned`
* `CopiesMapped` : `Spec => CopiesKeepMappings`

They assume `VbarAssumption` only; that a process has finitely many threads is part of it,
because a pin count is the size of a set of threads. None of the three is inductive. The
invariant `VbarInv` (theorem `VbarInvariant`) adds

* `TypesOK`: of pages, ranges, candidates, tokens and operators, as far as the others need
  them; `CallsOK`: where a call may be and what it has then. A thread has the lock when its
  fault has entered it or it tears a VBAR down, and only then; a reclaim inside a fault
  remembers where to return; a thread whose fault is on its way has no lease yet.
* `FaultsOK`: a page that a fault has begun to map is still not mapped when the fault comes back
  from a reclaim, so it is pinned once; `TriesOK`: a fault that has not taken the lock yet has
  begun with no page.
* `PinsOK`: `PinsAreLeases`, with the same equation for each kind of hold.
* `FrozenOK`: a frozen page is mapped, in nobody's use, and its generation is that of a
  candidate; no candidate is ahead of its page; two threads never have the same page with the
  same generation; a teardown leaves no frozen page behind it.

A lemma for each function says what it does to a page (`CanceledPage` to `TeardownPages`), and
one for each kind of step what that means for each part. `MappingsStay` then sums it up: a
page keeps its mapping and what is known of its consumers in every step that is not its own
commit or teardown.

`VbarWorkProofs` proves, in the same generality:

* `WorkBacked` : `"capture" \notin HoldKinds => (Spec => []WorkIsBacked)`
* `UsageCounted` : `Spec => []UsageIsCounted`
* `LeasesFilled` : `MaxFaults <= 1 => (Spec => []LeasesHaveContent)`
* `StateTyped` : `Spec => []TypeOK`

The hypothesis of the first is that nobody holds pages for a capture: with such holds the property is
false (finding 2, `VbarCapture`), and the proof needs it in one place (`NoCaptures`, in the unpin
without a known queue). `WorkInv` adds to `VbarInv`

* `Protects`: in the asynchronous mode every page of every operator in flight shows that it is in
  use. A lease or hold of some thread has the page and still remembers the queue; or the
  page carries a token of the queue that is not older than the operator; or the mark of an
  unknown consumer. A token that was taken and not yet recorded is not older either (`Covers`).
* `NamesQueue`: a range is given back with the one queue that still has work from it.
* `SeesFrontier`: what a reclaim has snapshotted is finished. With `Protects` this gives
  `RetiredIsIdle`: a page an asynchronous scan may take has no work in flight.
* `Drains`: of the pages a reclaim has frozen, and that are still frozen by it, each has no work
  in flight but what its synchronize waits for. It stays so because new work comes from ranges,
  and a page of a range is not frozen.
* `Closes`: a VBAR that is being freed is closing, and only a reclaim of its pages may be
  in another call; once `vbar_free` has looked at the pages nobody owns one or will, and
  after its second drain there is no work on them.

Submitting, taking a token and recording it are different steps, so the proof that `Protects`
stays is one lemma per step of the consumer (`SubmitCovers` to `ReleaseProtects`); that a thread
disturbs nobody else is `OthersWork`.

`UsageIsCounted` is `Usage` in another form: `total` and the resident counts are sums over the pages of what a
page owns and maps, 0 or 1. A step on one page moves the sum by what it does to that page
(`OnePageUse`), whichever of the driver's calls failed inside; a commit does so on
a whole range, and the sum of what its outcomes report is the sum of the changes (`CommitUse`).

`LeasesFilled` holds for behaviours with at most one failing call of the driver, as finding 1 says it
must: with two the property is false, and the hypothesis is `MaxFaults <= 1` and nothing weaker.
Its invariant `ContentInv` speaks of every page, leased or not (`Honest`): a signature the application
knows was given out before, a page with a handle is mapped, and when the application knows the
signature of the page as it is now, the contents are there. A lemma for each driver sequence (`ReleasedHonest`, `RestoredHonest`,
`MappedNewHonest`) says that each end of it leaves the page honest, or took two failures; the others
leave the memory alone (`QuietPage`). The lease itself then needs that no page under it loses its handle,
which `VbarProofs` has.

`StateTyped` holds for any number of failures. `TypesInv` adds to `Usage` (so no count goes below 0)
and to the bounds and records of `ContentInv`: the priority list has each VBAR that is listed once and no
other (`OrderOK`, moved by lemmas on what a sequence has after an element is removed or added), for
which a VBAR in `vbar_free` must be closing and have one thread that frees it (`FreesOK`); ranges and the
operators that read them (`RangesTyped`); what calls still need and have frozen (`NeedOK`); and that the table is a function
(`TableIsFunction`). The watermark of `vbar_free_memory` is where a search from above ends
(`SearchEnds`, `FreeMemoryMark`), by the least-element form of induction.

`TransferProofs` proves, for every number of callers and threads, every capacity of the ring and
length of transfer, with wakes nobody asked for, files that fail, starts that fail half way and
shutdowns:

* `PoolTypeCorrect` : `Spec => []TypeOK` (of `TransferPool`)
* `WaitsAreSafe` : `Spec => []WaitsOutliveTheirTasks`
* `ResultsAreWhole` : `Spec => []TransfersAreWhole`
* `SignalsAreNotLost` : `Spec => []SleepersAreNotNeeded`

and for the ring of windows over the pool, for every number and size of windows, of streams and
queues, and whatever fails:

* `ReaderTypeCorrect` : `RSpec => []ReaderTypeOK`
* `WindowsStayStable` : `RSpec => []WindowsAreStable`
* `CopiesStayFenced` : `RSpec => []CopiesAreFenced`
* `ReadsAreWhole` : `RSpec => [](WaitsOutliveTheirTasks /\ TransfersAreWhole)`

They assume `TransferAssumption` (finitely many callers, sizes are numbers, a place in the ring)
and `ReaderAssumption` (a window is at least the lead-in long, `None` is no stream and no
completion). `PoolInv` follows each chunk of a call:

* `TasksAreDistinct`: a task is in one place, in the ring or in the hands of one thread, so the
  sets of a call's chunks in both can be counted.
* `CallsOK`: for each call, `CallOK` of its record and the two sets. Chunks queued are moved, in
  the ring, in hands or have failed; `pending` is the number of those to be queued, in the
  ring and in hands; the call is marked as failed if and only if one of them is in no
  place. A caller that sleeps for space has something to queue; one that has returned has
  nothing anywhere.
* `CallsAreInside`: only a pool that is up has calls.

What a step does to one call is a lemma about its record and two sets (`MovesAlong` to
`ReturnsWhole`); what it does to the sets is in the lemma of its action. `SleepersAreNotNeeded` is
inductive beside `PoolInv`: a put adds a task and wakes a thread if one sleeps, a take removes a
task and a thread and wakes a caller that still has something to queue (`CallsOK`), and a caller
that goes to sleep does so with the ring full.

`RingInv` adds to `PoolInv`, for each copy that a queue has still to do (`CopyOK`): its window is
allocated and filled at least so far; the window's own record covers it, and so does the event
if there is one; there is one unless the window is the active one, and even then once
the reader is about to take the next window or to clean this one up; it ends before the part
the reader is working at. `ReaderOK` ties the reader's place to the active window. `WhyFree` is the
argument that a window is written or freed only when nothing reads it any more: a completion that
has finished covers no copy (`FinishedCoversNone`).

`OwnerProofs` proves of `NativeOwner`, for every number of threads, of threads with a graph, queues, pointers,
allocations and failures:

* `FreedMemoryStaysIdle` : `NativeSpec => []FreedMemoryIsIdle`
* `MemoryKeepsOneOwner` : `NativeSpec => []MemoryHasOneOwner`
* `TransitionsAreQuiescent` : `NativeSpec => []TransitionIsQuiescent`
* `NativeTypeCorrect` : `NativeSpec => []NativeTypeOK`

They assume `NativeAssumption`: the queue of the allocations is a queue, a thread with a graph is a
thread, and `NoOwner` and `NoThread` are neither an owner nor a thread. An owner is `Active` while
something leads to its destructor: the table, the call of a thread, or a queue of deferred frees.
None of the three properties is inductive. `NInv` has, besides the types,

* `WaysAreApart`: an entry of the table names its own pointer and no owner that a call or a queue
  has; two threads have two owners; a deferred owner is in its queue once, and otherwise only in
  the hands of the thread that still has to check whether the creator is there.
  `PointersAreApart`: two active owners have two pointers.
* `OwnersKnow`: of the memory of an active owner, that it is of the owner's kind, that only queues
  the owner would wait for are busy with it, and none if it has waited; that its bytes are counted,
  or the thread that failed to enter it is about to destroy it (so that a transition, which waits
  for that thread, finds it). `CallsStand`: a call past its wait has idle memory, and only a
  compiler owner is looked at before its destructor runs.
* `UnownedIsIdle`, `UsedIsOwned`: memory that is free, native or raw is idle; memory in use has an
  active owner or the proxy has given up.
* `StrandedIsNoticed`: a free deferred to a thread that is gone has somebody who still looks, the
  thread in its exit or the one that deferred it, or the process is terminal. The argument
  (`DeferKeeps`, `CheckCreatorKeeps`, `ExitKeeps`) rests on two orders of the code: the deferral comes
  before the check of the creator, and the end of the thread before its last look.
* `TransitionIsClear`: from the moment the counters were found clear no owner counts and every
  active one is native, although deletions go on: they make no owner active that was not.

Most actions are instances of a few kinds of step, each with a lemma: one no owner notices
(`QuietKeeps`), one more owner (`AddOwnerKeeps`), an owner that goes from one way to another
(`MoveOwnerKeeps`), and the end of an owner (`EndOfOwnerKeeps`).

`OwnerProofs` proves of `UsmHook`, for every number of threads, devices, requests and contexts:

* `RetriesAnswered` : `HookSpec => []RetriesAreAnswered`
* `LedgerCounted` : `HookSpec => [](HookTypeOK /\ LedgerIsCounted)`

They assume `HookAssumption` only. `HookInv` says why: what a thread was refused last it was
refused once, and while the hook that refused it is enabled its `g_retry` still names that
request (`Remembered`). A change of the context keeps this because it raises the generation,
which is part of the request (after a detach and an attach the same size is a new request, and may be
refused again); a free keeps it because it forgets the request only when the
hook is off; a refusal because the same request, remembered, is not refused.

`LedgerCounted` has the invariant `Flags /\ Books`. `Books` adds to the property that only a hook that is on
counts anything, and only entries of devices in its context: a hook that is detached forgets the sums and
the marks together, so that the next one starts from nothing (`EnableKeepsBooks`), and a retirement in two halves never
leaves a mark on an entry of a context that is gone.

Of the parts side by side, as `MCServices` composes them:

* `ServicesAreComponents` : `MCSpec => RSpec /\ NativeSpec /\ HookSpec`
* `ServicesTyped` : `MCSpec => []ServicesTypeOK`

`LibraryTheorems` has the laws the counters rest on, of `SumFunction` of the community modules: the sum over
a set without one element, over two parts, of a function that changes at one place, of zeros and ones.
They are statements about all subsets of a finite set. The induction theorems of the library
take an operator, which none of the provers can instantiate; the module uses their least-element form
on the set of the sizes for which a statement holds, which is a set and no operator
(`SubsetsByInduction`). It also has what a sequence loses with an element.

Only model-checked:

* Liveness (`TokensRetire`, `EveryCallReturns`, `TransfersReturn`, `ReadsReturn`,
  `CallsReturn`): fairness and ENABLED are out of the prover's reach.
* All of `MallocGraph`. Even that memory is mapped only where a reference says so (the first part of
  `GraphTypeOK`, `PagesOK`) rests on the trace: a rogue is given the address its pages are mapped at,
  which is so because its event was looked at in the run of the trace that ends (`Usable`), and
  which events those are is what `Materialized` computes along a path of the tree. That function
  recurs over data: events have no order that it follows, since numbers of severed events are
  used again.

Every other invariant and action property of the passing runs is a theorem. No module declares a
RECURSIVE operator.

## 8. Not modelled

* VBARs on Linux and CUDA: `vbars_free_internal`, `vbars_free_for_vbar` and the pageout
  callback run under one lock with a device synchronize around them, and are compiled out of
  the build that `VbarPages` models.
* The hook on USM under Windows (`ur-usm-detour.c`) and the Level Zero hooks (`ze-*`):
  interception of entry points. What reaches the page table is a request for memory, the
  `deficit` of `VbarPages`. The former has the calls of `UsmHook` without its retirement.
* The pluggable allocators of PyTorch and the CUDA and HIP dispatch: accounting around
  driver calls.
* Operating system layers, file mapping, Python declarations, packaging.
* In `MallocGraph`: pausing, `set_stream`, the counters, host allocations that fail
  inside `handoff_rogue` and `sever_event`, and a failing release of a page that
  `finalize_rogues` replaces (its result is ignored; the page would be lost).
* In `NativeOwner`: raw memory inside a compiler scope, claims on a pointer that has an
  owner, several devices.
* In `TorchBlocks`: several devices, peaks, host allocations that fail inside a change of the
  tables, but for the entry of a hit.
* In `CopyResidency`: installing and removing the hooks, statistics. What a poll that waits
  reports says nothing of owners that another poll holds or that are not published yet;
  its callers (`dispatch.cpp:578` and the removal of the hooks) are not modelled.
* Budgets: samples of DXGI and of the driver, advice only.

## 9. Plan

Done: `RetireContract`, `RetireQueues`, `VbarPages`, `VmmManager`, `VramBuffer`, `TransferPool`,
`HostBuffer`, `FileReader`, `TorchBlocks`, `CopyResidency`, `NativeOwner` and `UsmHook` with proofs;
`VbarMapping`, `SharedPages`, `Rogues`, `MallocGraph`.

Next, in this order:

1. A form of `Materialized` in `MallocGraph` that can be proved about (a rank of the events that
   survives the reuse of their numbers), then that allocations are disjoint.
2. An abstract residency specification (pages come and go, work keeps them) that
   `VbarPages` implements.
3. The synchronous path of the page table; the copy holds of `VbarPages` refined by
   `CopyResidency`; the hook of the Windows build.
