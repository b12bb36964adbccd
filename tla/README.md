# A TLA+ model of Syzygy's runtime

Syzygy is a toolchain that decomposes, instruments, reorders and relinks
Windows binaries, together with the runtime agents that instrumented binaries
load and the services those agents talk to.  Most of it transforms files
sequentially.  What is concurrent, and what this project models, is the runtime
side:

* the *call trace service* (`src/syzygy/trace/service`), which hands shared
  memory buffers to instrumented processes, writes the buffers they return to
  trace files, and has to do so while clients come, go and die;
* the *Asan runtime* (`src/syzygy/agent/asan`): the life of a heap block from its
  allocation through a quarantine back to its heap, and the cache of stack
  traces, in every thread of the instrumented process;
* *Kasko* (`src/syzygy/kasko`), which stores crash reports in a directory that
  several processes share and uploads them in the background.

## 1. Inventory

| part | state | operations | what makes it hard |
|---|---|---|---|
| Session (`session.cc`) | buffers and their states, the counts per state, the list of available buffers, `is_closing_`, the number of waiting requests, a condition variable | get, exchange, return, recycle, close, destroy | several RPC threads, the writer and `Close` interleave at every unlock; back-pressure; large buffers that bypass the pool |
| Trace file writer (`session_trace_file_writer.cc`, `trace_file_writer.cc`) | a message loop with one task per returned buffer, the file | post, map, write, clear, recycle | a step of the chain fails; a buffer is recycled with its old content |
| Service (`service.cc`, `service_rpc_impl.cc`) | `sessions_`, `num_active_sessions_`, RPC state | create, use and close a session, shut down, stop | references held by the map, calls and tasks; the last one may drop on any thread; error paths of `CreateSession` |
| Start and spawn (`service_main.cc`, `service.cc`) | a named mutex, a named event, processes | start, serve, stop, spawn, crash | processes race on names; a one second timeout; an abandoned mutex |
| Trace client (`trace/client`) | mapped segments of each thread | allocate, exchange, return | threads die with a segment in their hands |
| Agent logger (`trace/agent_logger`) | log file, symbol lock | log, dump, stop | the same start and stop shape as the service |
| Quarantines (`agent/asan/quarantines`) | a list and a lock per shard, a size that belongs to no lock | push, pop, empty, change of the maximum | lost updates of the size, which wraps below zero |
| Zebra heap (`zebra_block_heap.cc`, `circular_queue_impl.h`) | a state per slab, two circular queues | allocate, free, push, pop, empty | queues at their limits; no lock to hold between a push and what follows it |
| Heap manager (`block_heap_manager.cc`) | block headers, page protection, the entries of the heaps | allocate, free, trim, create and destroy a heap, set parameters | every call is several critical sections; one quarantine holds the blocks of several heaps |
| Stack capture cache (`stack_capture_cache.cc`) | known stacks, reference counts, reclaimed captures, pages, statistics | save, release | a lock per shard, per list, per page and for the statistics; counts that saturate |
| Report repository (`kasko/report_repository.cc`) | two files per report in four directories, their ages | store, upload, retry, give up, clean up | a failure or a crash between any two file operations; stores race with uploads |
| Upload thread, reporter (`kasko/upload_thread.cc`, `reporter.cc`) | a mutex between processes, a timer, a stop event | start, upload, stop, shut down | an abandoned mutex; a stop that meets an upload |

The rest (block graph, PE, PDB, COFF, assembler, instrument, relink, reorder,
optimize, grinder, simulate and the command line tools) is sequential
transformation of files.  `PROJECT.json` lists every part with the reason why
it is or is not modelled, and the hazards of the concurrent parts at their
source lines.

What correctness means for the call trace service:

* the book-keeping of a session agrees with its buffers, and a buffer has one
  owner at a time;
* what a client returns is written to the file once, and the process ended
  event is last;
* nobody waits for ever, neither a client for a buffer nor `Stop` for a session;
* no pointer to a session dangles, and the count of sessions is exact;
* one process serves an instance id.

For the Asan runtime: no block and no stack capture is lost, handed out twice or
freed twice, a stack trace that is referred to stays what it was, no call spins
for ever however wrong the size of the quarantine has become, and a block's
pages are protected only while it is quarantined.  For Kasko: a stored report is
uploaded or given up after three attempts, one process uploads at a time, files
do not stay for ever, and a shutdown returns, with nothing left that uses what
it destroys.

## 2. Modules

| module | models | source |
|---|---|---|
| `Session` | one session, its RPC threads and the writer thread | `session.cc`, `session_trace_file_writer.cc`, the buffer calls of `service.cc` |
| `TraceLog` | the abstract promise of a session: an accepted segment is appended to the file once | abstract |
| `Service` | the session map, references, the count of sessions, RPC entry points, `Stop` | `service.cc` |
| `Startup` | processes that share an instance id, mutex, event, spawn | `service.cc`, `service_main.cc` |
| `ReportRepository` | the files of the reports, `StoreReport` and `UploadPendingReport` in steps of one file operation | `report_repository.cc` |
| `UploadThread` | mutex, timer and stop event of the upload threads | `upload_thread.cc` |
| `Reporter` | several processes with a repository, an upload thread and an RPC service each, and `Shutdown` | `reporter.cc`, `service_bridge.cc` |
| `ShardedQuarantine` | the quarantine that heaps share | `sharded_quarantine_impl.h`, `size_limited_quarantine*.h` |
| `CircularQueue` | the ring buffer as operators | `circular_queue_impl.h` |
| `ZebraBlockHeap` | the zebra heap, a heap and its own quarantine | `zebra_block_heap.cc` |
| `SlabPool` | the abstract promise of the zebra heap: a first in, first out pool | abstract |
| `BlockHeapManager` | heaps, both quarantines and the threads that use them | `block_heap_manager.cc` |
| `StackCaptureCache` | the cache of stack traces | `stack_capture_cache.cc`, `stack_capture.cc` |
| `SessionProofs`, `SegmentProofs` | lemmas and theorems about `Session` | |
| `ServiceProofs`, `StartupProofs`, `ReporterProofs`, `StackCaptureProofs` | the same for these modules | |
| `HeapMoves`, `HeapProofs` | lemmas and theorems about `ZebraBlockHeap` and `BlockHeapManager` | |
| `MC...` | instances for TLC | |

### Session

A critical section of `Session::lock_` is one action.  `ConditionVariable::Wait`
ends one and its return begins the next, so `GetNextBufferUnlocked` is one pass
of the code's loop, run by `AllocateBuffer`, by `ExchangeBuffer` and again by
`WakeUp`.  A thread at `"wait"` is blocked; `Signal` moves some thread, chosen
freely, to `"woken"`; `SpuriousWakeup` does so without a signal.
`CommitAndExchangeBuffer` releases the lock three times, hence the steps
`FindBuffer`, `ReturnBuffer`, `ConsumeBuffer` and `ExchangeBuffer`.
`Close` holds the lock throughout and is one action: it flushes the buffers in
use in some order and then writes the process ended event.

The record `bufs` holds the state of every buffer (`"none"` before its pool is
allocated, `"deleted"` after), its size, the counts and the list of available
buffers; the session's private methods are operators from one such record to the
next.  Sizes are small numbers, because only three comparisons with them matter:
an ordinary or a large request, a singleton or a pool buffer, and alignment.
The content of a buffer is a record, `Ended`, or `Empty` for a cleared header.

The constant `Failures` says which system calls may fail, and `Serialized`
whether calls to one session are serialised.  The comment at the top of
`session.cc` relies on the RPC runtime for the latter (`SessionHandle` is a
context handle), but `Service::Stop` and the lock in the class do not, so both
settings are checked.

`BufferSize`, `NumIncremental` and `MaxPending` are the service's parameters.
`Buffers` bounds the number of allocations: once every identity is used,
allocation fails, as it does when memory runs out.

### Service

A session is reduced to the references that keep it alive: the map's, those of
`CloseAllOpenSessions`, of calls in progress, and of posted tasks.  The thread
that drops the last one runs `~Session`; lowering the count and signalling are
two more steps, since `RemoveOneActiveSession` signals after the unlock.  The
erasure in `CreateSession` is a step that begins and ends, because it is not
under the lock.  A call for the next buffer may have to wait inside the session: it
is then at `"wait"`, and nothing here says that `FinishWait` ever happens, since
`session_large_wait` shows that it need not.  `MaxTasks` bounds the tasks waiting when a buffer is returned
and `MaxFlush` the buffers outstanding at `Close`.

### Startup

Each process runs `Service::Start` call by call, serves, drains its sessions
(`"drain"`, the part of `Service::Stop` that module `Service` has in detail) and
runs the rest of `Stop` from `ReleaseServiceMutex` on.  Any call of `Start` can
fail.  The event keeps its state as long as a process has a handle to it.  `CanCrash` lets a process die at any
point: its handles are closed and its mutex is abandoned.

### ReportRepository, UploadThread, Reporter

A report is a minidump and its crash keys, which are in one of the directories
`Incoming`, `Retry` and `Retry 2`, in the permanent failure directory, in the
caller's temporary directory (the minidump only) or nowhere.  Each file operation
of the code is an action, and so is each deletion by the destructor of a
`ScopedReportFile`.  Time is reduced to the two questions the code asks of a time
stamp.  `MaxFaults` bounds the failed operations and the crashes; `hurt` are the
reports that a fault concerned, and no promise is made about those.  `Reporter`
composes the repository with the upload threads: `RunUploader` is the thread's
timer and the first step of `UploadPendingReport`, `WaitServerListenAndJoin` the
end of `Shutdown`, which waits for the active requests and for the thread.

### ShardedQuarantine, ZebraBlockHeap, BlockHeapManager

`size_` of the quarantine is read in one step and written in another, modulo
`Modulus`; `raced` records that two operations have overlapped.  `PopImpl` scans
the shards one lock at a time, `EmptyImpl` takes them one at a time.  The zebra
heap has one lock, and each of its operations is one action.

A block is its header's state, whether the underlying heap has it allocated and
whether its pages are protected.  `Free` looks at the header, marks the block and
pushes it, in three steps; for the shared quarantine the block is protected under
the lock of its shard, for the zebra heap, whose `Lock` is empty, in a step of its
own.  `TrimQuarantine` and `DestroyHeap` are loops of small steps.  A client
frees what it has allocated, possibly again while it is quarantined, and does not
use a heap that it destroys; it does not free one block from two threads at once.

`DestroyHeap` takes everything out of the shared quarantine and puts the blocks of
other heaps back.  When two heaps are destroyed at once, each call can put back
blocks of the other heap, after that one has been erased.  Even a single
`DestroyHeap` does not see a block that a trim in another thread has popped:
`FreePristineBlock` then uses a heap that has been deleted.  Nothing is stated about
the blocks of deleted heaps (`Alive`).  The variable `clashed`
records that two calls have overlapped.  `QuarantinedHeapsAreAlive` is stated for
histories in which they have not; `SharedProtectedIsQuarantined` for those, and for
blocks of heaps that still exist in all others.

### StackCaptureCache

A shard stays locked from the look-up of a new stack to its insertion; the
reclaimed lists, the current page and the statistics have locks of their own and
are steps in between.  `held` are the references that blocks have; `MaxHeld`
bounds them and lets one stack trace have more of them than its count can.  Sizes
are counted in frames.  `max_num_frames_` limits only the search for a reclaimed
capture; traces may have up to `kMaxNumFrames` frames, and as one above the limit
takes a new capture each time, `MaxPages` bounds how often that happens.

## 3. Runs

Passing runs:

| run | checks | bounds and why they suffice |
|---|---|---|
| `session_race` | `BookkeepingIsConsistent`, `InUseHasOneClient`, `TasksAreDistinct`, `WrittenAtMostOnce`, `BufferStatesCycle` | 2 threads that race with each other, the writer and `Close`; every failure possible; 3 buffers; an ordinary request, one that is large but aligns to the pool's size, and one that gets a buffer of its own |
| `session_serial` | `DestroyedWithAllAvailable`, `EndedIsLast`, `WaitersReturn`, `ImplementsFairTraceLog` | serialised calls, fairness, 3 buffers and 2 records: a buffer is recycled and used again |
| `session_live_race` | `PendingWriteHasOneTask`, `WaitersAreCovered`, `PendingWriteIsRecycled`, `ClosedIsDestroyed` | the same without serialisation: both threads can wait at once |
| `service` | `ActiveSessionsAreCounted`, `ReferencesAreAlive`, `HandlesAreOpenSessions`, `StoppedIsDrained`, `OpenSessionsHaveConsumers`, `StopReturns`, `ClosedSessionsDie` | 2 agents of one process and 3 session objects: a duplicate and a re-creation; each of the two may wait for a buffer |
| `startup` | `OneService`, `StartSettles`, `SpawnEndsWithService` | 3 processes that may crash: a winner, a loser, and one that comes after a crash |
| `kasko` | `OneUploader`, `StoredReportsAreKept`, `AttemptsAreBounded`, `RepositoryOutlivesUsers`, `FilesLeave`, `ShutdownReturns` | 2 processes, one to die while the other waits for the mutex; 1 report, since reports only meet in the choice of the next one; 1 fault |
| `asan_heap` | `BlocksAreConserved`, `SizeIsExact`, `QuarantinedHeapsAreAlive`, `SharedProtectedIsQuarantined`, `CallsReturn` | 2 threads, a block of each of two heaps that may be destroyed, also at once, in different shards, and a slab; the quarantine holds one block or none, so that every free trims; sizes modulo 3, which a lost update wraps below zero |
| `zebra` | `SlabQueuesAgree`, `ImplementsSlabPool` | 3 slabs: the queues wrap with one, two and three elements |
| `stack_cache` | `ReferencedStacksAreIntact`, `CapturesAreConserved`, `StorageStatisticsAreExact`, `RefCountsMatch` | 2 threads; two short traces and one above `max_num_frames_`, in two shards; pages of 5 frames, which leave a rest for a short trace; a count that saturates at 3 and a trace with up to 4 references; 2 pages |

`session_serial` and `session_live_race` leave out the requests that get a buffer
of their own, because with them a waiting request can stay behind
(`session_large_wait` below).  `ReferencesAreAlive`, `BlocksAreConserved` and
`CapturesAreConserved` contain the type invariants of their modules; those of
`Session`, `Startup`, `Reporter` and `ZebraBlockHeap` are proved (section 4).

`StopReturns` and `ClosedSessionsDie` have the premise `CallsAreAnswered`: no call
waits for ever inside a session.  It cannot be dropped, as `Stop` waits for the calls
in progress.  `StoppedIsDrained` says when the mutex is given up, and `OneService`
that no other instance serves before that.  `SpawnEndsWithService` says that a spawn
does not outlive the process it launched.  It does not say that the spawn of a
process that serves returns, which is not the case (see below).  `RefCountsMatch` is
a property of steps: the count follows the references until it is saturated, and
never changes again.  `StorageStatisticsAreExact` leaves out the two statistics that
are not exact (see below).

The sets of buffers, threads and records are symmetric;
symmetry is used only in runs without liveness properties.

Runs that end in a violation, each a disagreement between the code and what a
comment says of it:

* `session_large_wait`: a request that waits while only large buffers are
  write-pending is never woken.  `DestroySingletonBuffer` does not signal.
* `kasko_store_race`: the uploader takes a report that `StoreReport` has moved and
  not yet stamped, and fails.  Each of the two then misses a file that the other
  has moved or deleted, and the report is lost after one attempt.
* `asan_protect`: `Free` protects a slab that another thread has already popped
  and freed, because the zebra heap's `Lock` does nothing.

Further disagreements that modelling brought up, without a run of their own:

* a buffer the writer cannot map is never recycled
  (`session_trace_file_writer.cc:94`, against `buffer_consumer.h:51`);
* `Stop` waits for the calls in progress, and so for ever if one of them waits for a
  buffer that never comes (`service.cc:238`, `service.cc:288` and `session.cc:477`, for the reason shown
  by `session_large_wait` or after a failure to map);
* a rejected duplicate session hands a buffer to a consumer that has been closed
  (`service.cc:623`, against `buffer_consumer.h:43`);
* `CreateSession` erases from `sessions_` without the lock (`service.cc:435`,
  against `service.h:261`);
* `Stop` can return while a session's destructor has yet to signal the service's
  condition variable (`service.cc:88`, against `service.h:165`);
* `Stop` releases the mutex before it resets the event, and so can undo the signal
  of its successor, whose spawn then waits for as long as the successor serves
  (`service.cc:342`, against "waits for it to be ready, and returns" in the usage text
  at `service_main.cc:79`).  For the same reason a spawn can report success after its
  own service has failed, when another instance has set the event;
* two threads can count one capture as saturated, as each looks at the count again
  after it has released the shard (`stack_capture_cache.cc:183`, against "the total
  number of reference-saturated stack captures" at `stack_capture_cache.h:131`);
* `frames_stored` goes wrong when a capture is reclaimed before a concurrent release
  of it reads its number of frames (`stack_capture_cache.cc:242`);
* a reclaimed capture of more than `max_num_frames_` frames is in a list that
  `GetStackCapture` never searches, and is never used again
  (`stack_capture_cache.cc:349`, against "eligible for reuse" at line 313).

### Fairness

`Session`: the writer's message loop runs the tasks posted to it, and an RPC
thread inside a call keeps running unless it is blocked in `Wait`.  Nothing
forces a client to return a buffer, to call again or to close.  `Service`: calls
in progress, the writer and a `Stop` that has begun keep running, except that a call
may wait inside its session for ever; nobody has to call or to stop.  `Startup`: processes run; nobody has to spawn or shut down.
`Reporter`: upload threads and active requests keep running, timers fire and time
passes; nobody has to store a report or to shut down.  `BlockHeapManager`: as long
as threads are inside calls one of them keeps running.
All of it is weak fairness, which threads the operating system schedules have.
A spurious wakeup is never assumed to happen.

## 4. Proofs

All theorems hold for every value of the constants that the modules' named
assumptions allow: any finite set of threads and buffers, any sizes, any subset
of failures, serialised or not.

`SessionProofs` begins with the buffer book-keeping: each of its operators keeps it
consistent, and how it changes the set of buffers in each state.  From the inductive
invariant `SessionInv` it then proves:

* `TypeCorrect`: `Spec => []TypeOK`
* `BookkeepingCorrect`: `Spec => []BookkeepingIsConsistent`
* `TasksCorrect`: `Spec => []TasksAreDistinct`
* `PendingWriteCorrect`: `Spec => []PendingWriteHasOneTask`
* `ClientsCorrect`: `Spec => []InUseHasOneClient`
* `BufferStatesAlwaysCycle`: `Spec => BufferStatesCycle`, an action property

None of the invariants is inductive alone.  That `waiting` is a natural number after
a request leaves `Wait` needs `WaitingIsCounted`: the number is that of the
threads inside `Wait` or on their way out.  That a buffer being returned may
become write-pending needs `InUseHasOneClient` (it is in use), which in turn
needs the consistency of the book-keeping (a buffer taken from the available
list belonged to nobody), which needs `TasksAreDistinct` (a recycled buffer is
write-pending and is not recycled again).  The invariant is their conjunction.
For the cycle, `ReturnBuffer` needs `InUseHasOneClient` to know that its buffer is in
use, `RecycleBuffer` needs `TasksAreDistinct` to know that its buffer is
write-pending, and whoever takes the head of the free list needs the book-keeping to
know that it is available.

`SegmentProofs` builds on both and proves:

* `WrittenOnce`: `Spec => []WrittenAtMostOnce`
* `EndedIsAlwaysLast`: `Spec => [](Serialized => EndedIsLast)`
* `DestroyedAlwaysWithAllAvailable`:
  `Spec => [](Serialized /\ "map" \notin Failures => DestroyedWithAllAvailable)`
* `SessionImplementsTraceLog`: `Spec => Log!Spec` when neither mapping nor writing
  fails
* `WaitersAreAlwaysCovered`: `Spec => [](OrdinaryRequests => WaitersAreCovered)`

The first needs `SegmentsAreOnce`: a segment is still with the client, in one buffer
that has not been written, or in the file once.  A buffer is written once per return
because its states cycle, and when it comes back from the writer its header is clear.
The next two need `ClosedForGood`: once a session whose calls are serialised is
closed, no thread is inside a call, the process ended event is the last of the tasks,
and unless a buffer cannot be mapped none is left in use.  Their conditions are those
of the run, and are needed.  A request that races with `Close` can put a buffer
behind the event, and a buffer that cannot be mapped stays where it is.

The refinement maps the segments in the buffers of tasks, in the queue or on their way
to it, to the segments that `TraceLog` has accepted and not yet appended.  It does not
need serialised calls.  It is the safety half of `ImplementsFairTraceLog`; that an
accepted segment is appended eventually is left to TLC.

`OrdinaryRequests` says that every request aligns to at most the size of an ordinary
buffer.  Then no buffer is a singleton, recycling lowers the number of write-pending
buffers by one and wakes one request, and a request begins to wait only when it finds
more write-pending buffers than requests.  Without it the statement is false: a
written singleton is destroyed without a signal (`session_large_wait`).

`ServiceProofs` proves, for any finite sets of clients and session objects and any
processes:

* `SessionsAlwaysCounted`: `Spec => []ActiveSessionsAreCounted`
* `ReferencesAlwaysAlive`: `Spec => []ReferencesAreAlive`
* `HandlesAlwaysOpen`: `Spec => []HandlesAreOpenSessions`
* `StoppedAlwaysDrained`: `Spec => []StoppedIsDrained`
* `OpenSessionsAlwaysHaveConsumers`: `Spec => []OpenSessionsHaveConsumers`

All of them follow from `ServiceInv` (theorem `ServiceInvariant`), whose parts lean
on each other.  A reference stays alive because `Die` is taken only by whoever
drops the last one, which is a statement about all the places a reference can be
in (`CallsOK`, `RefsOK`).  That `CreateSession` erases the entry it has made and
not that of another client is `ClaimsOK`: the session of a client's handle, or the
one it is entering, is the entry of its process and nobody else's.  It holds until
`Stop` swaps the map, so `OwnerOK` has to say that no call is in progress by then.
A session that is not yet in the map is known to its call only (`PrivateOK`),
which is why giving it a consumer, or destroying it after an error, concerns
nobody else.  `OwnerOK` also says that without the mutex no session is counted, which
is what makes it safe for another instance to take it.  The count is exact because the objects and the clients are finitely
many, an assumption the module names.

`StartupProofs` proves `ServiceIsUnique`: `Spec => []OneService`, and
`StartupTypeCorrect`.  The inductive invariant says that a process owns the mutex
from acquiring it until its sessions are drained.

`ReporterProofs` proves, for any processes, reports and number of faults:

* `ReporterTypeCorrect`: `Spec => []TypeOK`
* `OneUploaderAtATime`: `Spec => []OneUploader`
* `RepositoryAlwaysOutlives`: `Spec => []RepositoryOutlivesUsers`
* `StoredReportsAreAlwaysKept`: `Spec => []StoredReportsAreKept`

The first three follow from `BaseInv`: a thread past the wait for the mutex owns
it, a reporter that is down has no thread, and every active store belongs to a
live reporter.  The last needs `KeptInv`, which follows a report that no fault
has hit.  Until `StoreReport` has moved the minidump nobody else works on the
report; afterwards it is whole in one directory, or the one upload at work on it
is between the moves of the two files.  That there is only one such upload is
`OneUploader` again, so the two invariants are proved one on top of the other.

The second half of the module proves `AttemptsAreAlwaysBounded`:
`Spec => []AttemptsAreBounded`, also for any processes, reports and number of
faults.  The directory of the minidump stands
for the attempts behind it (`Rank`): `Incoming` for none, `Retry` and `Retry 2`
for one and two, and a minidump that is gone for three.  The invariant
`AttemptsInv` has three parts for each report.  `Unborn`: nothing has happened to
a report nobody has stored.  `Tracked`: between picking the report and moving or
deleting its minidump, the one upload at work on it finds the minidump where it
was, or gone, and is at most one attempt ahead of its directory.  `Counted`:
otherwise the attempts exceed the rank, and the uploads exceed none, by at most
the number of faults.  A crash or a failed file operation that leaves the
minidump behind an attempt is the fault that pays for the next one.

`HeapMoves` and `HeapProofs` prove, for any number of slabs and any ratio:

* `ZebraTypeCorrect`: `ZebraSpec => []ZebraTypeOK`
* `SlabQueuesAlwaysAgree`: `ZebraSpec => []SlabQueuesAgree`
* `ZebraImplementsPool`: `ZebraSpec => ImplementsSlabPool`

The invariant `ZebraInv` adds the shape of a ring: the tail is where the elements
that begin at the head end, before or after the wrap.  It makes a push write to a
place that is not occupied, as long as the queue is not full, and the queue of one
kind of slabs is not full when there is a slab of another kind.

For the whole heap manager, with any threads, heaps, blocks, shards, sizes and
`Modulus`, they prove:

* `BlocksAreAlwaysConserved`: `Spec => []BlocksAreConserved`, type correctness included,
  for the blocks of heaps that exist
* `QuarantinedHeapsAreAlwaysAlive`: `Spec => []QuarantinedHeapsAreAlive`
* `SharedProtectedIsAlwaysQuarantined`: `Spec => []SharedProtectedIsQuarantined`
* `ManagerUsesZebraHeap`: `Spec => ZebraSpec`

The inductive invariant `HeapInv` says where a thread can be and what it then has in
its hands (`LocalOK`); that a block in the hands of a thread is in no list and in
nobody else's hands (`OwnersOK`); that a block is in the list of its own shard, once
(`ShardsOK`); that the header of a block is that of a quarantined one exactly when the
block is in a list or in somebody's hands (`HeadersOK`); that nobody else is about to
mark the block a client frees (`MarksOK`); and that a heap is destroyed by one thread
and not used meanwhile (`HeapsOK`).  `size_` appears in none of it: whatever the lost
updates make of it, it decides only when a trim stops.  `ClashOK` follows one
`DestroyHeap` through the shards: those it has emptied hold no block of its heap, and
what it still has to put back belongs to a heap that is not gone.  Two overlapping
calls break this, hence `clashed`.  `HeapMoves` has the invariant and the steps that
move blocks, `HeapProofs` the steps on headers and heaps, and the theorems.

`ManagerUsesZebraHeap` joins the two levels.  The manager pushes a slab only when it is
allocated and frees one only when it is in the hands of a thread, so each of its steps
is a step of the zebra heap or leaves it alone, and the three theorems above hold of
the zebra heap inside the manager.

`StackCaptureProofs` proves, for any finite set of threads, any stacks of up to
`kMaxNumFrames` frames, any `max_num_frames_`, shards and page size, and any
saturation point of the reference counts:

* `RefCountsAlwaysMatch`: `Spec => RefCountsMatch`, an action property
* `ReferencedStacksAlwaysIntact`: `Spec => []ReferencedStacksAreIntact`
* `CapturesAlwaysConserved`: `Spec => []CapturesAreConserved`

They follow from `CacheInv` (theorem `CacheInvariant`).  A capture with references
is the one known under its identifier; one without is in the list of its size,
once, or in the hands of one thread (`ReclaimedOK`, `LimboOK`, `PlacesOK`).  A
thread that looks for a capture holds the lock of its shard and its stack is still
unknown (`SearchOK`), although it releases every other lock on the way; a thread
that is about to return a capture has it counted (`ReturnOK`), so a concurrent
release cannot make the count reach zero under it.  Counting needs a finite set of
threads; that a list is no longer than there are captures, which
`CapturesAreConserved` uses to enumerate places, is the pigeonhole principle.

Only model-checked:

* every liveness property, among them the fairness half of the refinement of
  `TraceLog`: temporal reasoning under fairness is out of the prover's reach;
* `StorageStatisticsAreExact` and `SizeIsExact`, which compare a counter with a sum over
  a function or a sequence: what a fold computes takes induction over its data.

## 5. Not modelled

* The layout of trace files, segments and headers; process information.
* Registration of RPC bindings is one step that may fail.  A failure of
  `RpcMgmtWaitServerListen` itself is not modelled.
* Buffer sizes near the width of `size_t`.
* The client's cache of mapped segments, which is private to a process.
* The heap manager's corrupt blocks, unguarded allocations, rate targeted and
  large block heaps, tear down and `BestEffortLockAll`; the redzones' pages; one
  block freed by two threads at once.  A heap is destroyed by a client that no
  longer uses it, but another thread's trim, or the destruction of another heap, may
  still hold one of its blocks.  That thread then works on a heap that has been
  deleted; the model states nothing about it.
* `count_` of the quarantine, which decides nothing.
* The page allocator: the runtime instantiates it for single objects and without
  statistics, where one free list behind one lock remains.
* Statistics of the stack cache that only count requests and sizes.  `frames_stored`
  and `saturated` are modelled, and are not exact (section 3).
* Kasko's minidumps, HTTP and RPC marshalling: steps that succeed or fail.
* The agent logger: its start and stop go through the same helpers as the call
  trace service's, and its state is one file behind one lock.
* Shadow memory and block layout: byte arithmetic without interleavings.
* The sequential tools (block graph, PE, PDB, COFF, assembler, instrument, relink,
  reorder, optimize, grinder, simulate, the parsers and the scripts), which are
  most of the repository: they transform files in one thread, over data
  structures far too large for a small instance to say more than the unit tests.

## 6. Further work

1. The trace client's `RpcSession`, composed with `Session`.
2. The tear down of the heap manager.
