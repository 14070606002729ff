# Verification of SunPack's core protocols

SunPack scans folders, recognises archives, extracts, verifies and cleans up.
This directory holds TLA+ models of the parts of it where threads, crashes and
cancellations meet, the TLC configurations that check them on small instances,
and TLAPS proofs that hold for every instance. Paths below are relative to the
repository root.

## 1. Inventory

| Component | State it keeps | Operations | Interacts with | What is hard | What makes it correct |
|---|---|---|---|---|---|
| Native Watch journal (`native/sunpack_native/src/watch_journal.rs`) | per stream: frontiers written/requested/durable/sealed, segment handles with epochs, owners, error | open, append, seal, request flush, release, seed, exit flush; writer and flusher threads | clients by tickets and callbacks; two threads by one mutex and condition variables | writer and flusher work outside the lock; errors at every I/O; release overtaking appends | a frontier never overstates the files; every wait returns; retirement is a full drain |
| Watch state store (`sunpack/runtime/watch/state.py`, `journal_commit.py`) | applied, checkpoint and segment counters, pending retirement, faults; snapshot and segment files | commit, flush, save, maintain, checkpoint thread, close, load | the journal, the file system | crash between any two steps of a checkpoint; retirement failures; close against save | no acknowledged commit is lost; the store always opens again; close ends |
| Replay and snapshot codec (`watch_store.rs`, `wal.rs`) | none of its own | replay, truncate a torn tail, encode and decode | load | torn frames, gaps | replay accepts exactly what the journal can leave |
| Asynchronous work broker (`sunpack/pipeline/coordinator/async_work.py`, `core/support/work_context.py`) | admission permits, per-request queues, request order, active jobs, idle event, tokens | run, dispatch, execute, cancel, close, configure | every stage of the pipeline; executor threads | cancellation at every await; submit that fails after enqueueing; close against admission | permits are conserved; no return before the worker is done; foreground first; everything ends |
| Pipeline engine and archive jobs (`pipeline/coordinator/engine.py`, `archive_job.py`, `recursion.py`) | stage graph of each job, recursion depth, registry | admit, advance, cancel, recurse | broker, extraction, resources | cancellation between stages | a job ends once, with its resources released |
| Resource lifecycle and archive sessions (`core/support/resource_lifecycle.py`, `archive_sessions.py`) | task scopes, file leases, promotions, retired sessions | operation, lease, promote, retire, release | broker, extraction, post-processing | promotion waits for leases that wait for it | no file is moved under a reader; no circular wait |
| Output reservations (`core/support/output_reservation.py`) | reserved path prefixes per owner | reserve, transfer, release | archive jobs | overlapping prefixes | no two owners write below one path |
| Extraction workflow (`pipeline/extraction`) | worker processes and their requests | start, progress, cancel, collect | 7-Zip worker | a worker dies or answers late | each request has one outcome |
| 7-Zip worker: space gate and monitor (`native/sevenzip_bridge/src/internal/sevenzip_space_gate.hpp`, `sevenzip_space_monitor.hpp`) | per volume: phase (Ready, Blocked, Probing), episode, probe owner, affected jobs; sampling generation | register, report a failure, wait, claim and settle a probe, sample, emit | writer and directory threads, the parent process by event lines | a revoked lease settles late; lines of different threads overtake each other; the sampler stops while an episode opens | a blocked volume resumes, and only after a valid probe; the parent's view converges |
| 7-Zip worker: output writer (`sevenzip_async_output.hpp`) | buffer pool, per-job and per-file budgets, work and retry queues, open handles, byte meters | write, close_file, finish_job, open, submit, complete, park, retry | decoder threads, an I/O completion port, the gate | completions in any order, short writes, parking against the gate's wake-up, cancellation at every step | each byte once, at its place; close after the last buffer; no parked buffer is forgotten |
| 7-Zip worker: job executor and memory arbitrator (`native/sevenzip_bridge/src/worker.cpp`, `internal/native_memory.cpp`, `native_cpu_budget.cpp`) | two job queues, active and parked counts, CPU credits, cancel tokens, arbitrator's waiters | submit, cancel, shutdown, run, withdraw, park, re-admit | the parent process, gate and writer | four locks, `notify_one`, credits released without the queue's lock, cancel against the reset of an attempt | no job is lost or run twice; an accepted cancel reaches the attempt; shutdown drains |
| Watch scheduler (`runtime/watch/scheduler.py`) | candidates, source probes, claims, dirty paths, persisted work | event, probe, claim, complete, recover | store, pipeline, observer | stale probes; restart with work in flight | no change of a file is missed; no source is claimed twice |
| Watch broker service, USN client (`native/sunpack_watch_broker`, `sunpack_usn_core`) | client leases, volume dispatchers | lease, renew, dispatch | watch processes | clients that die | the service lives exactly as long as its leases |
| Watch service, launcher, toasts; CLI and resident process; GUI; configuration; passwords; archive analysis; discovery; verification and post-processing; vendored code | | | | mostly sequential, or user interface | not protocol state |

`PROJECT.json` lists the same parts with their files, their status and, line by
line, the hazards this code is exposed to.

## 2. Plan

1. `WatchJournal`, then `WatchStore` with the abstract `DurableLog`: what the
   program promises about surviving a crash rests on these two. *Done.*
2. `AsyncWork`: all blocking work of the pipeline goes through it. *Done.*
3. `VolumeGate` and `SpaceGate`, the volume gate of the 7-Zip worker with its
   probe leases and its monitor; `OutputWriter`, the writer that parks buffers
   under the same gate; `JobExecutor`, the threads and the memory arbitrator
   above both. *Done.*
4. `ResourceLifecycle`: scopes, leases, the promotion barrier; composed with
   `AsyncWork` to state that a cancelled task's leases outlive its workers.
5. `SourceProbes`: the scheduler's probes, claims and dirty paths, and their
   recovery through the store; `OutputReservation`; the leases of the watch
   broker.
6. Several stores on one path (external sequence gaps) in `WatchStore`.
7. Proofs. *Done:* all safety properties of the journal, the broker, the gate,
   the writer, the executor and the store, and the store's refinement of
   `DurableLog` (section 5).

Modules meant for proofs use no RECURSIVE operator; their constants carry named
assumptions, and selections are written as predicates on a bound variable
rather than with CHOOSE, whose existence would need an induction.

## 3. Modules

| Module | Models | Extends |
|---|---|---|
| `WatchJournal` | one stream of the native journal, one incarnation at a time | |
| `WatchJournalProofs` | the invariant behind its durable frontier | `WatchJournal` |
| `WatchJournalChainProofs` | the invariant behind its sequence checks, seals and retirement | `WatchJournalProofs` |
| `DurableLog` | what the store promises, abstractly | |
| `WatchStore` | the store, its checkpoint thread, crashes and load | `WatchJournal`; instances `DurableLog` |
| `WatchStoreProofs` | the invariant of the store composed with its journal | `WatchStore`; instances `WatchJournalChainProofs` |
| `AsyncWork` | the broker and its cancellation tokens | |
| `AsyncWorkProofs` | the invariant of the calls and their items | `AsyncWork` |
| `AsyncWorkQueueProofs` | the invariant of the permits, the request order and the shutdown | `AsyncWorkProofs` |
| `VolumeGate` | the gate of one volume as a value, one operator per critical section | |
| `SpaceGate` | job threads, the space monitor, event lines and the parent's fold of them | `VolumeGate` |
| `SpaceGateProofs` | its inductive invariant and theorems | `SpaceGate` |
| `OutputWriter` | decoder and writer threads over the completion port | `VolumeGate` |
| `OutputWriterProofs` | its inductive invariant and theorems | `OutputWriter` |
| `JobExecutor` | the main thread, worker threads and the memory arbitrator | |
| `JobExecutorProofs` | its inductive invariant and theorems | `JobExecutor` |
| `MCWatchJournal`, `MCWatchStore`, `MCAsyncWork`, `MCSpaceGate`, `MCOutputWriter`, `MCJobExecutor` | values for TLC | |

Operators whose name has a suffix after an underscore and whose comment starts
with "Mutant" are wrong on purpose: each is a plausible bug in the definition
that follows it, and `PROJECT.json` says which property it must break.

### 3.1 WatchJournal

The state is `StreamState` (frontiers, owners, `closing`, error, segments with
`write_epoch`/`flushed_epoch`/`sealed_end`), the writer's channel `queue`, the
writer's local batch, the flusher's local `FlushWork`, the tickets of waiting
clients, the sequence coordinator of the Python side, and the segment files
twice: `file` is what the system shows, `disk` what has been forced to the
medium. An action is one critical section of the code or one file operation
made outside the lock, so every interleaving of the two threads, the clients
and the errors is explored.

- `SubmitAppend`, `SubmitSeal`, `RequestFlush`, `SubmitOpen`, `SubmitRelease`,
  `SubmitBarrier`: the client's half of each operation (a reserved number, a
  command in the channel, a ticket).
- `WriterCollect`/`WriterExtend` build a batch of consecutive appends,
  `WriterWrite` or `WriterWriteFails` touches the file outside the lock,
  `WriterPublish` or `WriterFail` takes the lock again. `WriterSeal`,
  `WriterOpen`, `WriterRelease`, `WriterBarrier` are the control commands.
- `NextFlushWork` snapshots the dirty segments under the lock (`FlushPick`; the
  branch without any, `FlushClean`, is a defence that no run ever takes), `FlushSync`/`FlushSyncFails` sync one segment each outside it,
  `FlushDone`/`FlushFailed` publish.
- `TicketOk`, `TicketErr` are the two returns of a wait.

A record is its sequence number; frames, checksums and byte counts are left out.
A batch takes what the channel holds, up to `BatchMax`. A command that arrives
after the writer has found the channel empty is, in the model, submitted after
the write; the two steps touch different variables, so the order is immaterial.

### 3.2 WatchStore

The store adds its in-memory counters, the checkpoint thread `ckpt` with one
phase per lock acquisition or file operation, the published snapshot and the
segment directory. `Commit`, `Flush`, `Save`, `Maintain`, `Close` are the calls;
`CommitReturns`, `SaveReturns`, `CloseRelease`, `CloseReturns` are where they
come back; `OnWritten` is the journal's callback into the store. `CkptBegin`
captures the view and rotates the segment, `CkptSealed` waits for the seal,
`CkptPublish` and `CkptSync` replace the snapshot and force it, `CkptRetire`
deletes what it covers, `CkptFinish` updates the counters and decides whether to
go round again. The retire-only run of the loop holds the checkpoint lock
throughout and only deletes files that no commit can need again, so it is one
step with any subset of the deletions done.

`ProcessCrash` keeps what the system has been given and forgets the memory;
`PowerLoss` keeps a part of it. `Survivors` says which part: with
`PerFileWriteback = FALSE` a prefix of all the records in the order they were
written, at least what was synced; with `TRUE` such a prefix per file. The
snapshot a power loss leaves is any not yet superseded by a forced one. `Load`
replays (`Replayed`, `Contiguous`), repairs a torn tail (`Truncated`), seeds the
journal, or refuses.

A death in the middle of a file write is a failed append, which leaves a torn
frame, followed by the crash. Left out: several live stores on one path,
operations applied only in memory, and the record contents. A record counts one
unit of journal bytes, so the two thresholds are both in records. `acked_written`,
`acked_durable` and `seeded` are history variables: what commits have promised, and
up to where the last load seeded the journal.

### 3.3 DurableLog

A log that loses a suffix at a crash, but no transaction whose commit has
returned: `safe` survives the process, `durable` survives power loss.
`WatchStore!Log` maps the length to the applied sequence while the store lives
and to what replay would recover while it is down, and the two frontiers to the
history variables of what commits have promised.

### 3.4 AsyncWork

One job is one call of `run()`; the jobs of a request share its token. `caller`
is the coroutine, `phase` the item, `claimed`/`wrappers`/`running` the
executor's side of it. The event-loop thread takes one action at a time, except
that `_dispatch` is a loop in the middle of which executor threads run: `loop`
and `rejecting` say where it is, and while it is in there no other callback of
the loop can run.

- `Run` is the call up to its first suspension: refused, admitted at once, or
  queued at the semaphore. `AdmissionResumes`, `AdmissionCancelled`,
  `GrantedCancelled` are the ends of the admission wait.
- `CancelRequest` is `token.cancel()` from any thread; `CancelPending` the
  callback it posts; `TaskCancelled` the cancellation of the calling task, which
  joins the worker; `Return` the end of `run()`.
- `DispatchDrops`, `DispatchSubmits`, `SubmitRaised`, `DispatchEnds` are the
  iterations of `_dispatch`; `WorkerTakes`, `WorkerEnds` the executor thread;
  `Complete` the posted completion.
- `CloseGraceful`, `CloseWaited`, `CloseAbrupt`; `Configure` is the one call of
  `configure_thread_capacity`, at start-up.

Abstractions. The three containers of `_RequestOrder` are one sequence, by the
position a request holds, with the container as the request's `lane`; the
buckets of `_StageWorkQueue` are the maximum over priority, age and sequence
they compute, with `AgeStep` for the constant 32. The semaphore is
`asyncio.Semaphore`: first in, first out, a released permit belongs to the
first waiter before its coroutine runs. A cancellation callback that arrives
after `run()` has returned finds nothing and is dropped at the return. The
operation itself is opaque; that it ends is a fairness assumption.

### 3.5 VolumeGate and SpaceGate

`VolumeGate` is class `VolumeSpaceGate` as a record (`phase_`, `episode_id_`,
`probe_owner_token_`, `blocked_event_emitted_`, `affected_jobs_`) with one
operator per critical section of its mutex. It has no actions: the two modules
that use a gate apply the operators in theirs, so both run the same gate.

In `SpaceGate` each job is the thread that creates directories through
`retry_with_space_gate`:

- `Register`, `StartDirectory`, `Attempt`, `Report`, `Wait`, `Settle` and
  `Unregister` are its critical sections and file system calls. `Wait` takes a
  fresh token when the gate grants the probe; what is settled under a token that
  is no longer the owner's changes nothing.
- `NoteBlocked` and `PrintLine` are `on_space_transition`, outside the lock: a
  Blocked transition first bumps the monitor's generation, then prints a line
  per job. `OnSpaceEvent` is `_on_space_event` of the Python side.
- `Tick`, `PullBlocked`, `PullAffected`, `StopSampling`, `QueryFails`,
  `QuerySucceeds`, `NoteQueryFailure`, `PollGate`, `TakeStatusReport`,
  `ReadStatusIds`, `EmitStatus` are `VolumeSpaceMonitor::tick`, which asks the
  gate one question per lock and switches sampling off with a compare-exchange
  that fails if the generation moved. `noted` is that comparison.

The volume is environment: free, full or gone; a full one may still report a few
free bytes. Poll times, `wait_tick_` and the interval of status reports are
choices. Tokens are compared for equality only, so the least unused one stands
for the fresh one.

### 3.6 OutputWriter

Class `AsyncFileWriter` for one volume. A file is its `FileState`, a buffer its
place (free, staged, queued, held by a thread, in flight, parked), size, offset
and confirmed prefix; `workQ` is `work_queue_` with its packets, `retryQ` the
parked items, `posted`/`packet` the `CompletionWake`. `disk` counts how often
each unit of a file was confirmed.

- Decoder: `MakeFile`, `Reserve` (the first critical section of `write()`),
  `Commit` or `CommitAborts` (the second, after the copy outside the lock),
  `CloseFile`, `FinishJob`, `FinishReturns`.
- Writer thread: `TakeWork`, `TakeRetry`/`Ack`/`Scan` (the retry packet is
  acknowledged before the queue is searched), `Open`, `Submit`, `Complete`,
  `Settle`, `Defer`, `CloseOpen`, `CloseSettle`.
- Environment: `VolumeChanges`, `MonitorPolls`, `MonitorQueryFails` (what
  `SpaceGate`'s monitor does to a gate), `Cancel` and `WakeWaiters`, the two
  halves of a cancellation.

A `WriteFile` that fails at once is a failed completion: the same code handles
both. Left out: the write-through flush, replay receipts, allocation and posting
failures, `finish()` and the end of the threads.

### 3.7 JobExecutor

`NativeJobExecutor` with `NativeCpuBudget` and `NativeMemoryManager`. A step is
one critical section of one of the locks or one atomic change of the credits;
condition variables are explicit: a thread that found nothing to do holds the
lock until it sleeps (`Fall`), and the budget's notification does not take that
lock, so it may come between the two.

- Main thread: `Submit`, `Cancel`/`Withdraw`, `Shutdown`, `AwaitDrain`, `Stop`,
  `Join`.
- Worker: `Test`, `Fall`, `Begin` (clears what the last attempt left), `Register`
  (repeats a cancel that came first), `Borrow`/`GiveBack` (a decoder's extra
  credit), `Run`, `Release`, then `Finish`, or `Leave` and `Park`.
- Arbitrator: `Revoke`, `Grant` (one round over the waiters), `Ready` (the
  callback); `MemoryChanges` is the machine.

Amounts of memory are left out: memory is ok, meaning that some job fits, or
short. Left out too: `stop(true)`, which only the destructor's fallback calls,
and a job identifier that is submitted again while its first job is still known.

## 4. Runs

All runs use the constants of their `.cfg`; every property of a passing run has
a mutant that breaks it.

| Run | Instance | Checks | Shows |
|---|---|---|---|
| `journal` | 3 numbers, batches of 2, 2 owners, 2 commands, 2 waits, seeds 0 and 2 | `TypeOK`, `DurableIsSynced`, `SealedIsClosed`, `NoConsistencyError`, `RetiredIsComplete`, `FlushFailureIsFinal` | the frontiers are truthful and the runtime's own consistency errors cannot occur, with errors at every I/O |
| `journal_live` | 2 numbers, seed 0 | `TicketsReturn`, `ReleaseRetires` | every wait returns and a released stream is retired |
| `store_crash` | 3 commits, 2 openings; failing appends and deletions, death of the process; maintenance and close | `StoreTypeOK`, `WrittenIsRecoverable`, `NoAppendAfterTear`, `ImplementsDurableLog` | a process crash anywhere loses no acknowledged commit |
| `store_power` | 3 commits, 3 openings; failing snapshots, power loss that keeps a prefix; flush | `NeverRefused`, `SnapshotIsDurable`, `DurableIsSafe`, `ImplementsDurableLog` | power loss loses no commit acknowledged as durable, and at no instant could it |
| `store_close` | 2 commits; append, flush and snapshot errors; save and close | `CloseTerminates` | close ends |
| `work` | 4 calls, 1 thread, 3 permits, failing submits; a Watch request that a foreground call of another stage joins, and a Watch request of two alike calls | `WorkTypeOK`, `SlotsConserved`, `JoinBeforeReturn`, `OrderIsReady`, `ShutdownIsDrained`, `SettledOnce`, `ForegroundFirst` | see below |
| `work_live` | 3 calls, 2 threads (1 after `Configure`), 2 permits | `RunReturns`, `CloseDrains` | every call and every graceful close ends |
| `space_gate` | 2 jobs, 1 directory each, 2 changes of the volume or stray query failures | `GateTypeOK`, `PermitIsHeld`, `SamplingAlive`, `EventsConverge`, `ResumeIsEarned`, `Recovers` | the permit is never lost nor doubled, a stale probe resumes nothing, the sampler never stops over an open episode, the parent's flag is right once the lines are out, and a volume with space again lets its jobs go on |
| `output_writer` | 1 job with a file of three units and an empty one, 2 buffers of two units, 2 threads, budgets 3, queue of 1, 1 event | `WriterTypeOK`, `BytesAccounted`, `CloseIsLast`, `WholeOnSuccess`, `NoLostWake` | every byte is counted out once and written once at its place, a file is closed after its last buffer, no parked item is forgotten |
| `job_executor` | a foreground and a Watch job, 2 threads, 2 credits, queue of 2, 1 withdrawal per job, memory short once | `ExecutorTypeOK`, `CancelReaches`, `ShutdownDrains` | the counters agree with the threads, no job is lost or doubled, a cancel reaches its attempt, a shutdown drains |
| `store_writeback`, `store_save` | as the store runs | one property each, violated | the findings of section 7 |

**Bounds.** Three numbers let a segment be rotated with a record before, inside
and behind the boundary; two openings let a crash hit a recovered store, three
let a power loss hit what an earlier one left. Two owners are enough for a
release to overtake the other's operations; batches of two for a batch to be
torn. In the broker, one thread and three permits give one running, two queued
and one blocked call, so that promotion, aging (`AgeStep = 2`), a blocked
admission and the order of requests all matter; the two alike calls of the second
request are a symmetry set (no definition chooses among calls with CHOOSE, and the
run checks no liveness); two threads and two permits in
`work_live` let items of one request run at once and a permit be handed over.
In the gate, two jobs let one probe while the other waits, registers late or
reports, and two changes let a query fail between the grant of a probe and its
success. In the writer the three units make one full and one short buffer, so
that staging, a short write and a parked prefix occur, and the queue of one fills
up; the volume starts full and the one event frees it, unplugs it, fails a query
or cancels. In the executor both queues, both threads and the arbitrator's list
can hold each job. Larger instances passed once: the gate with two directories
and three changes (4.9 million states), the writer with two events (5.05
million).
The number of outstanding waits and commands is bounded in the guards of the
clients only; no thread's step is.

**Deadlock** is checked in `space_gate`, `output_writer` and `job_executor`, whose
only final states are those of an explicit last step (`AllEnded`, `AllDone`). It
is off in the other runs: clients may stop calling, all commits may be used up
and stores stay closed.

**Fairness.** `FairSpec` and `FairStoreSpec`: the writer and flusher threads loop
for ever, the checkpoint thread runs to its end, and a waiter on a condition
variable is notified after each change; each is weakly fair, and calls of the
API, faults and crashes are not fair. `FairWorkSpec`: the event loop runs what
is ready, and the executor's threads take wrappers and finish operations. The
last is an assumption about the operations (they do I/O of bounded size and poll
their token); nothing is assumed about cancellation or close happening.
`SpaceGate`: job threads, the printing of lines and the monitor's tick are weakly
fair (a waiter looks again at every `wait_tick_`, the monitor at every poll while
sampling); the volume owes nothing, and `Recovers` speaks of one that is free and
stays free. `JobExecutor`: threads that can go on do, the monitor keeps looking
at its waiters, and the input ends (`Shutdown`); that memory comes back is a
premise of `ShutdownDrains`. `OutputWriter` states safety only: whether a parked
buffer goes on depends on the monitor, which `SpaceGate` has, and `NoLostWake` is
the writer's share of it.

## 5. Proofs

Each theorem holds for every value of the constants that the named assumption of
its module allows (any number of jobs, threads, records, permits), where a run of
section 4 covers one instance. Each rests on an inductive invariant that TLC
checked first on the instance of the run; for every action there is a lemma or a
step per part of the invariant it can disturb.

### 5.1 Journal (`WatchJournalProofs`, `BoundsAssumption`)

- `TypeCorrect`: `Spec => []TypeOK`.
- `DurableFrontierIsSynced`: `Spec => []DurableIsSynced`.
- `FlushFailureTheorem`: `Spec => FlushFailureIsFinal`.

`DurableIsSynced` is not inductive: a flush target may be published because of
what the flusher saw before it let go of the lock. The invariant `IInv` adds
`BatchInv` (a batch continues the written frontier and is in its file once
written), `OrderInv` (the channel is FIFO and the coordinator has moved on, so
no append follows the seal of its segment), `SegmentInv` (frontiers, epochs and
contents of a segment agree), `CoverInv` (a written record is on the medium or
in a dirty segment), `FlushInv` (what the flusher's snapshot still misses is in
a segment it has yet to sync, and an epoch that has not moved since the snapshot
means that nothing was added) and `FrontierInv`. The flush-failure theorem adds
that a failed stream is never picked again and that the failing batch of work is
the last.

### 5.2 Journal: the chain of commands (`WatchJournalChainProofs`)

- `ConsistencyTheorem`: `Spec => []NoConsistencyError`.
- `SealTheorem`: `Spec => []SealedIsClosed`.
- `RetireTheorem`: `Spec => []RetiredIsComplete`.

The checks of the writer compare a command with state that the clients'
coordinator left behind some commands ago. `ChainInv` therefore says that there is
a *view* of the coordinator for every position of the channel: consecutive views
differ by the command between them (`Sends`), the last is the coordinator's now,
and the first agrees with what the writer has (`Received`: owners, batch,
frontier and the one segment not yet sealed). A receive drops the first view, a
send adds one. `CauseInv` then excludes the consistency errors. `EndInv` says
where published segments end relative to the seals and the durable frontier,
`CleanInv` that a segment ending inside the durable frontier is clean, also while
a flush is under way, and `RetireInv` that a stream leaves the registry only
without owners and, if nothing failed, durable to its end.

### 5.3 Broker: calls and items (`AsyncWorkProofs`, `WorkAssumption`)

- `JoinTheorem`: `WorkSpec => []JoinBeforeReturn`.
- `SettledTheorem`: `WorkSpec => SettledOnce`.

The invariant `WorkInv` relates three views of a call. `WaiterInv`: the
semaphore's queue holds calls waiting for admission, each once, so a released
permit never reaches a call that has an item already. `CallInv`: a call before
admission has no item, a returned one has none or a settled one. `ClaimInv`: who
owns the item at each phase; in particular a submitted and claimed item is
running, and a wrapper that survives settlement finds its claim taken.

### 5.4 Broker: counters, order, shutdown (`AsyncWorkQueueProofs`)

- `BrokerTypeCorrect`: `WorkSpec => []WorkTypeOK`.
- `CountersNeverDrift`: `WorkSpec => []SlotsConserved`.
- `OrderTheorem`: `WorkSpec => []OrderIsReady`.
- `ShutdownTheorem`: `WorkSpec => []ShutdownIsDrained`.
- `ForegroundTheorem`: `WorkSpec => ForegroundFirst`.

`BrokerInv` adds to `WorkInv` the counting property, the order and `DrainInv`.
`SlotsConserved` needs `WorkInv`, because a permit is counted with the call that
holds it and only `WaiterInv` says that a handed-over permit has one such call.
`DrainInv` adds what the idle event means between two callbacks of the loop; in
the middle of `_dispatch` it means nothing, which is why it is conditional on
`loop`. `ForegroundFirst` follows from the order: the dispatcher takes a Watch
request only when the order holds no foreground one, and by `OrderIsReady` the
order holds every request with queued work.

### 5.5 Gate (`SpaceGateProofs`, `GateAssumption`)

- `GateTypeCorrect`: `Spec => []GateTypeOK`.
- `PermitNeverLost`: `Spec => []PermitIsHeld`.
- `SamplerNeverStopsEarly`: `Spec => []SamplingAlive`.
- `ParentViewConverges`: `Spec => []EventsConverge`.
- `ResumeAlwaysEarned`: `Spec => ResumeIsEarned`.

`LeaseInv` and `OwnerInv`: tokens of live leases differ, the gate's owner is one of
them, and a revoked lease is not the owner's; `ResumeIsEarned` follows because only
`Settle` resumes, and only under the owner's token. `SamplerInv`: while an
episode with jobs is open, the sampler is on or some emitter has yet to bump the
generation, and a tick about to stop has noticed. `EpisodeInv` and `ViewInv` are
the heart of the convergence: the lines of one episode may overtake those of
another, so what a job's parent *knows or is about to be told* is stated by
episode (`KnowsBlocked`, `KnowsReady`), and nobody has heard the end of an episode
that lasts. `EmitInv`, `NewJobInv` and `LeftInv` say where a thread can be when it
has lines to print, registers or has directories left.

### 5.6 Executor (`JobExecutorProofs`, `ExecutorAssumption`)

- `ExecutorCounts`: `Spec => []ExecutorTypeOK`.
- `NoJobLost`: `Spec => []CancelReaches`.

`PlaceInv` is the property that four locks make hard to see: a known job is in
exactly one of the queues, the arbitrator's list, its round of callbacks and a
thread's hands, and a job that is not known is in none. `QueueInv` makes "in the
queues" mean one place, `ResultInv` says that a known job has no result but in
the short time between its thread printing it and forgetting it, `MemInv` that
the arbitrator lists known, begun jobs only, `AttemptInv` that a running attempt
is registered and carries the cancel of its job, and `CountInv` that credits,
active and parked count the threads and jobs they stand for.

### 5.7 Writer (`OutputWriterProofs`, `WriterAssumption`)

- `WriterTypeCorrect`: `Spec => []WriterTypeOK`.
- `BytesTheorem`: `Spec => []BytesAccounted`.
- `CloseTheorem`: `Spec => []CloseIsLast`.
- `WholeTheorem`: `Spec => []WholeOnSuccess`.
- `WakeTheorem`: `Spec => []NoLostWake`.

The assumption asks for finitely many files and buffers (they are counted), any
jobs, threads, sizes and non-zero budgets, and that the names of buffers, files
and the two null values differ. `Types` leaves the counters integers; that they
are natural numbers within their bounds is what `WriterTypeCorrect` proves, from
the sets they count:

- `PlaceInv`: a buffer is where its state says, an item is in one queue once or
  with one thread. `CloseInv`: an item that is a file has its close queued, and a
  queued close means no outstanding buffer. `WakeInv`: a posted packet is in the
  port or with the thread that acknowledges it, and `NoLostWake` itself.
- `StageInv` and `DecoderInv`: a staging buffer, its file and the decoder that
  fills it agree, and what is accepted is what is queued plus what is staged; a
  chunk is reserved only between the two critical sections of `write()`.
- `CountInv`: `outstanding`, `active` and `pending` are the cardinalities of the
  buffers and files they stand for. `AreaInv`: the two budgets and the pending
  gauge count cells, unit k of buffer b, so that a step changes them by one row
  (`AreaChange`), and each budget also holds the decoder's reservation.
- `DiskInv`: the places of buffers that are on their way do not overlap, what
  such a buffer has not confirmed is not on the disk, and unless the job has
  failed a queued unit that is not on the disk is in such a buffer. With
  `pending = 0` there is none, hence `WholeOnSuccess`.
- `ErrInv` and `ResultInv`: what a thread or a file has failed at, its job knows,
  so that a buffer is given up only in a job with an error.

An action that touches one buffer, one file or one thread is first reduced to its
effect (`ReserveEffect`, `CommitEffect`, `CloseEffect`, `ReleaseEffect`), then each
part of the invariant follows from a frame lemma about that effect (`Works` for a
decoder, `Flagged` and `Releases` for a writer thread).

### 5.8 Store (`WatchStoreProofs`, `StoreAssumption`)

- `StoreInvariant`: `StoreSpec => []Inv`.
- `StoreTypes`: `StoreSpec => []StoreTypeOK`.
- `StoreRecoverable`: `StoreSpec => []WrittenIsRecoverable`.
- `StoreSnapshotDurable`: `StoreSpec => []SnapshotIsDurable`.
- `StoreDurableSafe`: `StoreSpec => []DurableIsSafe`.

These hold for every set of faults, both kinds of writeback, and any number of
loads. The assumption only says that the thresholds are ordered, that the names
of faults and calls are those of section 3.2, and that the directory is empty at
first.

The store runs the journal's own actions, so the journal's invariants are used and
not proved again: `J` is `WatchJournalChainProofs` with the files as the journal
would have them if the store took nothing away from it. `JFile` and `JDisk` put
back, into the first segment, what the journal was seeded with (the history
variable `seeded`) and what every snapshot that a power loss may leave contains
(`Covered`); `JFlush` hides the work of a flusher for an incarnation that has ended,
which can still sync a file but publishes nothing. Each of the store's steps is then
a step of `J` (`JClient`, `JReturn`, `JWriter`, `JWriterFile`, `JFlusher`), leaves
`J`'s files with more on the medium and nothing lost (`JRetire`, `JGrow`,
`JStaleSync`), or starts `J` afresh (`JFresh`). `DurableIsSafe` is the journal's
`DurableIsSynced` read back through this substitution.

`StoreInv` relates the two:

- `FileInv`: what is synced is written, a file with records exists, and the
  flusher's work is of this incarnation or an earlier one.
- `CoordInv`: the applied sequence is the coordinator's, a release is the last
  command of the channel, and a closed store has neither commands nor handles.
- `CutInv` is the reason why deletion is safe: no segment has records on both sides
  of a *mark* (a snapshot, shown or possible, the checkpointed sequence, the
  boundary of a running checkpoint), counting the records still in the writer's
  batch or in the channel, and the active segment starts beyond all of them.
- `MarkInv`: the shown snapshot is the newest of those a power loss may leave, and
  in the phases of the checkpoint that delete it is the only one.
- `FrontInv`: what is published is durable. The boundary is the end of the sealed
  segment, so the seal's ticket carries it; a checkpoint that gives up leaves a
  segment that is sealed but not yet durable, which is why the last clause excepts
  a persistence fault.

Four more theorems say what the next load finds:

- `StoreLive`: `StoreSpec => []LiveInv`.
- `StoreNeverRefused`: `StoreSpec => []NeverRefused`.
- `StoreNoAppendAfterTear`: `StoreSpec => NoAppendAfterTear`.
- `StoreImplementsLog`: `StoreSpec => ImplementsDurableLog`.

They assume `PowerAlone`, because without it TLC finds `NeverRefused` or
`ImplementsDurableLog` violated: either there is no power loss, and everything else
may happen (death of the process at any step, failed appends, syncs, publications
and deletions, close and reopening); or there is, it keeps a prefix of what was
written, processes do not die by themselves, and the store is not closed. With
per-file writeback a load may be refused (section 7). With both kinds of crash, or
with a power loss after a store that had failed was closed and opened again, load
has vouched for records that nothing synced, or has deleted segments for a snapshot
whose replacement is not forced. `NoAppendAfterTear` rests on the same invariant.
`store_crash` and `store_power` are instances of the two cases.

`LiveInv` adds to `Inv` what the directory looks like at every instant, so that it
is also what a crash leaves:

- `GapInv`: beyond any snapshot that the next load may find, the segments have no
  hole, no segment lies behind a record that is missing, and nothing the journal
  reports as written is missing.
- `ApartInv`: the records of a segment precede the name of every later segment
  that exists, is active, or has records in the channel or the batch. With `GapInv`
  it gives `Contiguous` (`NoHole`), hence `NeverRefused`.
- `TornInv`: a segment with an incomplete frame is either the one at which the
  writer stopped for good, or lies before the active one and gets no more records.
- `PowerInv`: what load has seeded is synced, or within every snapshot.
- `AckInv`: what commits have promised is within the frontiers while the store
  lives, and within what replay recovers while it is down.

Most steps leave files and snapshots alone; `Quiet` says how, and `QuietLive`
carries the invariant over all of them at once. The rest (`WriteLive`,
`PublishLive`, `RetireLive`, `CrashLive`, `PowerLive`, `LoadLive`) are proved one by
one, together with `Repaired`, the action of `NoAppendAfterTear`. For the refinement,
`StepLog` maps a commit to `AppendOne`, its return to `Acknowledge`, a crash or the
load of a closed store to `LoseProcess`, a power loss to `LosePower`, and all other
steps, among them the load after a crash, to a stutter.

### 5.9 Only model-checked

- All liveness properties (`TicketsReturn`, `ReleaseRetires`, `CloseTerminates`,
  `RunReturns`, `CloseDrains`, `Recovers`, `ShutdownDrains`): fairness and ENABLED
  are outside the prover.

Every safety property of a passing run is stated by a theorem.

## 6. Not modelled, and why

The components marked `not_modelled` in `PROJECT.json` are either planned
(section 2) or carry no protocol state: decoding of archive formats and USN
records, password search, classification of names, user interface,
configuration, vendored libraries. Within the modelled parts the omissions are
those named in section 3.

Nearly all C and C++ lines of the repository are vendored (7-Zip, zlib-ng,
core-ui): codecs, archive handlers and tables whose correctness is a matter of
bytes, not of protocol. SunPack's own C++ is `native/sevenzip_bridge/src`, and of
that the gate, the monitor, the writer and the executor are modelled; its own
Rust and Python carry the Watch store, the journal and the broker.

## 7. Where the code and its documentation disagree

- `store_writeback`: `README.en.md:141` promises that power loss leaves no
  corrupted state. A checkpoint lets commits go on into a new segment before the
  old one is synced (`state.py:612-622`); if the system writes the new file back
  first, replay meets a gap and the store refuses to open
  (`watch_store.rs:1547`). Under prefix-preserving writeback (`store_power`) this
  cannot happen.
- `store_save`: `save()` is documented to wait until a checkpoint covers the
  current sequence (`state.py:364`). When `close()` begins while a checkpoint is
  running, the loop does not go round again (`state.py:670`) and that `save()`
  never returns.

### Observations

Met while modelling; none of them breaks a property of section 4, and where one
limits what a property says, the property's comment or this list says so.

- Load seeds what it replayed as durable (`state.py:214`, `watch_journal.rs:383`) but
  syncs nothing unless it truncates (`watch_store.rs:1275`). After the death of a
  process with written but unsynced records, a `flush()` of the reopened store
  (`state.py:389`) returns at once, and a power loss still takes them: an eight-step
  behaviour of `WatchStore` with `Faults = {"crash", "power"}` and
  `Calls = {"flush"}` violates `ImplementsDurableLog`. So does a store
  that failed, was closed and opened again (`"close"` and `"append"` or `"flush"`
  in place of `"crash"`).
- Load deletes the segments that the snapshot covers (`state.py:321`) without
  syncing the directory. If the store before it ended between the replacement of
  the snapshot and its sync (`state.py:528`), a power loss on a file system that
  delays the replacement behind the deletions leaves the older snapshot alone.
  The passing runs let either the process or the power fail, not both; with both, TLC finds
  `ImplementsDurableLog` violated in this way. On a file system that orders its
  metadata this cannot happen.
- A commit's written callback may run after a checkpoint has dropped its
  segment's counters (`state.py:738`). The counter is then too high, which only
  brings the next checkpoint forward.
- An empty file whose creation ran out of space while its job was being cancelled
  is closed, not failed and never created (`sevenzip_async_output.hpp:1820`). The
  job has an error then, so `WholeOnSuccess` holds.
- `write()` fails when a buffer fills up while the work queue is at its limit,
  although the job has no error (`sevenzip_async_output.hpp:666`); the decoder
  ends and the accepted part of the file is written.
- The comments at `sevenzip_async_output.hpp:1582` and `:2015` allow one call of
  `CreateFileW` in the life of a `FileState`. A file whose creation ran out of
  space stays untried and is created again by the retry, as the comment at
  `:1614` intends; the two older comments are out of date.
- A permanent failure to open sets the job's error without waking the gate's
  waiters (`sevenzip_async_output.hpp:1618`). A buffer of the same job that is
  parked then waits for the next change of the gate or a cancellation;
  `NoLostWake` covers the gate's decisions and cancellation.
- A withdrawn attempt that succeeded all the same is reported as cancelled
  (`worker.cpp:1267`).
- `stop(true)` wakes one thread where several sleep behind a parked job; only the
  destructor's fallback calls it.
- A released CPU credit is announced without the queue's lock, so a thread about
  to sleep can miss it. The thread that released it tests the queue itself before
  it sleeps, and `ShutdownDrains` holds.
- A job that is run again after a withdrawal registers again with its gate and
  can have missed a Resumed line in between.
