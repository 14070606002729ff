----------------------------- MODULE AsyncWork -----------------------------
(***************************************************************************)
(* The gateway to all blocking work of the pipeline: AsyncWorkBroker       *)
(* (sunpack/pipeline/coordinator/async_work.py) with the cancellation      *)
(* tokens of sunpack/core/support/work_context.py.                         *)
(*                                                                         *)
(* The event-loop thread owns admission, queues, dispatch and settlement;  *)
(* it runs one of the actions below at a time, and _dispatch is a loop in  *)
(* the middle of which executor threads may run.  Executor threads claim   *)
(* and run the operations.  Tokens are cancelled from any thread.          *)
(*                                                                         *)
(* A job is one call of run().  The jobs of a request share its token.     *)
(***************************************************************************)
EXTENDS Integers, Sequences, FiniteSets

CONSTANTS
    Jobs, Requests,
    RequestOf,       \* request_id of each call
    OriginOf,        \* its effective origin
    PriorityOf,      \* _stage_priority of its stage
    AgeStep,         \* submissions that raise a waiting job's priority by one
    ThreadCapacity,  \* threads of the executor
    MaxPending,      \* max_pending_jobs
    MaySubmitFail    \* whether starting an executor thread may fail

Origins == {"foreground", "watch"}

ASSUME WorkAssumption ==
    /\ IsFiniteSet(Jobs)
    /\ RequestOf \in [Jobs -> Requests]
    /\ OriginOf \in [Jobs -> Origins]
    /\ PriorityOf \in [Jobs -> Nat]
    /\ AgeStep \in Nat \ {0}
    /\ ThreadCapacity \in Nat \ {0}
    /\ MaxPending \in Nat /\ MaxPending >= ThreadCapacity
    /\ MaySubmitFail \in BOOLEAN

VARIABLES
    caller,     \* the coroutine that called run()
    phase,      \* the work item
    seqno,      \* _WorkItem.sequence while it is queued, otherwise 0
    sequence,   \* AsyncWorkBroker._sequence
    slots,      \* free permits of _pending_slots
    waiters,    \* callers blocked in _pending_slots, in order
    pending,    \* _pending_jobs
    active,     \* _active
    capacity,   \* thread_capacity
    order,      \* _RequestOrder: ready requests by the position they hold
    lane,       \* the list of _RequestOrder each request is in
    origin,     \* _RequestQueue.origin, "none" without a queue
    wrappers,   \* items in the executor's own queue
    claimed,    \* items whose claim() has been won
    running,    \* items whose operation a thread is executing
    cancelled,  \* requests whose token is cancelled
    posted,     \* items with a cancellation callback on its way to the loop
    loop,       \* the event loop is inside _dispatch, or between callbacks
    rejecting,  \* the item whose submit() raised and is being handled
    idle,       \* _idle_event
    closed, closer, shutdown

jobVars   == <<caller, phase, seqno>>
slotVars  == <<slots, waiters>>
queueVars == <<sequence, pending, order, lane, origin>>
poolVars  == <<active, capacity, wrappers, claimed, running, rejecting>>
closeVars == <<closed, closer, shutdown>>
tokenVars == <<cancelled, posted>>
workVars  == <<jobVars, slotVars, queueVars, poolVars, tokenVars, loop, idle, closeVars>>

Callers == {"new", "admitting", "granted", "waiting", "joining", "returned"}
WorkPhases == {"none", "queued", "submitted", "completing", "settled"}

WorkTypeOK ==
    /\ caller \in [Jobs -> Callers] /\ phase \in [Jobs -> WorkPhases]
    /\ seqno \in [Jobs -> Nat] /\ sequence \in Nat
    /\ slots \in 0..MaxPending /\ waiters \in Seq(Jobs)
    /\ pending \in Nat /\ active \in Nat /\ capacity \in 1..ThreadCapacity
    /\ order \in Seq(Requests)
    /\ lane \in [Requests -> {"none", "foreground", "watch", "promoted"}]
    /\ origin \in [Requests -> Origins \cup {"none"}]
    /\ wrappers \subseteq Jobs /\ claimed \subseteq Jobs
    /\ running \subseteq Jobs /\ rejecting \subseteq Jobs
    /\ cancelled \subseteq Requests /\ posted \subseteq Jobs
    /\ loop \in {"ready", "dispatch"} /\ idle \in BOOLEAN
    /\ closed \in BOOLEAN /\ closer \in {"none", "waiting", "done"}
    /\ shutdown \in BOOLEAN

-----------------------------------------------------------------------------
Least(a, b) == IF a <= b THEN a ELSE b

Queued(r) == {j \in Jobs : phase[j] = "queued" /\ RequestOf[j] = r}
AllQueued == {j \in Jobs : phase[j] = "queued"}

\* asyncio.Semaphore: a released permit goes to the first waiter, which holds
\* it from then on although its coroutine has not been resumed yet.
Woken(n) == {waiters[i] : i \in 1..Least(n, Len(waiters))}

ReleaseSlots(n) ==
    /\ waiters' = SubSeq(waiters, Least(n, Len(waiters)) + 1, Len(waiters))
    /\ slots' = slots + n - Least(n, Len(waiters))

Granted(n) == [j \in Jobs |-> IF j \in Woken(n) THEN "granted" ELSE caller[j]]

DropAt(s, i) == SubSeq(s, 1, i - 1) \o SubSeq(s, i + 1, Len(s))

\* A waiter gives up its place.
LeaveWaiters(j) ==
    \E i \in DOMAIN waiters : waiters[i] = j /\ waiters' = DropAt(waiters, i)

\* CancellationToken.cancel: callbacks of everyone still subscribed.  One that
\* finds its call returned does nothing, and is forgotten on return.
Subscribers(reqs) ==
    {j \in Jobs : RequestOf[j] \in reqs /\ caller[j] \in {"admitting", "granted", "waiting", "joining"}}

CancelTokens(reqs) ==
    /\ cancelled' = cancelled \cup reqs
    /\ posted' = posted \cup Subscribers(reqs \ cancelled)

-----------------------------------------------------------------------------
(***************************************************************************)
(* Admission.                                                              *)
(***************************************************************************)

\* Mutant: a promoted request stays among the watch requests.
PromotedLane_Never(r) == lane[r]

\* _RequestOrder.promote keeps the request's position.
PromotedLane(r) == "promoted"

\* run() from the creation of the item to the call of _dispatch.
Enqueue(j) ==
    LET r == RequestOf[j]
        fresh == Queued(r) = {}
        promote == ~fresh /\ OriginOf[j] = "foreground" /\ origin[r] = "watch"
    IN
    /\ sequence' = sequence + 1
    /\ seqno' = [seqno EXCEPT ![j] = sequence + 1]
    /\ phase' = [phase EXCEPT ![j] = "queued"]
    /\ caller' = [caller EXCEPT ![j] = "waiting"]
    /\ pending' = pending + 1
    /\ order' = IF fresh THEN Append(order, r) ELSE order
    /\ lane' = [lane EXCEPT ![r] = IF fresh THEN OriginOf[j]
                                   ELSE IF promote THEN PromotedLane(r) ELSE @]
    /\ origin' = [origin EXCEPT ![r] = IF fresh \/ promote THEN OriginOf[j] ELSE @]
    /\ posted' = IF r \in cancelled THEN posted \cup {j} ELSE posted
    /\ loop' = "dispatch"
    /\ UNCHANGED <<poolVars, cancelled, idle, closeVars>>

\* run() ends with an exception before its item exists.
Refuse(j) ==
    /\ caller' = [caller EXCEPT ![j] = "returned"]
    /\ UNCHANGED <<phase, seqno, slotVars, queueVars, poolVars, tokenVars, loop, idle, closeVars>>

SlotsLocked == slots = 0 \/ waiters # <<>>

Run(j) ==
    /\ loop = "ready"
    /\ caller[j] = "new"
    /\ \/ /\ closed \/ RequestOf[j] \in cancelled
          /\ Refuse(j)
       \/ /\ ~closed /\ RequestOf[j] \notin cancelled
          /\ ~SlotsLocked
          /\ slots' = slots - 1 /\ UNCHANGED waiters
          /\ Enqueue(j)
       \/ /\ ~closed /\ RequestOf[j] \notin cancelled
          /\ SlotsLocked
          /\ caller' = [caller EXCEPT ![j] = "admitting"]
          /\ waiters' = Append(waiters, j)
          /\ UNCHANGED <<phase, seqno, slots, queueVars, poolVars, tokenVars, loop, idle, closeVars>>

\* A granted permit is given back when the caller may no longer use it.
GiveBack(j) ==
    /\ ReleaseSlots(1)
    /\ caller' = [Granted(1) EXCEPT ![j] = "returned"]
    /\ posted' = posted \ {j}
    /\ UNCHANGED <<phase, seqno, queueVars, poolVars, cancelled, loop, idle, closeVars>>

\* Mutant: the permit of a cancelled admission is lost.
Admitted_Leak(j) ==
    IF RequestOf[j] \in cancelled THEN Refuse(j)
    ELSE IF closed THEN GiveBack(j) ELSE Enqueue(j) /\ UNCHANGED slotVars

Admitted(j) ==
    IF RequestOf[j] \in cancelled \/ closed
    THEN GiveBack(j)
    ELSE Enqueue(j) /\ UNCHANGED slotVars

AdmissionResumes(j) ==
    /\ loop = "ready"
    /\ caller[j] = "granted"
    /\ Admitted(j)

\* The admission task is cancelled while it waits, by the token's callback or
\* with the calling task.
AdmissionCancelled(j) ==
    /\ loop = "ready"
    /\ caller[j] = "admitting"
    /\ LeaveWaiters(j)
    /\ caller' = [caller EXCEPT ![j] = "returned"]
    /\ posted' = posted \ {j}
    /\ UNCHANGED <<phase, seqno, slots, queueVars, poolVars, cancelled, loop, idle, closeVars>>

\* The calling task is cancelled with the permit already in its hands.
GrantedCancelled(j) ==
    /\ loop = "ready"
    /\ caller[j] = "granted"
    /\ GiveBack(j)

-----------------------------------------------------------------------------
(***************************************************************************)
(* Cancellation and return.                                                *)
(***************************************************************************)

\* token.cancel() by the request's owner, from any thread.
CancelRequest(r) ==
    /\ r \notin cancelled
    /\ CancelTokens({r})
    /\ UNCHANGED <<jobVars, slotVars, queueVars, poolVars, loop, idle, closeVars>>

\* The order without a request, which is in it at most once.
Without(r) ==
    IF \E i \in DOMAIN order : order[i] = r
    THEN DropAt(order, CHOOSE i \in DOMAIN order : order[i] = r)
    ELSE order

Discarded(r, j) == IF Queued(r) = {j} THEN Without(r) ELSE order

\* Mutant: the item is withdrawn although a worker may own it.
Withdraw_Unchecked(j, state) ==
    LET r == RequestOf[j] IN
    /\ ReleaseSlots(1)
    /\ caller' = [Granted(1) EXCEPT ![j] = state]
    /\ phase' = [phase EXCEPT ![j] = "settled"]
    /\ pending' = pending - 1
    /\ order' = Discarded(r, j)
    /\ idle' = (active = 0 /\ pending = 1)
    /\ UNCHANGED <<seqno, sequence, lane, origin>>

\* _cancel_pending: an item that is no longer queued belongs to its worker.
Withdraw(j, state) ==
    LET r == RequestOf[j] IN
    IF phase[j] = "queued"
    THEN /\ ReleaseSlots(1)
         /\ caller' = [Granted(1) EXCEPT ![j] = state]
         /\ phase' = [phase EXCEPT ![j] = "settled"]
         /\ pending' = pending - 1
         /\ order' = Discarded(r, j)
         /\ lane' = [lane EXCEPT ![r] = IF Queued(r) = {j} THEN "none" ELSE @]
         /\ origin' = [origin EXCEPT ![r] = IF Queued(r) = {j} THEN "none" ELSE @]
         /\ seqno' = [seqno EXCEPT ![j] = 0]
         /\ idle' = (active = 0 /\ pending = 1)
         /\ UNCHANGED sequence
    ELSE /\ caller' = [caller EXCEPT ![j] = state]
         /\ UNCHANGED <<phase, seqno, slotVars, queueVars, idle>>

\* The token's callback reaches the loop.
CancelPending(j) ==
    /\ loop = "ready"
    /\ j \in posted
    /\ posted' = posted \ {j}
    /\ IF caller[j] = "admitting"
       THEN /\ LeaveWaiters(j)
            /\ caller' = [caller EXCEPT ![j] = "returned"]
            /\ UNCHANGED <<phase, seqno, slots, queueVars, idle>>
       ELSE Withdraw(j, caller[j])
    /\ UNCHANGED <<poolVars, cancelled, loop, closeVars>>

\* Mutant: the cancelled caller does not wait for its worker.
TaskCancelled_NoJoin(j) ==
    /\ loop = "ready"
    /\ caller[j] = "waiting"
    /\ CancelTokens({RequestOf[j]})
    /\ Withdraw(j, "returned")
    /\ UNCHANGED <<poolVars, loop, closeVars>>

\* The calling task is cancelled while it waits for the result: withdraw the
\* item if it is still queued, otherwise join its worker.
TaskCancelled(j) ==
    /\ loop = "ready"
    /\ caller[j] = "waiting"
    /\ CancelTokens({RequestOf[j]})
    /\ Withdraw(j, "joining")
    /\ UNCHANGED <<poolVars, loop, closeVars>>

Return(j) ==
    /\ loop = "ready"
    /\ caller[j] \in {"waiting", "joining"}
    /\ phase[j] = "settled"
    /\ caller' = [caller EXCEPT ![j] = "returned"]
    /\ posted' = posted \ {j}
    /\ UNCHANGED <<phase, seqno, slotVars, queueVars, poolVars, cancelled, loop, idle, closeVars>>

-----------------------------------------------------------------------------
(***************************************************************************)
(* Dispatch.                                                               *)
(***************************************************************************)

\* Mutant: the requests are served in the order of their positions alone.
IsNext_Fifo(i) == i = 1

\* _RequestOrder.popleft: foreground and promoted requests in the order of
\* their positions, then the watch requests.
IsNext(i) ==
    IF lane[order[i]] = "watch"
    THEN i = 1 /\ \A k \in DOMAIN order : lane[order[k]] = "watch"
    ELSE \A k \in 1..i-1 : lane[order[k]] = "watch"

\* take_prioritized: stage priority with aging, the oldest first among equals.
Score(j) ==
    PriorityOf[j] + (sequence - seqno[j]) \div AgeStep

IsBest(r, j) ==
    \A k \in Queued(r) :
        \/ Score(j) > Score(k)
        \/ Score(j) = Score(k) /\ seqno[j] <= seqno[k]

\* The loop of _dispatch goes on, with item j of request r.
Selects(r, j) ==
    /\ loop = "dispatch" /\ rejecting = {} /\ active < capacity
    /\ \E i \in DOMAIN order : order[i] = r /\ IsNext(i)
    /\ j \in Queued(r)
    /\ IsBest(r, j)

\* Take the item out of its queue; a request with more of them goes to the back.
TakeItem(r, j) ==
    LET more == Queued(r) # {j} IN
    /\ pending' = pending - 1
    /\ order' = IF more THEN Append(Without(r), r) ELSE Without(r)
    /\ lane' = [lane EXCEPT ![r] = IF more THEN origin[r] ELSE "none"]
    /\ origin' = [origin EXCEPT ![r] = IF more THEN @ ELSE "none"]
    /\ seqno' = [seqno EXCEPT ![j] = 0]
    /\ UNCHANGED sequence

\* An item whose token is cancelled is dropped instead of dispatched.
DispatchDrops(r, j) ==
    /\ Selects(r, j)
    /\ r \in cancelled
    /\ TakeItem(r, j)
    /\ phase' = [phase EXCEPT ![j] = "settled"]
    /\ ReleaseSlots(1)
    /\ caller' = Granted(1)
    /\ UNCHANGED <<poolVars, tokenVars, loop, idle, closeVars>>

\* submit(): the wrapper enters the executor's queue.  It may be there and
\* submit() raise nevertheless, when no thread can be started; after shutdown
\* it raises first.
DispatchSubmits(r, j) ==
    /\ Selects(r, j)
    /\ r \notin cancelled
    /\ TakeItem(r, j)
    /\ active' = active + 1
    /\ phase' = [phase EXCEPT ![j] = "submitted"]
    /\ wrappers' = IF shutdown THEN wrappers ELSE wrappers \cup {j}
    /\ \E raised \in BOOLEAN :
          /\ raised => shutdown \/ MaySubmitFail
          /\ shutdown => raised
          /\ rejecting' = IF raised THEN {j} ELSE {}
    /\ UNCHANGED <<caller, slotVars, capacity, claimed, running, tokenVars, loop, idle, closeVars>>

\* _settle.
Settle(j) ==
    /\ active' = active - 1
    /\ ReleaseSlots(1)
    /\ caller' = Granted(1)
    /\ phase' = [phase EXCEPT ![j] = "settled"]

\* Mutant: the submitter settles without the claim.
SubmitRaised_NoClaim(j) ==
    /\ loop = "dispatch"
    /\ j \in rejecting
    /\ rejecting' = {}
    /\ Settle(j)
    /\ UNCHANGED <<seqno, queueVars, capacity, wrappers, claimed, running, tokenVars, loop, idle, closeVars>>

\* submit() raised: settle the item unless a worker has claimed it already.
SubmitRaised(j) ==
    /\ loop = "dispatch"
    /\ j \in rejecting
    /\ rejecting' = {}
    /\ IF j \in claimed
       THEN UNCHANGED <<active, slotVars, caller, phase, claimed>>
       ELSE Settle(j) /\ claimed' = claimed \cup {j}
    /\ UNCHANGED <<seqno, queueVars, capacity, wrappers, running, tokenVars, loop, idle, closeVars>>

\* Mutant: the idle event is cleared but never set.
DispatchEnds_NeverIdle ==
    /\ loop = "dispatch"
    /\ rejecting = {}
    /\ active >= capacity \/ order = <<>>
    /\ loop' = "ready"
    /\ idle' = (idle /\ active = 0 /\ pending = 0)
    /\ UNCHANGED <<jobVars, slotVars, queueVars, poolVars, tokenVars, closeVars>>

\* The loop of _dispatch ends, with _notify_state_changed.
DispatchEnds ==
    /\ loop = "dispatch"
    /\ rejecting = {}
    /\ active >= capacity \/ order = <<>>
    /\ loop' = "ready"
    /\ idle' = (active = 0 /\ pending = 0)
    /\ UNCHANGED <<jobVars, slotVars, queueVars, poolVars, tokenVars, closeVars>>

\* Mutant: the finished job does not start the next one.
Complete_NoDispatch(j) ==
    /\ loop = "ready"
    /\ phase[j] = "completing"
    /\ Settle(j)
    /\ UNCHANGED <<seqno, queueVars, capacity, wrappers, claimed, running, rejecting,
                   tokenVars, loop, idle, closeVars>>

\* _complete, posted by the worker.
Complete(j) ==
    /\ loop = "ready"
    /\ phase[j] = "completing"
    /\ Settle(j)
    /\ loop' = "dispatch"
    /\ UNCHANGED <<seqno, queueVars, capacity, wrappers, claimed, running, rejecting, tokenVars, idle, closeVars>>

\* configure_thread_capacity, at startup before any work is admitted.
Configure(n) ==
    /\ loop = "ready"
    /\ capacity = ThreadCapacity /\ n # capacity
    /\ \A j \in Jobs : caller[j] = "new"
    /\ capacity' = n
    /\ loop' = "dispatch"
    /\ UNCHANGED <<jobVars, slotVars, queueVars, active, wrappers, claimed, running,
                   rejecting, tokenVars, idle, closeVars>>

-----------------------------------------------------------------------------
(***************************************************************************)
(* Executor threads.                                                       *)
(***************************************************************************)

\* A thread takes a wrapper; without the claim it does nothing.
WorkerTakes(j) ==
    /\ j \in wrappers
    /\ Cardinality(running) < ThreadCapacity
    /\ wrappers' = wrappers \ {j}
    /\ claimed' = claimed \cup {j}
    /\ running' = IF j \in claimed THEN running ELSE running \cup {j}
    /\ UNCHANGED <<jobVars, slotVars, queueVars, active, capacity, rejecting,
                   tokenVars, loop, idle, closeVars>>

\* The operation returns or raises, and the outcome is posted to the loop.
WorkerEnds(j) ==
    /\ j \in running
    /\ running' = running \ {j}
    /\ phase' = [phase EXCEPT ![j] = "completing"]
    /\ UNCHANGED <<caller, seqno, slotVars, queueVars, active, capacity, wrappers,
                   claimed, rejecting, tokenVars, loop, idle, closeVars>>

-----------------------------------------------------------------------------
(***************************************************************************)
(* Close.                                                                  *)
(***************************************************************************)

CloseGraceful ==
    /\ loop = "ready"
    /\ closer = "none"
    /\ closed' = TRUE
    /\ IF active > 0 \/ pending > 0
       THEN closer' = "waiting" /\ UNCHANGED shutdown
       ELSE closer' = "done" /\ shutdown' = TRUE
    /\ UNCHANGED <<jobVars, slotVars, queueVars, poolVars, tokenVars, loop, idle>>

\* Mutant: the closer does not wait for the event.
CloseWaited_NoEvent ==
    /\ loop = "ready"
    /\ closer = "waiting"
    /\ closer' = "done"
    /\ shutdown' = TRUE
    /\ UNCHANGED <<jobVars, slotVars, queueVars, poolVars, tokenVars, loop, idle, closed>>

\* _idle_event is set: shut the executor down.
CloseWaited ==
    /\ loop = "ready"
    /\ closer = "waiting"
    /\ idle
    /\ closer' = "done"
    /\ shutdown' = TRUE
    /\ UNCHANGED <<jobVars, slotVars, queueVars, poolVars, tokenVars, loop, idle, closed>>

\* close(graceful=False): every queued item is cancelled, running ones go on.
CloseAbrupt ==
    LET dropped == AllQueued IN
    /\ loop = "ready"
    /\ closer # "done"
    /\ closed' = TRUE
    /\ CancelTokens({RequestOf[j] : j \in dropped})
    /\ phase' = [j \in Jobs |-> IF j \in dropped THEN "settled" ELSE phase[j]]
    /\ ReleaseSlots(Cardinality(dropped))
    /\ caller' = Granted(Cardinality(dropped))
    /\ pending' = 0
    /\ order' = <<>>
    /\ lane' = [r \in Requests |-> "none"]
    /\ origin' = lane'
    /\ seqno' = [j \in Jobs |-> 0]
    /\ shutdown' = TRUE
    /\ UNCHANGED <<sequence, poolVars, loop, idle, closer>>

-----------------------------------------------------------------------------
WorkInit ==
    /\ caller = [j \in Jobs |-> "new"]
    /\ phase = [j \in Jobs |-> "none"]
    /\ seqno = [j \in Jobs |-> 0]
    /\ sequence = 0
    /\ slots = MaxPending /\ waiters = <<>>
    /\ pending = 0 /\ active = 0 /\ capacity = ThreadCapacity
    /\ order = <<>>
    /\ lane = [r \in Requests |-> "none"]
    /\ origin = [r \in Requests |-> "none"]
    /\ wrappers = {} /\ claimed = {} /\ running = {} /\ rejecting = {}
    /\ cancelled = {} /\ posted = {}
    /\ loop = "ready" /\ idle = TRUE
    /\ closed = FALSE /\ closer = "none" /\ shutdown = FALSE

Callbacks ==
    \E j \in Jobs : \/ AdmissionResumes(j) \/ CancelPending(j)
                    \/ Return(j) \/ Complete(j)

Dispatch ==
    \/ DispatchEnds
    \/ \E j \in Jobs : \/ DispatchDrops(RequestOf[j], j)
                       \/ DispatchSubmits(RequestOf[j], j)
                       \/ SubmitRaised(j)

Workers == \E j \in Jobs : WorkerTakes(j) \/ WorkerEnds(j)

Outside ==
    \/ \E j \in Jobs : \/ Run(j) \/ AdmissionCancelled(j)
                       \/ GrantedCancelled(j) \/ TaskCancelled(j)
    \/ \E r \in Requests : CancelRequest(r)
    \/ \E n \in 1..ThreadCapacity : Configure(n)
    \/ CloseGraceful \/ CloseAbrupt

WorkNext == Callbacks \/ Dispatch \/ CloseWaited \/ Workers \/ Outside

WorkSpec == WorkInit /\ [][WorkNext]_workVars

\* The event loop runs what is ready, and an operation given to a thread ends.
FairWorkSpec ==
    /\ WorkSpec
    /\ WF_workVars(Callbacks \/ Dispatch \/ CloseWaited)
    /\ WF_workVars(Workers)

-----------------------------------------------------------------------------
(***************************************************************************)
(* Properties.                                                             *)
(***************************************************************************)

InFlight == {j \in Jobs : phase[j] \in {"submitted", "completing"}}
Holding  == {j \in Jobs : caller[j] = "granted"}

\* The counters that admit and start work never drift: whatever is cancelled,
\* refused, dropped or rejected, a permit is free, granted, queued or in
\* flight, and the two job counters count what they stand for.
SlotsConserved ==
    /\ slots + Cardinality(Holding) + Cardinality(AllQueued) + Cardinality(InFlight) = MaxPending
    /\ pending = Cardinality(AllQueued)
    /\ active = Cardinality(InFlight)

\* run() never returns before its operation is over, or can no longer start:
\* only then may the caller release files or roll back output.
JoinBeforeReturn ==
    \A j \in Jobs : caller[j] = "returned" =>
        /\ phase[j] \in {"none", "settled"}
        /\ j \notin running
        /\ j \in wrappers => j \in claimed

\* Exactly one of the worker and the submitter settles an item, once.
SettledOnce ==
    [][\A j \in Jobs : phase[j] = "settled" => phase'[j] = "settled"]_workVars

\* Outside of _dispatch, the requests in the order are exactly those with
\* queued items, each once and in the list of its origin, so that promote and
\* discard find what they look for.
OrderIsReady ==
    /\ \A r \in Requests :
          /\ (Queued(r) # {}) <=> (\E i \in DOMAIN order : order[i] = r)
          /\ (Queued(r) # {}) <=> (lane[r] # "none")
          /\ origin[r] = IF lane[r] = "promoted" THEN "foreground" ELSE lane[r]
    /\ \A i, k \in DOMAIN order : order[i] = order[k] => i = k

\* No watch item starts while a request with foreground work has a queued one.
ForegroundFirst ==
    [][\A j \in Jobs :
          phase[j] = "queued" /\ phase'[j] = "submitted" /\ origin[RequestOf[j]] = "watch"
              => \A k \in AllQueued : origin[RequestOf[k]] = "watch"]_workVars

\* After the executor is shut down nothing is left to submit to it, and a
\* graceful close has returned only after everything in flight was settled.
ShutdownIsDrained ==
    /\ shutdown => AllQueued = {}
    /\ closer = "done" => InFlight = {}

\* Every call of run() ends: whatever is cancelled, dropped, rejected or closed
\* meanwhile, no caller is left waiting for a permit or for a result.
RunReturns ==
    \A j \in Jobs : caller[j] # "new" ~> caller[j] = "returned"

\* A graceful close ends: the idle event it waits for is set by whichever step
\* settles the last item, even if an abrupt close comes in between.
CloseDrains == closer = "waiting" ~> closer = "done"
=============================================================================
