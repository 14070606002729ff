---------------------------- MODULE JobExecutor ----------------------------
(***************************************************************************)
(* The job executor of the 7-Zip worker process (class NativeJobExecutor): *)
(* the main thread reads submit, cancel and shutdown from standard input,  *)
(* worker threads run jobs under CPU credits, and the memory arbitrator    *)
(* (class NativeMemoryManager) withdraws an attempt that does not fit,     *)
(* parks its job without a thread, and hands it back later.                *)
(*                                                                         *)
(* A step is one critical section of mutex_, cancel_mutex_ or the          *)
(* arbitrator's mutex, or one atomic change of the CPU budget.  Condition  *)
(* variables are modelled: a thread sleeps until it is notified, and       *)
(* between the test of its condition and its sleep it still holds mutex_,  *)
(* which the budget's notification does not take.  Amounts of memory are   *)
(* left out: external memory is "ok" or "short", and an attempt may be     *)
(* withdrawn only while it is short.                                       *)
(***************************************************************************)
EXTENDS Integers, Sequences, FiniteSetsExt, SequencesExt

CONSTANTS
    Jobs,
    Fore,           \* the jobs whose origin is not "watch"
    Workers,
    None,
    Capacity,       \* nominal_capacity_ of the CPU budget
    QueueCapacity,  \* queue_capacity_
    MaxRetries,     \* bound: withdrawals of one job
    MaxChanges      \* bound: times the external memory runs short

ASSUME ExecutorAssumption ==
    /\ IsFiniteSet(Jobs) /\ IsFiniteSet(Workers)
    /\ Fore \subseteq Jobs
    /\ None \notin Jobs
    /\ Capacity \in Nat \ {0} /\ QueueCapacity \in Nat \ {0}
    /\ MaxRetries \in Nat /\ MaxChanges \in Nat

VARIABLES
    fore, back,     \* foreground_queue_, background_queue_
    active, parked, \* active_jobs_, parked_jobs_
    credits,        \* reserved_credits_
    stopping,
    known,          \* keys of cancel_tokens_
    token,          \* jobs whose cancel_token is set
    attempt,        \* jobs whose attempt_cancel is registered
    flag,           \* jobs whose memory_job.cancel is set
    started,        \* jobs that have a JobExecution
    mem,            \* the NativeMemoryJob of each job
    waiters,        \* waiters_ of the arbitrator
    calls,          \* ready callbacks its monitor has still to make
    memory, changes,
    wk,             \* each worker thread
    main,           \* the main thread
    results,        \* result lines printed for each job
    tries           \* withdrawals of each job

queueVars == <<fore, back, active, parked>>
cancelVars == <<known, token, attempt, flag>>
memVars == <<mem, waiters, calls>>
envVars == <<memory, changes>>
vars == <<queueVars, credits, stopping, cancelVars, started, memVars, envVars,
          wk, main, results, tries>>

Idle == [listed |-> FALSE, running |-> FALSE, admitted |-> FALSE, revoked |-> FALSE]

(* A worker thread: its job, whether it hands the wake-up on, the extra    *)
(* credit of its decoder, and whether the attempt is to be retried.        *)
Thread(pc, j) == [pc |-> pc, job |-> j, baton |-> FALSE, extra |-> "no",
                  retry |-> FALSE]

Init ==
    /\ fore = <<>> /\ back = <<>> /\ active = 0 /\ parked = 0
    /\ credits = 0 /\ stopping = FALSE
    /\ known = {} /\ token = {} /\ attempt = {} /\ flag = {} /\ started = {}
    /\ mem = [j \in Jobs |-> Idle] /\ waiters = {} /\ calls = {}
    /\ memory = "ok" /\ changes = 0
    /\ wk = [w \in Workers |-> Thread("test", None)]
    /\ main = [pc |-> "serve", job |-> None]
    /\ results = [j \in Jobs |-> <<>>]
    /\ tries = [j \in Jobs |-> 0]

-----------------------------------------------------------------------------
(* Shared parts.                                                           *)

(* mutex_ is free: no thread is between its test and its sleep.            *)
Unlocked == \A w \in Workers : wk[w].pc # "falling"

Asleep(ws) == {w \in Workers : ws[w].pc = "asleep"}

(* notify_one and notify_all on condition_; sleeping threads are alike, so *)
(* it does not matter which one is woken.                                  *)
NotifiedOne(ws) ==
    IF Asleep(ws) = {} THEN ws
    ELSE [ws EXCEPT ![CHOOSE w \in Asleep(ws) : TRUE].pc = "test"]

NotifiedAll(ws) ==
    [w \in Workers |-> IF ws[w].pc = "asleep" THEN [ws[w] EXCEPT !.pc = "test"] ELSE ws[w]]

Drained(f, b, a, p) == f = <<>> /\ b = <<>> /\ a = 0 /\ p = 0

Queued == ToSet(fore) \cup ToSet(back)

PushBack(j) ==
    IF j \in Fore THEN fore' = Append(fore, j) /\ UNCHANGED back
    ELSE back' = Append(back, j) /\ UNCHANGED fore

PushFront(j) ==
    IF j \in Fore THEN fore' = <<j>> \o fore /\ UNCHANGED back
    ELSE back' = <<j>> \o back /\ UNCHANGED fore

(* NativeMemoryManager::end.                                               *)
Ended(m) == [m EXCEPT !.running = FALSE, !.admitted = FALSE, !.listed = FALSE]

(* NativeCpuBudget::release tells the executor only when the budget was    *)
(* exhausted before.                                                       *)
ReleaseCredit(ws) ==
    /\ credits' = credits - 1
    /\ wk' = IF credits >= Capacity THEN NotifiedOne(ws) ELSE ws

-----------------------------------------------------------------------------
(* The main thread.                                                        *)

Submit(j) ==
    /\ main.pc = "serve" /\ Unlocked
    /\ j \notin known /\ results[j] = <<>>
    /\ IF Len(fore) + Len(back) + parked >= QueueCapacity
       THEN /\ results' = [results EXCEPT ![j] = Append(@, "backpressure")]
            /\ UNCHANGED <<fore, back, known, wk>>
       ELSE /\ PushBack(j)
            /\ known' = known \cup {j}
            /\ wk' = NotifiedOne(wk)
            /\ UNCHANGED results
    /\ UNCHANGED <<active, parked, credits, stopping, token, attempt, flag,
                   started, memVars, envVars, main, tries>>

(* cancel() up to memory_.changed(): the token, and the flag of the        *)
(* attempt if one is registered.                                           *)
Cancel(j) ==
    /\ main.pc = "serve" /\ j \in known /\ j \notin token
    /\ token' = token \cup {j}
    /\ flag' = IF j \in attempt THEN flag \cup {j} ELSE flag
    /\ main' = [pc |-> "withdraw", job |-> j]
    /\ UNCHANGED <<queueVars, credits, stopping, known, attempt, started, memVars,
                   envVars, wk, results, tries>>

(* The queue without its entry for j, which is in it at most once.         *)
Erased(q, j) ==
    IF j \in ToSet(q) THEN RemoveAt(q, CHOOSE i \in DOMAIN q : q[i] = j) ELSE q

(* A job that waits in a queue is withdrawn by the canceller itself, which *)
(* ends its memory admission, forgets it and prints its result.            *)
Withdraw ==
    LET j == main.job IN
    /\ main.pc = "withdraw" /\ Unlocked
    /\ main' = [pc |-> "serve", job |-> None]
    /\ IF j \in Queued
       THEN /\ fore' = Erased(fore, j)
            /\ back' = Erased(back, j)
            /\ mem' = IF j \in started THEN [mem EXCEPT ![j] = Ended(@)] ELSE mem
            /\ known' = known \ {j}
            /\ results' = [results EXCEPT ![j] = Append(@, "cancelled")]
            /\ UNCHANGED wk
       ELSE /\ wk' = NotifiedAll(wk)
            /\ UNCHANGED <<fore, back, mem, known, results>>
    /\ UNCHANGED <<active, parked, credits, stopping, token, attempt, flag, started,
                   waiters, calls, envVars, tries>>

(* The shutdown command, or the end of the input: stop(false).             *)
Shutdown ==
    /\ main.pc = "serve"
    /\ main' = [main EXCEPT !.pc = "drain"]
    /\ UNCHANGED <<queueVars, credits, stopping, cancelVars, started, memVars,
                   envVars, wk, results, tries>>

(* wait_for_pending_jobs_to_drain; then stopping_ is set.                  *)
AwaitDrain ==
    /\ main.pc = "drain" /\ Unlocked
    /\ main' = [main EXCEPT !.pc =
          IF Drained(fore, back, active, parked) THEN "stop" ELSE "asleep"]
    /\ UNCHANGED <<queueVars, credits, stopping, cancelVars, started, memVars,
                   envVars, wk, results, tries>>

Stop ==
    /\ main.pc = "stop" /\ Unlocked
    /\ stopping' = TRUE
    /\ wk' = NotifiedAll(wk)
    /\ main' = [main EXCEPT !.pc = "join"]
    /\ UNCHANGED <<queueVars, credits, cancelVars, started, memVars, envVars,
                   results, tries>>

Join ==
    /\ main.pc = "join"
    /\ \A w \in Workers : wk[w].pc = "exited"
    /\ main' = [main EXCEPT !.pc = "done"]
    /\ UNCHANGED <<queueVars, credits, stopping, cancelVars, started, memVars,
                   envVars, wk, results, tries>>

MainStep == Withdraw \/ AwaitDrain \/ Stop \/ Join

-----------------------------------------------------------------------------
(* A worker thread.                                                        *)

(* The head of worker_loop, under mutex_: take a job, leave, or sleep.  If *)
(* a decoder takes the last credit between the test and try_acquire_base   *)
(* the thread tests again.                                                 *)
Test(w) ==
    LET empty == Queued = {}
        j == IF fore # <<>> THEN Head(fore) ELSE Head(back)
    IN
    /\ wk[w].pc = "test" /\ Unlocked
    /\ IF ~empty /\ credits < Capacity
       THEN /\ credits' = credits + 1
            /\ IF fore # <<>> THEN fore' = Tail(fore) /\ UNCHANGED back
               ELSE back' = Tail(back) /\ UNCHANGED fore
            /\ active' = active + 1
            /\ wk' = [wk EXCEPT ![w] = [Thread("begin", j) EXCEPT !.baton =
                         Len(fore) + Len(back) > 1 /\ credits + 1 < Capacity]]
       ELSE /\ wk' = [wk EXCEPT ![w].pc =
                         IF stopping /\ empty /\ parked = 0 THEN "exited" ELSE "falling"]
            /\ UNCHANGED <<fore, back, active, credits>>
    /\ UNCHANGED <<parked, stopping, cancelVars, started, memVars, envVars, main,
                   results, tries>>

Fall(w) ==
    /\ wk[w].pc = "falling"
    /\ wk' = [wk EXCEPT ![w].pc = "asleep"]
    /\ UNCHANGED <<queueVars, credits, stopping, cancelVars, started, memVars,
                   envVars, main, results, tries>>

(* The wake-up is handed on and the attempt begins: memory_.begin clears   *)
(* what the previous attempt left.                                         *)
Begin(w) ==
    LET j == wk[w].job
        ws == [wk EXCEPT ![w].pc = "register", ![w].baton = FALSE]
    IN
    /\ wk[w].pc = "begin"
    /\ wk' = IF wk[w].baton THEN NotifiedOne(ws) ELSE ws
    /\ started' = started \cup {j}
    /\ mem' = [mem EXCEPT ![j].listed = TRUE, ![j].running = TRUE, ![j].revoked = FALSE]
    /\ flag' = flag \ {j}
    /\ UNCHANGED <<queueVars, credits, stopping, known, token, attempt, waiters,
                   calls, envVars, main, results, tries>>

(* Mutant: the attempt is registered without looking at the token again.   *)
Register_NoRecheck(w) ==
    LET j == wk[w].job IN
    /\ wk[w].pc = "register"
    /\ attempt' = IF j \in known THEN attempt \cup {j} ELSE attempt
    /\ wk' = [wk EXCEPT ![w].pc = "run"]
    /\ UNCHANGED <<queueVars, credits, stopping, known, token, flag, started,
                   memVars, envVars, main, results, tries>>

(* The attempt becomes cancellable; a cancel that came first is repeated.  *)
Register(w) ==
    LET j == wk[w].job IN
    /\ wk[w].pc = "register"
    /\ attempt' = IF j \in known THEN attempt \cup {j} ELSE attempt
    /\ flag' = IF j \in token THEN flag \cup {j} ELSE flag
    /\ wk' = [wk EXCEPT ![w].pc = "run"]
    /\ UNCHANGED <<queueVars, credits, stopping, known, token, started, memVars,
                   envVars, main, results, tries>>

(* A decoder borrows one more credit and gives it back.                    *)
Borrow(w) ==
    /\ wk[w].pc = "run" /\ wk[w].extra = "no" /\ credits < Capacity
    /\ credits' = credits + 1
    /\ wk' = [wk EXCEPT ![w].extra = "held"]
    /\ UNCHANGED <<queueVars, stopping, cancelVars, started, memVars, envVars,
                   main, results, tries>>

GiveBack(w) ==
    /\ wk[w].pc = "run" /\ wk[w].extra = "held"
    /\ ReleaseCredit([wk EXCEPT ![w].extra = "returned"])
    /\ UNCHANGED <<queueVars, stopping, cancelVars, started, memVars, envVars,
                   main, results, tries>>

(* run_request.  An attempt withdrawn by the arbitrator ends without a     *)
(* result, unless it has succeeded all the same; a replay whose input has  *)
(* changed fails; otherwise the flag decides between the two results.      *)
RunEnds(w, line) ==
    LET j == wk[w].job IN
    /\ results' = [results EXCEPT ![j] = Append(@, line)]
    /\ wk' = [wk EXCEPT ![w].pc = "release"]
    /\ UNCHANGED <<flag, mem, tries>>

RunWithdrawn(w) ==
    LET j == wk[w].job IN
    /\ wk' = [wk EXCEPT ![w].pc = "release", ![w].retry = TRUE]
    /\ flag' = flag \cup {j}
    /\ mem' = [mem EXCEPT ![j].revoked = TRUE]
    /\ UNCHANGED results

Run(w) ==
    LET j == wk[w].job IN
    /\ wk[w].pc = "run" /\ wk[w].extra # "held"
    /\ \/ j \in flag /\ RunEnds(w, "cancelled")
       \/ j \notin flag /\ RunEnds(w, "finished")
       \/ tries[j] > 0 /\ j \notin token /\ RunEnds(w, "finished")
       \/ mem[j].revoked /\ RunWithdrawn(w) /\ UNCHANGED tries
       \/ /\ memory = "short" /\ ~mem[j].revoked /\ tries[j] < MaxRetries
          /\ RunWithdrawn(w)
          /\ tries' = [tries EXCEPT ![j] = @ + 1]
    /\ UNCHANGED <<queueVars, credits, stopping, known, token, attempt, started,
                   waiters, calls, envVars, main>>

(* cpu_budget_.release(1), without mutex_.                                 *)
Release(w) ==
    /\ wk[w].pc = "release"
    /\ ReleaseCredit([wk EXCEPT ![w].pc = IF wk[w].retry THEN "leave" ELSE "finish"])
    /\ UNCHANGED <<queueVars, stopping, cancelVars, started, memVars, envVars,
                   main, results, tries>>

(* memory_.end, then a withdrawn job is counted as parked before the       *)
(* arbitrator has it.  The arbitrator stops only after the drain, so       *)
(* park() always takes it.                                                 *)
Leave(w) ==
    /\ wk[w].pc = "leave" /\ Unlocked
    /\ mem' = [mem EXCEPT ![wk[w].job] = Ended(@)]
    /\ active' = active - 1 /\ parked' = parked + 1
    /\ wk' = [wk EXCEPT ![w].pc = "park"]
    /\ UNCHANGED <<fore, back, credits, stopping, cancelVars, started, waiters,
                   calls, envVars, main, results, tries>>

Park(w) ==
    /\ wk[w].pc = "park"
    /\ waiters' = waiters \cup {wk[w].job}
    /\ wk' = [wk EXCEPT ![w] = Thread("test", None)]
    /\ UNCHANGED <<queueVars, credits, stopping, cancelVars, started, mem, calls,
                   envVars, main, results, tries>>

(* Mutant: the job is still counted as active when it is over.             *)
Finish_StillActive(w) ==
    LET j == wk[w].job IN
    /\ wk[w].pc = "finish" /\ Unlocked
    /\ mem' = [mem EXCEPT ![j] = Ended(@)]
    /\ known' = known \ {j}
    /\ wk' = [wk EXCEPT ![w] = Thread("test", None)]
    /\ UNCHANGED <<queueVars, credits, stopping, token, attempt, flag, started,
                   waiters, calls, envVars, main, results, tries>>

(* memory_.end and the tail of worker_loop, with the erasure of the job's  *)
(* cancel token: a cancel that comes before it is accepted to no effect.   *)
Finish(w) ==
    LET j == wk[w].job IN
    /\ wk[w].pc = "finish" /\ Unlocked
    /\ mem' = [mem EXCEPT ![j] = Ended(@)]
    /\ active' = active - 1
    /\ known' = known \ {j}
    /\ main' = [main EXCEPT !.pc =
          IF @ = "asleep" /\ Drained(fore, back, active', parked) THEN "drain" ELSE @]
    /\ wk' = [wk EXCEPT ![w] = Thread("test", None)]
    /\ UNCHANGED <<fore, back, parked, credits, stopping, token, attempt, flag,
                   started, waiters, calls, envVars, results, tries>>

WorkerStep(w) ==
    \/ Test(w) \/ Fall(w) \/ Begin(w) \/ Register(w) \/ GiveBack(w) \/ Run(w)
    \/ Release(w) \/ Leave(w) \/ Park(w) \/ Finish(w)

-----------------------------------------------------------------------------
(* The arbitrator's monitor thread, and the memory of the machine.         *)

MemoryChanges ==
    /\ \/ memory = "ok" /\ changes < MaxChanges /\ memory' = "short" /\ changes' = changes + 1
       \/ memory = "short" /\ memory' = "ok" /\ UNCHANGED changes
    /\ UNCHANGED <<queueVars, credits, stopping, cancelVars, started, memVars, wk,
                   main, results, tries>>

(* revoke_locked on a running victim.                                      *)
Revoke(j) ==
    /\ memory = "short" /\ tries[j] < MaxRetries
    /\ mem[j].listed /\ mem[j].running /\ ~mem[j].revoked
    /\ mem' = [mem EXCEPT ![j].revoked = TRUE]
    /\ flag' = flag \cup {j}
    /\ tries' = [tries EXCEPT ![j] = @ + 1]
    /\ UNCHANGED <<queueVars, credits, stopping, known, token, attempt, started,
                   waiters, calls, envVars, wk, main, results>>

(* Mutant: a parked job is not asked whether it was cancelled.             *)
Cancelled_Ignored == {}

(* Waiters whose cancel_token is set.                                      *)
Cancelled == waiters \cap token

(* One round over waiters_: a cancelled waiter goes, and so do some that   *)
(* fit; at least one when nobody else makes progress.  The order of the    *)
(* callbacks of a round is not modelled.                                   *)
Grant ==
    LET dead == Cancelled
        progressing == \E j \in Jobs : mem[j].listed /\ (mem[j].running \/ mem[j].admitted)
    IN
    /\ calls = {}
    /\ \E fit \in SUBSET (waiters \ dead) :
          /\ memory = "short" => fit = {}
          /\ (memory = "ok" /\ ~progressing /\ waiters \ dead # {}) => fit # {}
          /\ dead \cup fit # {}
          /\ mem' = [j \in Jobs |-> IF j \in fit
                        THEN [mem[j] EXCEPT !.listed = TRUE, !.admitted = TRUE] ELSE mem[j]]
          /\ calls' = dead \cup fit
          /\ waiters' = waiters \ (dead \cup fit)
    /\ UNCHANGED <<queueVars, credits, stopping, cancelVars, started, envVars, wk,
                   main, results, tries>>

(* The ready callback: the job goes to the front of its queue.             *)
Ready(j) ==
    /\ j \in calls /\ Unlocked
    /\ calls' = calls \ {j}
    /\ parked' = parked - 1
    /\ PushFront(j)
    /\ wk' = NotifiedOne(wk)
    /\ UNCHANGED <<active, credits, stopping, cancelVars, started, mem, waiters,
                   envVars, main, results, tries>>

AllDone == main.pc = "done" /\ UNCHANGED vars

Next ==
    \/ \E j \in Jobs : Submit(j) \/ Cancel(j) \/ Revoke(j) \/ Ready(j)
    \/ Shutdown \/ MainStep \/ MemoryChanges \/ Grant \/ AllDone
    \/ \E w \in Workers : Borrow(w) \/ WorkerStep(w)

(* Threads that can go on do, the monitor keeps looking at its waiters,    *)
(* and the input ends.                                                     *)
Fairness ==
    /\ WF_vars(Shutdown) /\ WF_vars(MainStep)
    /\ WF_vars(Grant) /\ \A j \in Jobs : WF_vars(Ready(j))
    /\ \A w \in Workers : WF_vars(WorkerStep(w))

Spec == Init /\ [][Next]_vars /\ Fairness

-----------------------------------------------------------------------------
(* Properties.                                                             *)

At(S) == {w \in Workers : wk[w].pc \in S}
Owning == {"begin", "register", "run", "release", "leave", "park", "finish"}

(* Types, and the counters agree with the threads and lists they stand     *)
(* for at every step: active_jobs_, parked_jobs_ and the reserved credits  *)
(* are changed under different locks in a different order on every path.   *)
ExecutorTypeOK ==
    /\ token \subseteq Jobs /\ known \subseteq Jobs /\ flag \subseteq Jobs
    /\ \A j \in Jobs : Len(results[j]) <= 1 /\ tries[j] \in 0 .. MaxRetries
    /\ active = Cardinality(At(Owning \ {"park"}))
    /\ parked = Cardinality(At({"park"})) + Cardinality(waiters) + Cardinality(calls)
    /\ credits = Cardinality(At({"begin", "register", "run", "release"}))
                + Cardinality({w \in Workers : wk[w].extra = "held"})
    /\ credits <= Capacity

(* Where a job is: every accepted job without a result is in exactly one   *)
(* place, and a job that has its result is in none and holds no admission. *)
Places(j) ==
    Cardinality({i \in DOMAIN fore : fore[i] = j})
    + Cardinality({i \in DOMAIN back : back[i] = j})
    + (IF j \in waiters THEN 1 ELSE 0) + (IF j \in calls THEN 1 ELSE 0)
    + Cardinality({w \in At(Owning) : wk[w].job = j})

(* A cancel that was accepted reaches the attempt that runs, whichever of  *)
(* the reset in begin, the registration and the cancel came first; and no  *)
(* job is lost or run twice on the ways between queue, thread, arbitrator  *)
(* and canceller.                                                          *)
CancelReaches ==
    \A j \in Jobs :
        /\ (j \in token /\ \E w \in At({"run"}) : wk[w].job = j) => j \in flag
        /\ (j \in known /\ results[j] = <<>>) => Places(j) = 1
        /\ (j \notin known) => Places(j) = 0 /\ mem[j].listed = FALSE

(* If memory comes back for good, a shutdown drains every job, each with   *)
(* exactly one result, and returns; a cancelled job ends even if memory    *)
(* stays short.                                                            *)
ShutdownDrains ==
    /\ <>[](memory = "ok") => <>(main.pc = "done" /\ known = {})
    /\ \A j \in Jobs : j \in token ~> results[j] # <<>>

=============================================================================
