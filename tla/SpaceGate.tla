------------------------------ MODULE SpaceGate ------------------------------
(***************************************************************************)
(* Disk-full recovery in the 7-Zip worker: job threads that create         *)
(* directories on one volume (create_directories_with_space_gate over      *)
(* retry_with_space_gate), the volume's gate, the space monitor that       *)
(* samples free space and hands out the probe permit, the event lines the  *)
(* worker prints outside the gate's lock, and the Python side that folds   *)
(* them into each job's space_waiting flag.                                *)
(*                                                                         *)
(* A step is one critical section of the gate, one file system call, one   *)
(* atomic operation on the monitor's generation word or one printed line.  *)
(* The volume itself is the environment: "free", "full" or "gone"          *)
(* (unplugged).  It changes, or fails a query while it can still be        *)
(* written to, at most MaxChanges times.                                   *)
(***************************************************************************)
EXTENDS VolumeGate, FiniteSets

CONSTANTS
    Jobs,         \* jobs whose output is on this volume
    Monitor,      \* the monitor thread, as an emitter of events
    Directories,  \* directories a job creates, one after the other
    MaxChanges    \* bound: changes of the volume and stray query failures

ASSUME GateAssumption ==
    /\ IsFiniteSet(Jobs)
    /\ Monitor \notin Jobs
    /\ Directories \in Nat
    /\ MaxChanges \in Nat

VARIABLES
    gate,       \* the VolumeSpaceGate
    vol,        \* condition of the volume
    changes,    \* what the environment has done of MaxChanges
    pc,         \* where each job's thread is
    left,       \* directories each job has still to create
    lease,      \* token of the ProbeLease each thread holds, or NoToken
    outcome,    \* AttemptResult of a thread that has not settled its lease
    cancelled,  \* jobs whose cancel flag is set
    out,        \* the transition each thread is emitting
    sampling,   \* low bit of sampling_generation_
    noted,      \* the generation moved since the tick that may stop it began
    mon,        \* where the monitor thread is in tick()
    sample,     \* free bytes it read are positive
    reported,   \* job ids a status report goes to
    rx,         \* per job, the space fields of the Python job state
    revoked     \* history: threads whose lease is older than a failed query

threadVars == <<pc, left, lease, outcome>>
monVars    == <<mon, sample, reported>>
vars == <<gate, vol, changes, pc, left, lease, outcome, cancelled, out,
          sampling, noted, mon, sample, reported, rx, revoked>>

Emitters == Jobs \cup {Monitor}

(* A VolumeSpaceTransition on its way: the sink first calls note_blocked   *)
(* for a Blocked one, then prints one line per job of job_ids.             *)
Nothing == [kind |-> "none", episode |-> 0, to |-> {}, noted |-> TRUE]

(* make_transition_locked: the snapshot taken under the gate's lock.       *)
Transition(kind, g, to) ==
    [kind |-> kind, episode |-> g.episode, to |-> to,
     noted |-> kind # "blocked"]

Silent(a) == out[a] = Nothing

Rest(e) == IF e.noted /\ e.to = {} THEN Nothing ELSE e

(* Tokens are drawn from next_token_++; all that is ever asked of one is   *)
(* whether it equals another, so the least one no thread holds stands for  *)
(* the fresh one.                                                          *)
Tokens == 1 .. Cardinality(Jobs)

IsFreshToken(t) ==
    /\ \A j \in Jobs : lease[j] # t
    /\ \A u \in 1 .. (t - 1) : \E j \in Jobs : lease[j] = u

NewJobState == [episode |-> 0, resumed |-> FALSE, waiting |-> FALSE]

Init ==
    /\ gate = NewGate
    /\ vol \in {"free", "full"}
    /\ changes = 0
    /\ pc = [j \in Jobs |-> "new"]
    /\ left = [j \in Jobs |-> Directories]
    /\ lease = [j \in Jobs |-> NoToken]
    /\ outcome = [j \in Jobs |-> "ok"]
    /\ cancelled = {}
    /\ out = [a \in Emitters |-> Nothing]
    /\ sampling = FALSE
    /\ noted = FALSE
    /\ mon = "idle"
    /\ sample = FALSE
    /\ reported = {}
    /\ rx = [j \in Jobs |-> NewJobState]
    /\ revoked = {}

-----------------------------------------------------------------------------
(* The environment.                                                        *)

VolumeChanges ==
    /\ changes < MaxChanges
    /\ \E v \in {"free", "full", "gone"} \ {vol} : vol' = v
    /\ changes' = changes + 1
    /\ UNCHANGED <<gate, threadVars, cancelled, out, sampling, noted, monVars,
                   rx, revoked>>

(* NativeJobExecutor::cancel sets the job's flag; the terminal predicate   *)
(* of its waits reads it.                                                  *)
Cancel(j) ==
    /\ j \notin cancelled /\ pc[j] # "out"
    /\ cancelled' = cancelled \cup {j}
    /\ UNCHANGED <<gate, vol, changes, threadVars, out, sampling, noted,
                   monVars, rx, revoked>>

-----------------------------------------------------------------------------
(* A job's thread.  It prints its own transitions before it goes on.       *)

(* SpaceJobRegistration: on a blocked volume the job is told at once.      *)
Register(j) ==
    /\ pc[j] = "new"
    /\ gate' = RegisterJob(gate, j)
    /\ out' = IF LateBlocked(gate, j)
              THEN [out EXCEPT ![j] = Transition("blocked", gate, {j})]
              ELSE out
    /\ pc' = [pc EXCEPT ![j] = "run"]
    /\ UNCHANGED <<vol, changes, left, lease, outcome, cancelled, sampling,
                   noted, monVars, rx, revoked>>

(* Mutant: one directory too many.                                         *)
StartDirectory_OneMore(j) ==
    /\ pc[j] = "run" /\ Silent(j)
    /\ pc' = [pc EXCEPT ![j] = IF j \in cancelled THEN "end" ELSE "try"]
    /\ UNCHANGED <<gate, vol, changes, left, lease, outcome, cancelled, out,
                   sampling, noted, monVars, rx, revoked>>

(* create_directories_with_space_gate up to the first attempt: a cancelled *)
(* job must not create the directory.                                      *)
StartDirectory(j) ==
    /\ pc[j] = "run" /\ Silent(j) /\ left[j] > 0
    /\ pc' = [pc EXCEPT ![j] = IF j \in cancelled THEN "end" ELSE "try"]
    /\ UNCHANGED <<gate, vol, changes, left, lease, outcome, cancelled, out,
                   sampling, noted, monVars, rx, revoked>>

(* What one real call to the file system returns: is_space_exhaustion_error*)
(* tells a full volume from any other error.                               *)
AttemptOn(v) ==
    CASE v = "free" -> "ok"
      [] v = "full" -> "space"
      [] v = "gone" -> "permanent"

(* Where retry_with_space_gate goes with a result: it returns any but a    *)
(* space failure; of those, one made under a lease is evidence already.    *)
ThenGo(result, held) ==
    CASE result = "ok"        -> "run"
      [] result = "permanent" -> "end"
      [] OTHER                -> IF held THEN "wait" ELSE "report"

Attempt(j) ==
    /\ pc[j] = "try"
    /\ LET result == AttemptOn(vol)
           held   == lease[j] # NoToken
       IN /\ outcome' = [outcome EXCEPT ![j] = IF held THEN result ELSE @]
          /\ pc' = [pc EXCEPT ![j] =
                       IF held THEN "settle" ELSE ThenGo(result, FALSE)]
          /\ left' = [left EXCEPT ![j] =
                       IF result = "ok" THEN @ - 1 ELSE @]
    /\ UNCHANGED <<gate, vol, changes, lease, cancelled, out, sampling, noted,
                   monVars, rx, revoked>>

(* report_retry_space_failure, without a lease in hand.                    *)
Report(j) ==
    /\ pc[j] = "report"
    /\ gate' = ReportSpaceFailure(gate)
    /\ out' = IF OpensEpisode(gate)
              THEN [out EXCEPT ![j] = Rest(Transition("blocked", gate', gate.jobs))]
              ELSE out
    /\ pc' = [pc EXCEPT ![j] = "wait"]
    /\ UNCHANGED <<vol, changes, left, lease, outcome, cancelled, sampling,
                   noted, monVars, rx, revoked>>

(* wait(): the thread re-evaluates decide_locked on every notification and *)
(* every wait_tick_, and leaves with the first answer that is not Pending. *)
Wait(j) ==
    /\ pc[j] = "wait" /\ Silent(j)
    /\ LET decision == Decision(gate, j \in cancelled)
       IN /\ decision # "pending"
          /\ pc' = [pc EXCEPT ![j] =
                       IF decision = "terminal" THEN "end" ELSE "try"]
          /\ IF decision = "probe"
             THEN \E t \in Tokens :
                     /\ IsFreshToken(t)
                     /\ lease' = [lease EXCEPT ![j] = t]
                     /\ gate' = ClaimProbe(gate, t)
             ELSE UNCHANGED <<gate, lease>>
    /\ UNCHANGED <<vol, changes, left, outcome, cancelled, out, sampling,
                   noted, monVars, rx, revoked>>

(* settle_space_attempt; a Resumed transition follows a valid success.     *)
Settle(j) ==
    /\ pc[j] = "settle"
    /\ gate' = SettleAttempt(gate, lease[j], outcome[j])
    /\ out' = IF outcome[j] = "ok" /\ OwnsProbe(gate, lease[j])
              THEN [out EXCEPT ![j] = Rest(Transition("resumed", gate, gate.jobs))]
              ELSE out
    /\ lease' = [lease EXCEPT ![j] = NoToken]
    /\ pc' = [pc EXCEPT ![j] = ThenGo(outcome[j], TRUE)]
    /\ outcome' = [outcome EXCEPT ![j] = "ok"]
    /\ revoked' = revoked \ {j}
    /\ UNCHANGED <<vol, changes, left, cancelled, sampling, noted, monVars, rx>>

(* The registration's destructor, when run_request has returned.           *)
Unregister(j) ==
    /\ Silent(j)
    /\ pc[j] = "end" \/ (pc[j] = "run" /\ left[j] = 0)
    /\ gate' = UnregisterJob(gate, j)
    /\ pc' = [pc EXCEPT ![j] = "out"]
    /\ UNCHANGED <<vol, changes, left, lease, outcome, cancelled, out,
                   sampling, noted, monVars, rx, revoked>>

JobStep(j) ==
    \/ Register(j) \/ StartDirectory(j) \/ Attempt(j) \/ Report(j)
    \/ Wait(j) \/ Settle(j) \/ Unregister(j)

-----------------------------------------------------------------------------
(* Events: on_space_transition, outside the gate's lock.                   *)

(* note_blocked: a compare-exchange loop that bumps the generation and     *)
(* sets the sampling bit.                                                  *)
NoteBlocked(a) ==
    /\ ~out[a].noted
    /\ out' = [out EXCEPT ![a] = Rest([@ EXCEPT !.noted = TRUE])]
    /\ sampling' = TRUE
    /\ noted' = (mon \in {"pull", "affected", "stop"})
    /\ UNCHANGED <<gate, vol, changes, threadVars, cancelled, monVars, rx,
                   revoked>>

(* Mutant: a late Blocked line of an episode that has resumed is believed. *)
OnSpaceEvent_LateBlocked(s, kind, episode) ==
    IF episode < s.episode THEN s
    ELSE [episode |-> episode, resumed |-> FALSE,
          waiting |-> IF kind = "status" THEN s.waiting ELSE kind = "blocked"]

(* _on_space_event: what a line does to the job state in the parent.  A    *)
(* line of an older episode, and a Blocked or Status line of an episode    *)
(* that has resumed, are stale.                                            *)
OnSpaceEvent(s, kind, episode) ==
    LET resumed == episode = s.episode /\ s.resumed
    IN  IF episode < s.episode THEN s
        ELSE [episode |-> episode,
              resumed |-> kind = "resumed" \/ resumed,
              waiting |-> /\ kind # "resumed"
                          /\ s.waiting \/ (kind = "blocked" /\ ~resumed)]

(* print_volume_space_event: one line, read by the parent in print order.  *)
PrintLine(a) ==
    /\ out[a].noted
    /\ \E j \in out[a].to :
          /\ rx' = [rx EXCEPT ![j] = OnSpaceEvent(@, out[a].kind, out[a].episode)]
          /\ out' = [out EXCEPT ![a] = Rest([out[a] EXCEPT !.to = @ \ {j}])]
    /\ UNCHANGED <<gate, vol, changes, threadVars, cancelled, sampling, noted,
                   monVars, revoked>>

EmitStep(a) == NoteBlocked(a) \/ PrintLine(a)

-----------------------------------------------------------------------------
(* The monitor thread: VolumeSpaceMonitor::tick over the one volume.       *)

MonitorAt(here, there) == mon = here /\ mon' = there

(* tick() starts only while sampling; it remembers the generation.         *)
Tick ==
    /\ Silent(Monitor) /\ sampling
    /\ MonitorAt("idle", "pull")
    /\ UNCHANGED <<gate, vol, changes, threadVars, cancelled, out, sampling,
                   noted, sample, reported, rx, revoked>>

(* blocked_volumes(true) asks the gate two questions under two locks.      *)
PullBlocked ==
    /\ MonitorAt("pull", IF Blocked(gate) THEN "affected" ELSE "stop")
    /\ UNCHANGED <<gate, vol, changes, threadVars, cancelled, out, sampling,
                   noted, sample, reported, rx, revoked>>

PullAffected ==
    /\ MonitorAt("affected", IF gate.jobs # {} THEN "query" ELSE "stop")
    /\ noted' = (noted /\ gate.jobs = {})
    /\ UNCHANGED <<gate, vol, changes, threadVars, cancelled, out, sampling,
                   sample, reported, rx, revoked>>

(* Mutant: an empty snapshot stops the sampler unconditionally.            *)
StopSampling_AnyGeneration ==
    /\ MonitorAt("stop", "idle")
    /\ sampling' = FALSE
    /\ noted' = FALSE
    /\ UNCHANGED <<gate, vol, changes, threadVars, cancelled, out, sample,
                   reported, rx, revoked>>

(* An empty snapshot stops the sampler, unless the generation has moved.   *)
StopSampling ==
    /\ MonitorAt("stop", "idle")
    /\ sampling' = (sampling /\ noted)
    /\ noted' = FALSE
    /\ UNCHANGED <<gate, vol, changes, threadVars, cancelled, out, sample,
                   reported, rx, revoked>>

(* query_free_bytes: it fails on a volume that is gone, and can fail on    *)
(* one that is still written to (a share's hiccup, a root not resolved).   *)
(* A full volume may report a few bytes, too few for what the jobs create. *)
QueryFails ==
    /\ vol = "gone" \/ changes < MaxChanges
    /\ MonitorAt("query", "note")
    /\ changes' = IF vol = "gone" THEN changes ELSE changes + 1
    /\ gate' = RecordQueryFailure(gate)
    /\ revoked' = revoked \cup {j \in Jobs : lease[j] # NoToken}
    /\ UNCHANGED <<vol, threadVars, cancelled, out, sampling, noted, sample,
                   reported, rx>>

QuerySucceeds ==
    /\ vol # "gone"
    /\ MonitorAt("query", "poll")
    /\ sample' \in (IF vol = "free" THEN {TRUE} ELSE BOOLEAN)
    /\ UNCHANGED <<gate, vol, changes, threadVars, cancelled, out, sampling,
                   noted, reported, rx, revoked>>

NoteQueryFailure ==
    /\ MonitorAt("note", "status")
    /\ gate' = RecordQueryFailure(gate)
    /\ UNCHANGED <<vol, changes, threadVars, cancelled, out, sampling, noted,
                   sample, reported, rx, revoked>>

PollGate ==
    /\ MonitorAt("poll", "status")
    /\ gate' = Poll(gate, sample)
    /\ sample' = FALSE
    /\ UNCHANGED <<vol, changes, threadVars, cancelled, out, sampling, noted,
                   reported, rx, revoked>>

(* maybe_emit_status: at most one report per interval, and none from a     *)
(* ready gate.  The interval is a choice here.                             *)
TakeStatusReport ==
    /\ \/ MonitorAt("status", "idle")
       \/ Blocked(gate) /\ MonitorAt("status", "ids")
    /\ UNCHANGED <<gate, vol, changes, threadVars, cancelled, out, sampling,
                   noted, sample, reported, rx, revoked>>

(* print_volume_space_status reads the job ids and the episode under two   *)
(* further locks.                                                          *)
ReadStatusIds ==
    /\ MonitorAt("ids", IF gate.jobs = {} THEN "idle" ELSE "episode")
    /\ reported' = gate.jobs
    /\ UNCHANGED <<gate, vol, changes, threadVars, cancelled, out, sampling,
                   noted, sample, rx, revoked>>

EmitStatus ==
    /\ MonitorAt("episode", "idle")
    /\ out' = [out EXCEPT ![Monitor] = Transition("status", gate, reported)]
    /\ reported' = {}
    /\ UNCHANGED <<gate, vol, changes, threadVars, cancelled, sampling, noted,
                   sample, rx, revoked>>

MonitorStep ==
    \/ Tick \/ PullBlocked \/ PullAffected \/ StopSampling \/ QueryFails
    \/ QuerySucceeds \/ NoteQueryFailure \/ PollGate \/ TakeStatusReport \/ ReadStatusIds
    \/ EmitStatus

(* All jobs have ended and the monitor sleeps.                             *)
AllEnded ==
    /\ \A j \in Jobs : pc[j] = "out"
    /\ \A a \in Emitters : Silent(a)
    /\ mon = "idle" /\ ~sampling
    /\ UNCHANGED vars

Next ==
    \/ VolumeChanges
    \/ \E j \in Jobs : Cancel(j) \/ JobStep(j)
    \/ \E a \in Emitters : EmitStep(a)
    \/ MonitorStep
    \/ AllEnded

(* Threads run, file system calls return, a waiter looks at least every    *)
(* wait_tick_ and the monitor ticks while sampling.  Nothing makes the     *)
(* volume change or a job be cancelled.                                    *)
Fairness ==
    /\ \A j \in Jobs : WF_vars(JobStep(j))
    /\ \A a \in Emitters : WF_vars(EmitStep(a))
    /\ WF_vars(MonitorStep)

Spec == Init /\ [][Next]_vars /\ Fairness

-----------------------------------------------------------------------------
(* Properties.                                                             *)

Transitions ==
    [kind : {"none", "blocked", "resumed", "status"}, episode : Nat,
     to : SUBSET Jobs, noted : BOOLEAN]

(* The types of the gate's members and of the threads' states.             *)
GateTypeOK ==
    /\ gate \in [phase : {"ready", "blocked", "probing"}, episode : Nat,
                 owner : Nat, emitted : BOOLEAN, jobs : SUBSET Jobs]
    /\ vol \in {"free", "full", "gone"} /\ changes \in 0 .. MaxChanges
    /\ pc \in [Jobs -> {"new", "run", "try", "settle", "report", "wait",
                        "end", "out"}]
    /\ left \in [Jobs -> 0 .. Directories]
    /\ lease \in [Jobs -> Nat]
    /\ outcome \in [Jobs -> {"ok", "space", "permanent"}]
    /\ cancelled \subseteq Jobs /\ revoked \subseteq Jobs
    /\ out \in [Emitters -> Transitions]
    /\ sampling \in BOOLEAN /\ noted \in BOOLEAN /\ sample \in BOOLEAN
    /\ mon \in {"idle", "pull", "affected", "stop", "query", "note", "poll",
                "status", "ids", "episode"}
    /\ reported \subseteq Jobs
    /\ rx \in [Jobs -> [episode : Nat, resumed : BOOLEAN, waiting : BOOLEAN]]

(* The permit of a probing gate is either unclaimed or held by exactly one *)
(* thread that is about to attempt or to settle: no early return, revoked  *)
(* lease or cancelled owner loses it, which would leave the volume probing *)
(* for ever, and no two threads probe at once.                             *)
PermitIsHeld ==
    gate.owner # NoToken =>
        /\ gate.phase = "probing"
        /\ \E j \in Jobs :
              /\ lease[j] = gate.owner
              /\ pc[j] \in {"try", "settle"}
              /\ \A k \in Jobs \ {j} : lease[k] # gate.owner

(* A full volume becomes ready only by a real success made under a lease   *)
(* that no failed query has revoked since: a late completion of an older   *)
(* probe must not resume a volume that could not even be queried.          *)
ResumeIsEarned ==
    [][ (Blocked(gate) /\ ~Blocked(gate')) =>
            \E j \in Jobs :
                /\ pc[j] = "settle" /\ pc'[j] # "settle"
                /\ outcome[j] = "ok"
                /\ j \notin revoked ]_vars

(* A blocked volume with jobs on it is sampled, or a Blocked transition    *)
(* that starts the sampler is on its way: the monitor's empty snapshot     *)
(* never switches off an episode it has not seen.                          *)
SamplingAlive ==
    (Blocked(gate) /\ gate.jobs # {}) =>
        sampling \/ \E a \in Emitters : ~out[a].noted

(* Whatever the order in which lines of different threads were printed,    *)
(* once none of them is under way for a registered job the parent shows    *)
(* the job as paused exactly when its volume is blocked.                   *)
EventsConverge ==
    \A j \in gate.jobs :
        (\A a \in Emitters :
             out[a].kind \in {"blocked", "resumed"} => j \notin out[a].to)
        => rx[j].waiting = Blocked(gate)

(* A thread waiting on a volume that has space again, and keeps it, gets   *)
(* its directory created or ends; a cancelled one stops waiting whatever   *)
(* its volume does.                                                        *)
Recovers ==
    \A j \in Jobs :
        (pc[j] = "wait" /\ (vol = "free" \/ j \in cancelled))
            ~> (\/ pc[j] \in {"run", "end", "out"}
                \/ (vol # "free" /\ j \notin cancelled))

=============================================================================
