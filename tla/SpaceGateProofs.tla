-------------------------- MODULE SpaceGateProofs --------------------------
(***************************************************************************)
(* For any number of jobs, directories and changes of the volume: the      *)
(* probe permit is neither lost nor doubled, a volume resumes only by a    *)
(* probe nothing has revoked, the sampler never stops over an open         *)
(* episode, and the parent's view of each job converges.                   *)
(***************************************************************************)
EXTENDS SpaceGate, FiniteSetTheorems, TLAPS

(***************************************************************************)
(* The inductive invariant.                                                *)
(***************************************************************************)

\* A thread between the start of a directory and its creation has one left.
LeftInv ==
    \A j \in Jobs :
        /\ pc[j] \in {"try", "report", "wait"} => left[j] > 0
        /\ pc[j] = "settle" /\ outcome[j] = "space" => left[j] > 0

\* Who holds a lease, that no two threads hold the same one, and that a
\* revoked one is not the gate's.
LeaseInv ==
    /\ \A j \in Jobs : lease[j] # NoToken => pc[j] \in {"try", "settle"}
    /\ \A j \in Jobs : pc[j] = "settle" => lease[j] # NoToken
    /\ \A j, k \in Jobs : lease[j] = lease[k] /\ lease[j] # NoToken => j = k
    /\ \A j \in revoked : lease[j] # NoToken /\ lease[j] # gate.owner

\* The gate's owner is some thread's lease.
OwnerInv ==
    gate.owner # NoToken =>
        gate.phase = "probing" /\ \E j \in Jobs : lease[j] = gate.owner

\* A thread emits its own transitions and has none left when it goes on; the
\* monitor emits status reports only.
EmitInv ==
    /\ \A j \in Jobs : pc[j] \in {"new", "try", "settle", "report"} => Silent(j)
    /\ out[Monitor].kind \in {"none", "status"} /\ out[Monitor].noted

\* The sampler is on while there is something to sample, and the tick that is
\* about to switch it off knows better.
SamplerInv ==
    /\ Blocked(gate) => gate.emitted
    /\ (Blocked(gate) /\ gate.jobs # {}) =>
          \/ \E a \in Emitters : ~out[a].noted
          \/ sampling /\ (mon = "stop" => noted)

\* Nobody has heard of a job that has not registered.
NewJobInv ==
    \A j \in Jobs : pc[j] = "new" =>
        /\ j \notin gate.jobs /\ j \notin reported
        /\ \A a \in Emitters : j \notin out[a].to
        /\ rx[j] = NewJobState

\* Episodes only grow, and nobody has heard of the end of the current one
\* while it lasts.
EpisodeInv ==
    /\ \A a \in Emitters : out[a].episode <= gate.episode
    /\ \A j \in Jobs : rx[j].episode <= gate.episode
    /\ Blocked(gate) =>
          /\ \A a \in Emitters : out[a].kind = "resumed" => out[a].episode < gate.episode
          /\ \A j \in Jobs : rx[j].resumed => rx[j].episode < gate.episode

\* A line of the current episode is on its way to j.
Coming(j, kind) ==
    \E a \in Emitters :
        out[a].kind = kind /\ out[a].episode = gate.episode /\ j \in out[a].to

\* What a registered job's parent knows, or is about to be told.
KnowsBlocked(j) ==
    Coming(j, "blocked") \/ (rx[j].episode = gate.episode /\ rx[j].waiting)

KnowsReady(j) ==
    \/ Coming(j, "resumed")
    \/ rx[j].episode = gate.episode /\ rx[j].resumed /\ ~rx[j].waiting
    \/ ~rx[j].waiting /\ \A a \in Emitters : out[a].kind = "blocked" => j \notin out[a].to

ViewInv ==
    \A j \in gate.jobs : IF Blocked(gate) THEN KnowsBlocked(j) ELSE KnowsReady(j)

GateInv ==
    /\ GateTypeOK
    /\ LeftInv
    /\ LeaseInv
    /\ OwnerInv
    /\ EmitInv
    /\ SamplerInv
    /\ NewJobInv
    /\ EpisodeInv
    /\ ViewInv

-----------------------------------------------------------------------------
\* What every part of the invariant reads: a step that leaves that alone
\* preserves the part.  Of the gate, what is told to jobs depends only on
\* whether it is blocked, on its episode and on the registered jobs.
LEMMA Frames ==
    ASSUME GateInv
    PROVE  /\ UNCHANGED <<pc, left, outcome>> => LeftInv'
           /\ UNCHANGED <<gate, pc, lease, revoked>> => LeaseInv'
           /\ UNCHANGED <<gate, lease>> => OwnerInv'
           /\ UNCHANGED <<pc, out>> => EmitInv'
           /\ UNCHANGED <<Blocked(gate), gate.jobs, gate.emitted, out, sampling, mon, noted>>
                 => SamplerInv'
           /\ UNCHANGED <<pc, gate.jobs, reported, out, rx>> => NewJobInv'
           /\ UNCHANGED <<Blocked(gate), gate.episode, out, rx>> => EpisodeInv'
           /\ UNCHANGED <<Blocked(gate), gate.episode, gate.jobs, out, rx>> => ViewInv'
<1>1. UNCHANGED <<pc, left, outcome>> => LeftInv'
  BY DEF GateInv, LeftInv
<1>2. UNCHANGED <<gate, pc, lease, revoked>> => LeaseInv'
  BY DEF GateInv, LeaseInv
<1>3. UNCHANGED <<gate, lease>> => OwnerInv'
  BY DEF GateInv, OwnerInv
<1>4. UNCHANGED <<pc, out>> => EmitInv'
  BY DEF GateInv, EmitInv, Silent
<1>5. UNCHANGED <<Blocked(gate), gate.jobs, gate.emitted, out, sampling, mon, noted>> => SamplerInv'
  BY DEF GateInv, SamplerInv
<1>6. UNCHANGED <<pc, gate.jobs, reported, out, rx>> => NewJobInv'
  BY DEF GateInv, NewJobInv
<1>7. UNCHANGED <<Blocked(gate), gate.episode, out, rx>> => EpisodeInv'
  BY DEF GateInv, EpisodeInv
<1>8. UNCHANGED <<Blocked(gate), gate.episode, gate.jobs, out, rx>> => ViewInv'
  BY DEF GateInv, ViewInv, KnowsBlocked, KnowsReady, Coming
<1>9. QED
  BY <1>1, <1>2, <1>3, <1>4, <1>5, <1>6, <1>7, <1>8

\* The volume and a job's cancel flag are read by threads, never by the
\* invariant.
LEMMA EnvironmentStep ==
    ASSUME GateInv, VolumeChanges \/ \E j \in Jobs : Cancel(j)
    PROVE  GateInv'
<1>1. UNCHANGED <<gate, pc, left, lease, outcome, out, sampling, noted, mon, sample,
                  reported, rx, revoked>>
  BY DEF VolumeChanges, Cancel, threadVars, monVars
<1>2. GateTypeOK'
  BY <1>1, GateAssumption DEF GateInv, GateTypeOK, VolumeChanges, Cancel
<1>3. QED
  BY <1>1, <1>2, Frames DEF GateInv, Blocked

LEMMA RegisterStep ==
    ASSUME GateInv, NEW j \in Jobs, Register(j)
    PROVE  GateInv'
<1>1. /\ gate' = [gate EXCEPT !.jobs = @ \cup {j}]
      /\ pc[j] = "new" /\ pc' = [pc EXCEPT ![j] = "run"]
      /\ UNCHANGED <<left, lease, outcome, sampling, noted, mon, sample, reported, rx, revoked,
                     vol, changes, cancelled>>
  BY DEF Register, RegisterJob, monVars
<1>2. /\ gate \in [phase : {"ready", "blocked", "probing"}, episode : Nat, owner : Nat,
                   emitted : BOOLEAN, jobs : SUBSET Jobs]
      /\ pc \in [Jobs -> {"new", "run", "try", "settle", "report", "wait", "end", "out"}]
      /\ out \in [Emitters -> Transitions]
  BY DEF GateInv, GateTypeOK
<1>3. /\ gate'.phase = gate.phase /\ gate'.episode = gate.episode /\ gate'.owner = gate.owner
      /\ gate'.emitted = gate.emitted /\ gate'.jobs = gate.jobs \cup {j}
      /\ Blocked(gate') = Blocked(gate)
  BY <1>1, <1>2 DEF Blocked
<1>4. \/ /\ Blocked(gate)
         /\ out' = [out EXCEPT ![j] = [kind |-> "blocked", episode |-> gate.episode,
                                       to |-> {j}, noted |-> FALSE]]
      \/ ~Blocked(gate) /\ out' = out
  BY DEF Register, LateBlocked, Transition, GateInv, NewJobInv, SamplerInv
<1>5. GateTypeOK'
  <2>1. gate' \in [phase : {"ready", "blocked", "probing"}, episode : Nat, owner : Nat,
                   emitted : BOOLEAN, jobs : SUBSET Jobs]
    BY <1>1, <1>2
  <2>2. [kind |-> "blocked", episode |-> gate.episode, to |-> {j}, noted |-> FALSE]
           \in Transitions
    BY <1>2 DEF Transitions
  <2>3. out' \in [Emitters -> Transitions]
    BY <1>2, <1>4, <2>2
  <2>4. QED
    BY <1>1, <1>2, <2>1, <2>3 DEF GateInv, GateTypeOK
<1>6. LeftInv'
  BY <1>1, <1>2 DEF GateInv, LeftInv
<1>7. LeaseInv'
  BY <1>1, <1>2, <1>3 DEF GateInv, LeaseInv
<1>8. OwnerInv'
  BY <1>1, <1>2, <1>3 DEF GateInv, OwnerInv
<1>9. EmitInv'
  BY <1>1, <1>2, <1>4, GateAssumption DEF GateInv, EmitInv, Silent, Emitters
<1>10. SamplerInv'
  BY <1>1, <1>2, <1>3, <1>4 DEF GateInv, SamplerInv, Emitters
<1>11. NewJobInv'
  BY <1>1, <1>2, <1>3, <1>4 DEF GateInv, NewJobInv, Emitters
<1>12. EpisodeInv'
  BY <1>1, <1>2, <1>3, <1>4 DEF GateInv, EpisodeInv, Emitters
<1>13. ViewInv'
  BY <1>1, <1>2, <1>3, <1>4 DEF GateInv, ViewInv, KnowsBlocked, KnowsReady, Coming, Emitters, EmitInv, NewJobInv, NewJobState, Silent, Nothing
<1>14. QED
  BY <1>5, <1>6, <1>7, <1>8, <1>9, <1>10, <1>11, <1>12, <1>13 DEF GateInv

\* The steps of a thread that touch only its own variables.
LEMMA StartDirectoryStep ==
    ASSUME GateInv, NEW j \in Jobs, StartDirectory(j)
    PROVE  GateInv'
<1>1. /\ UNCHANGED <<gate, vol, changes, left, lease, outcome, cancelled, out, sampling, noted,
                     mon, sample, reported, rx, revoked>>
      /\ pc[j] = "run" /\ Silent(j) /\ left[j] > 0
      /\ \E p \in {"end", "try"} : pc' = [pc EXCEPT ![j] = p]
  BY DEF StartDirectory, monVars
<1>2. GateTypeOK' /\ LeftInv' /\ LeaseInv' /\ EmitInv' /\ NewJobInv'
  BY <1>1 DEF GateInv, GateTypeOK, LeftInv, LeaseInv, EmitInv, NewJobInv, Silent
<1>3. QED
  BY <1>1, <1>2, Frames DEF GateInv, Blocked

LEMMA AttemptStep ==
    ASSUME GateInv, NEW j \in Jobs, Attempt(j)
    PROVE  GateInv'
<1> DEFINE result == AttemptOn(vol)
           held == lease[j] # NoToken
<1>0. UNCHANGED <<gate, vol, changes, lease, cancelled, out, sampling, noted,
                  mon, sample, reported, rx, revoked>>
  BY DEF Attempt, monVars
<1>1. /\ pc[j] = "try"
      /\ outcome' = [outcome EXCEPT ![j] = IF held THEN result ELSE @]
      /\ pc' = [pc EXCEPT ![j] = IF held THEN "settle" ELSE ThenGo(result, FALSE)]
      /\ left' = [left EXCEPT ![j] = IF result = "ok" THEN @ - 1 ELSE @]
  BY DEF Attempt
<1>2. result \in {"ok", "space", "permanent"}
  BY DEF GateInv, GateTypeOK, AttemptOn
<1>3. ThenGo(result, FALSE) = (IF result = "ok" THEN "run"
                               ELSE IF result = "permanent" THEN "end" ELSE "report")
  BY <1>2 DEF ThenGo
<1>4. left[j] > 0 /\ left \in [Jobs -> 0 .. Directories]
  BY <1>1 DEF GateInv, LeftInv, GateTypeOK
<1> HIDE DEF result
<1>5. /\ left' \in [Jobs -> 0 .. Directories]
      /\ \A k \in Jobs : k # j => left'[k] = left[k]
      /\ result # "ok" => left'[j] = left[j]
  BY <1>1, <1>4, GateAssumption
<1>6. /\ pc' \in [Jobs -> {"new", "run", "try", "settle", "report", "wait", "end", "out"}]
      /\ pc'[j] \in {"settle", "run", "end", "report"}
      /\ (pc'[j] = "settle") <=> held
      /\ pc'[j] = "report" => result = "space"
      /\ pc[j] = "try" /\ \A k \in Jobs : k # j => pc'[k] = pc[k]
  <2>1. pc[j] = "try" /\ pc \in [Jobs -> {"new", "run", "try", "settle", "report", "wait", "end", "out"}]
    BY <1>1 DEF GateInv, GateTypeOK
  <2> DEFINE p == IF held THEN "settle" ELSE ThenGo(result, FALSE)
  <2>2. /\ p \in {"settle", "run", "end", "report"} /\ (p = "settle" <=> held)
        /\ p = "report" => result = "space"
    BY <1>2, <1>3
  <2>3. pc' = [pc EXCEPT ![j] = p]
    BY <1>1
  <2> HIDE DEF p, held
  <2>4. QED
    BY <2>1, <2>2, <2>3
<1>7. /\ outcome' \in [Jobs -> {"ok", "space", "permanent"}]
      /\ \A k \in Jobs : k # j => outcome'[k] = outcome[k]
      /\ held => outcome'[j] = result
  <2>1. outcome \in [Jobs -> {"ok", "space", "permanent"}]
    BY DEF GateInv, GateTypeOK
  <2>2. QED
    BY <1>1, <1>2, <2>1
<1>8. lease \in [Jobs -> Nat] /\ GateTypeOK /\ LeftInv /\ LeaseInv /\ EmitInv /\ NewJobInv
  BY DEF GateInv, GateTypeOK
<1>9. GateTypeOK'
  <2>1. /\ left' \in [Jobs -> 0 .. Directories]
        /\ pc' \in [Jobs -> {"new", "run", "try", "settle", "report", "wait", "end", "out"}]
        /\ outcome' \in [Jobs -> {"ok", "space", "permanent"}]
    BY <1>5, <1>6, <1>7
  <2>2. GateTypeOK
    BY <1>8
  <2>3. QED
    BY <1>0, <2>1, <2>2 DEF GateTypeOK
<1>10. LeftInv'
  <2>1. SUFFICES ASSUME NEW k \in Jobs
                 PROVE  /\ pc'[k] \in {"try", "report", "wait"} => left'[k] > 0
                        /\ pc'[k] = "settle" /\ outcome'[k] = "space" => left'[k] > 0
    BY DEF LeftInv
  <2>2. CASE k = j
    BY <1>4, <1>5, <1>6, <1>7, <2>2
  <2>3. CASE k # j
    BY <1>5, <1>6, <1>7, <1>8, <2>3 DEF LeftInv
  <2>4. QED
    BY <2>2, <2>3
<1>11. LeaseInv'
  <2>1. UNCHANGED <<lease, revoked, gate>>
    BY <1>0
  <2>2. LeaseInv /\ revoked \subseteq Jobs
    BY <1>8 DEF GateTypeOK
  <2>3. \A k \in Jobs : /\ pc[k] \in {"try", "settle"} /\ lease[k] # NoToken => pc'[k] \in {"try", "settle"}
                        /\ pc'[k] = "settle" => pc[k] = "settle" \/ lease[k] # NoToken
    BY <1>6
  <2>4. QED
    BY <2>1, <2>2, <2>3 DEF LeaseInv
<1>12. EmitInv' /\ NewJobInv'
  <2>1. UNCHANGED <<gate, out, rx, reported>> /\ EmitInv /\ NewJobInv
    BY <1>0, <1>8
  <2>2. \A k \in Jobs : /\ pc'[k] \in {"new", "try", "settle", "report"}
                            => pc[k] \in {"new", "try", "settle", "report"}
                        /\ pc'[k] = "new" => pc[k] = "new"
    BY <1>6
  <2>3. QED
    BY <2>1, <2>2 DEF EmitInv, NewJobInv, Silent
<1>13. QED
  BY <1>0, <1>9, <1>10, <1>11, <1>12, Frames DEF GateInv, Blocked

\* A report on a ready gate opens an episode and a Blocked line for every
\* registered job; any other changes nothing.
LEMMA ReportStep ==
    ASSUME GateInv, NEW j \in Jobs, Report(j)
    PROVE  GateInv'
<1>1. /\ UNCHANGED <<vol, changes, left, lease, outcome, cancelled, sampling, noted,
                     mon, sample, reported, rx, revoked>>
      /\ pc[j] = "report" /\ pc' = [pc EXCEPT ![j] = "wait"]
  BY DEF Report, monVars
<1>2. /\ gate \in [phase : {"ready", "blocked", "probing"}, episode : Nat, owner : Nat,
                   emitted : BOOLEAN, jobs : SUBSET Jobs]
      /\ pc \in [Jobs -> {"new", "run", "try", "settle", "report", "wait", "end", "out"}]
      /\ out \in [Emitters -> Transitions]
  BY DEF GateInv, GateTypeOK
<1>3. LeftInv'
  BY <1>1, <1>2 DEF GateInv, LeftInv
<1>4. CASE Blocked(gate)
  <2>1. gate' = gate /\ out' = out
    BY <1>4 DEF Report, ReportSpaceFailure, OpensEpisode, Blocked
  <2>2. GateTypeOK' /\ LeaseInv' /\ EmitInv' /\ NewJobInv'
    BY <1>1, <1>2, <2>1 DEF GateInv, GateTypeOK, LeaseInv, EmitInv, NewJobInv, Silent
  <2>3. QED
    BY <1>1, <1>3, <2>1, <2>2, Frames DEF GateInv, Blocked
<1>5. CASE ~Blocked(gate)
  <2>1. /\ gate' = [gate EXCEPT !.phase = "blocked", !.episode = @ + 1, !.owner = NoToken,
                                !.emitted = TRUE]
        /\ out' = [out EXCEPT ![j] = [kind |-> "blocked", episode |-> gate'.episode,
                                      to |-> gate.jobs, noted |-> FALSE]]
    BY <1>5 DEF Report, ReportSpaceFailure, OpensEpisode, Blocked, Transition, Rest
  <2>2. /\ gate'.phase = "blocked" /\ gate'.episode = gate.episode + 1 /\ gate'.owner = NoToken
        /\ gate'.emitted = TRUE /\ gate'.jobs = gate.jobs /\ Blocked(gate')
    BY <1>2, <2>1 DEF Blocked
  <2>3. GateTypeOK'
    <3>1. gate' \in [phase : {"ready", "blocked", "probing"}, episode : Nat, owner : Nat,
                     emitted : BOOLEAN, jobs : SUBSET Jobs]
      <4>1. gate.episode + 1 \in Nat /\ NoToken \in Nat
        BY <1>2 DEF NoToken
      <4>2. QED
        BY <1>2, <2>1, <4>1
    <3>2. [kind |-> "blocked", episode |-> gate'.episode, to |-> gate.jobs, noted |-> FALSE]
             \in Transitions
      BY <1>2, <2>2 DEF Transitions
    <3>3. out' \in [Emitters -> Transitions]
      BY <1>2, <2>1, <3>2
    <3>4. QED
      BY <1>1, <1>2, <3>1, <3>3 DEF GateInv, GateTypeOK
  <2>4. LeaseInv' /\ OwnerInv'
    BY <1>1, <1>2, <2>2 DEF GateInv, LeaseInv, OwnerInv
  <2>5. EmitInv'
    BY <1>1, <1>2, <2>1, GateAssumption DEF GateInv, EmitInv, Silent, Emitters
  <2>6. SamplerInv'
    BY <1>1, <1>2, <2>1, <2>2 DEF SamplerInv, Emitters
  <2>7. NewJobInv'
    BY <1>1, <1>2, <2>1, <2>2 DEF GateInv, NewJobInv, Emitters
  <2>8. EpisodeInv'
    <3>1. \A a \in Emitters : out[a].episode \in Nat
      BY <1>2 DEF Transitions
    <3>2. \A k \in Jobs : rx[k].episode \in Nat
      BY DEF GateInv, GateTypeOK
    <3>3. QED
      BY <1>1, <1>2, <2>1, <2>2, <3>1, <3>2 DEF GateInv, EpisodeInv, Emitters
  <2>9. ViewInv'
    BY <1>1, <1>2, <2>1, <2>2 DEF ViewInv, KnowsBlocked, Coming, Emitters
  <2>10. QED
    BY <1>3, <2>3, <2>4, <2>5, <2>6, <2>7, <2>8, <2>9 DEF GateInv
<1>6. QED
  BY <1>4, <1>5

\* A thread that is granted the probe takes a token nobody holds.
LEMMA WaitStep ==
    ASSUME GateInv, NEW j \in Jobs, Wait(j)
    PROVE  GateInv'
<1> DEFINE decision == Decision(gate, j \in cancelled)
<1>1. /\ UNCHANGED <<vol, changes, left, outcome, cancelled, out, sampling, noted,
                     mon, sample, reported, rx, revoked>>
      /\ pc[j] = "wait" /\ Silent(j) /\ decision # "pending"
      /\ pc' = [pc EXCEPT ![j] = IF decision = "terminal" THEN "end" ELSE "try"]
  BY DEF Wait, monVars
<1>2. /\ gate \in [phase : {"ready", "blocked", "probing"}, episode : Nat, owner : Nat,
                   emitted : BOOLEAN, jobs : SUBSET Jobs]
      /\ pc \in [Jobs -> {"new", "run", "try", "settle", "report", "wait", "end", "out"}]
      /\ lease \in [Jobs -> Nat] /\ revoked \subseteq Jobs
  BY DEF GateInv, GateTypeOK
<1>3. LeftInv' /\ EmitInv'
  BY <1>1, <1>2 DEF GateInv, LeftInv, EmitInv, Silent
<1>4. CASE decision # "probe"
  <2>1. UNCHANGED <<gate, lease>>
    BY <1>4 DEF Wait
  <2>2. GateTypeOK' /\ LeaseInv'
    BY <1>1, <1>2, <2>1 DEF GateInv, GateTypeOK, LeaseInv
  <2>3. NewJobInv'
    BY <1>1, <1>2, <2>1 DEF GateInv, NewJobInv
  <2>4. QED
    BY <1>1, <1>3, <2>1, <2>2, <2>3, Frames DEF GateInv, Blocked
<1>5. CASE decision = "probe"
  <2>1. gate.phase = "probing" /\ gate.owner = NoToken
    BY <1>5 DEF Decision
  <2>2. PICK t \in Tokens : IsFreshToken(t) /\ lease' = [lease EXCEPT ![j] = t]
                            /\ gate' = [gate EXCEPT !.owner = t]
    BY <1>5 DEF Wait, ClaimProbe
  <2>3. t \in Nat /\ t # NoToken /\ \A k \in Jobs : lease[k] # t
    BY <2>2, GateAssumption, FS_CardinalityType DEF Tokens, IsFreshToken, NoToken
  <2>4. /\ gate'.phase = gate.phase /\ gate'.episode = gate.episode /\ gate'.owner = t
        /\ gate'.emitted = gate.emitted /\ gate'.jobs = gate.jobs
        /\ Blocked(gate') = Blocked(gate)
    BY <1>2, <2>2 DEF Blocked
  <2>5. GateTypeOK'
    BY <1>1, <1>2, <2>2, <2>3 DEF GateInv, GateTypeOK
  <2>6. pc'[j] = "try"
    BY <1>1, <1>2, <1>5
  <2>7. LeaseInv'
    BY <1>1, <1>2, <2>2, <2>3, <2>4, <2>6 DEF GateInv, LeaseInv
  <2>8. OwnerInv'
    BY <1>2, <2>1, <2>2, <2>4 DEF OwnerInv
  <2>9. NewJobInv'
    BY <1>1, <1>2, <2>4 DEF GateInv, NewJobInv
  <2>10. QED
    BY <1>1, <1>3, <2>4, <2>5, <2>7, <2>8, <2>9, Frames DEF GateInv
<1>6. QED
  BY <1>4, <1>5

\* A settled lease was its holder's alone; only a success under the gate's own
\* lease makes the gate ready, and it tells every registered job.
LEMMA SettleStep ==
    ASSUME GateInv, NEW j \in Jobs, Settle(j)
    PROVE  /\ GateInv'
           /\ Blocked(gate) /\ ~Blocked(gate') => outcome[j] = "ok" /\ j \notin revoked
<1> DEFINE owns == OwnsProbe(gate, lease[j])
           line == [kind |-> "resumed", episode |-> gate.episode, to |-> gate.jobs, noted |-> TRUE]
<1>1. /\ UNCHANGED <<vol, changes, left, cancelled, sampling, noted, mon, sample, reported, rx>>
      /\ pc[j] = "settle" /\ pc' = [pc EXCEPT ![j] = ThenGo(outcome[j], TRUE)]
      /\ lease' = [lease EXCEPT ![j] = NoToken]
      /\ outcome' = [outcome EXCEPT ![j] = "ok"]
      /\ revoked' = revoked \ {j}
  BY DEF Settle, monVars
<1>2. /\ gate \in [phase : {"ready", "blocked", "probing"}, episode : Nat, owner : Nat,
                   emitted : BOOLEAN, jobs : SUBSET Jobs]
      /\ pc \in [Jobs -> {"new", "run", "try", "settle", "report", "wait", "end", "out"}]
      /\ lease \in [Jobs -> Nat] /\ revoked \subseteq Jobs
      /\ outcome \in [Jobs -> {"ok", "space", "permanent"}]
      /\ out \in [Emitters -> Transitions]
      /\ left \in [Jobs -> 0 .. Directories]
      /\ GateTypeOK /\ LeftInv /\ LeaseInv /\ OwnerInv /\ EmitInv /\ NewJobInv
  BY DEF GateInv, GateTypeOK
<1> DEFINE goes == ThenGo(outcome[j], TRUE)
<1>3. ThenGo(outcome[j], TRUE) = (IF outcome[j] = "ok" THEN "run"
                                  ELSE IF outcome[j] = "permanent" THEN "end" ELSE "wait")
  BY <1>2 DEF ThenGo
<1>4. /\ lease[j] # NoToken /\ Silent(j)
      /\ j \in revoked => ~owns
      /\ owns => gate.phase = "probing" /\ gate.owner = lease[j]
      /\ ~owns => gate.owner # lease[j]
  BY <1>1, <1>2 DEF GateInv, LeaseInv, OwnerInv, EmitInv, OwnsProbe
<1>10. /\ pc' \in [Jobs -> {"new", "run", "try", "settle", "report", "wait", "end", "out"}]
       /\ pc'[j] \in {"run", "end", "wait"} /\ \A k \in Jobs : k # j => pc'[k] = pc[k]
       /\ pc'[j] = "wait" => outcome[j] = "space"
       /\ lease' \in [Jobs -> Nat] /\ lease'[j] = NoToken
       /\ \A k \in Jobs : k # j => lease'[k] = lease[k]
       /\ outcome' \in [Jobs -> {"ok", "space", "permanent"}]
       /\ outcome'[j] = "ok" /\ \A k \in Jobs : k # j => outcome'[k] = outcome[k]
       /\ revoked' = revoked \ {j} /\ pc[j] = "settle"
       /\ UNCHANGED <<vol, changes, left, cancelled, sampling, noted, mon, sample, reported, rx>>
  <2>1. goes \in {"run", "end", "wait"} /\ (goes = "wait" => outcome[j] = "space")
    BY <1>2, <1>3
  <2>2. pc' = [pc EXCEPT ![j] = goes]
    BY <1>1
  <2> HIDE DEF goes
  <2>3. /\ pc' \in [Jobs -> {"new", "run", "try", "settle", "report", "wait", "end", "out"}]
        /\ pc'[j] = goes /\ \A k \in Jobs : k # j => pc'[k] = pc[k]
    BY <1>2, <2>1, <2>2
  <2>4. /\ lease' \in [Jobs -> Nat] /\ lease'[j] = NoToken
        /\ \A k \in Jobs : k # j => lease'[k] = lease[k]
    BY <1>1, <1>2 DEF NoToken
  <2>5. /\ outcome' \in [Jobs -> {"ok", "space", "permanent"}]
        /\ outcome'[j] = "ok" /\ \A k \in Jobs : k # j => outcome'[k] = outcome[k]
    BY <1>1, <1>2
  <2>6. QED
    BY <1>1, <2>1, <2>3, <2>4, <2>5, Zenon
<1>11. ASSUME gate' \in [phase : {"ready", "blocked", "probing"}, episode : Nat, owner : Nat,
                          emitted : BOOLEAN, jobs : SUBSET Jobs],
              out' \in [Emitters -> Transitions]
       PROVE  GateTypeOK'
  <2>1. /\ pc' \in [Jobs -> {"new", "run", "try", "settle", "report", "wait", "end", "out"}]
        /\ lease' \in [Jobs -> Nat] /\ outcome' \in [Jobs -> {"ok", "space", "permanent"}]
        /\ revoked' \subseteq Jobs
    BY <1>2, <1>10
  <2>2. /\ UNCHANGED <<vol, changes, left, cancelled, sampling, noted, mon, sample, reported, rx>>
        /\ GateTypeOK
    BY <1>2, <1>10
  <2>3. QED
    BY <1>11, <2>1, <2>2 DEF GateTypeOK
<1>12. ASSUME UNCHANGED out
       PROVE  /\ EmitInv'
              /\ gate'.jobs = gate.jobs => NewJobInv'
  <2>1. UNCHANGED <<rx, reported>> /\ EmitInv /\ NewJobInv
    BY <1>2, <1>10
  <2>2. \A k \in Jobs : /\ pc'[k] \in {"new", "try", "settle", "report"}
                            => pc[k] \in {"new", "try", "settle", "report"}
                        /\ pc'[k] = "new" => pc[k] = "new"
    BY <1>10
  <2>3. QED
    BY <1>12, <2>1, <2>2 DEF EmitInv, NewJobInv, Silent
<1>13. ASSUME gate'.owner \in {NoToken, gate.owner}, gate'.owner # NoToken => ~owns
       PROVE  LeaseInv'
  <2>1. /\ revoked \subseteq Jobs /\ LeaseInv
        /\ revoked' = revoked \ {j} /\ lease'[j] = NoToken
        /\ \A k \in Jobs : k # j => lease'[k] = lease[k]
    BY <1>2, <1>10
  <2>2. \A k \in Jobs : k # j => pc'[k] = pc[k]
    BY <1>10
  <2>3. pc'[j] # "settle"
    BY <1>10
  <2>4. QED
    BY <1>13, <2>1, <2>2, <2>3 DEF LeaseInv
<1>5. LeftInv'
  <2>1. LeftInv /\ UNCHANGED left
    BY <1>2, <1>10
  <2>2. \A k \in Jobs : k # j => pc'[k] = pc[k] /\ outcome'[k] = outcome[k]
    BY <1>10
  <2>3. /\ pc[j] = "settle" /\ pc'[j] \notin {"try", "report", "settle"}
        /\ pc'[j] = "wait" => outcome[j] = "space"
    BY <1>10
  <2>4. QED
    BY <2>1, <2>2, <2>3 DEF LeftInv
<1>6. CASE ~owns
  <2>1. gate' = gate /\ out' = out
    BY <1>2, <1>6 DEF Settle, SettleAttempt, SettleSuccess, SettleSpaceFailure, SettleInconclusive
  <2>2. GateTypeOK' /\ LeaseInv'
    <3>1. GateTypeOK'
      BY <1>2, <1>11, <2>1
    <3>2. gate'.owner \in {NoToken, gate.owner}
      BY <2>1
    <3>3. LeaseInv'
      BY <1>6, <1>13, <3>2
    <3>4. QED
      BY <3>1, <3>3
  <2>3. OwnerInv'
    <3>1. gate.owner # lease[j] /\ OwnerInv
      BY <1>2, <1>4, <1>6
    <3>2. \A k \in Jobs : k # j => lease'[k] = lease[k]
      BY <1>10
    <3>3. QED
      BY <2>1, <3>1, <3>2 DEF OwnerInv
  <2>4. EmitInv' /\ NewJobInv'
    BY <1>12, <2>1
  <2>5. QED
    BY <1>1, <1>5, <2>1, <2>2, <2>3, <2>4, Frames DEF GateInv, Blocked
<1>7. CASE owns /\ outcome[j] # "ok"
  <2>1. /\ \E p \in {"blocked", "probing"} : gate' = [gate EXCEPT !.phase = p, !.owner = NoToken]
        /\ out' = out
    <3>1. CASE outcome[j] = "space"
      BY <1>2, <1>7, <3>1 DEF Settle, SettleAttempt, SettleSpaceFailure
    <3>2. CASE outcome[j] = "permanent"
      <4>1. gate' = [gate EXCEPT !.owner = NoToken] /\ out' = out
        BY <1>2, <1>7, <3>2 DEF Settle, SettleAttempt, SettleInconclusive
      <4>2. gate.phase = "probing"
        BY <1>4, <1>7
      <4>3. gate' = [gate EXCEPT !.phase = "probing", !.owner = NoToken]
        BY <1>2, <4>1, <4>2
      <4>4. QED
        BY <4>1, <4>3
    <3>3. QED
      BY <1>2, <1>7, <3>1, <3>2
  <2>2. /\ gate'.episode = gate.episode /\ gate'.emitted = gate.emitted
        /\ gate'.jobs = gate.jobs /\ gate'.owner = NoToken /\ Blocked(gate') = Blocked(gate)
        /\ Blocked(gate')
    BY <1>2, <1>4, <1>7, <2>1 DEF Blocked
  <2>3. GateTypeOK'
    <3>1. gate' \in [phase : {"ready", "blocked", "probing"}, episode : Nat, owner : Nat,
                     emitted : BOOLEAN, jobs : SUBSET Jobs]
      <4>1. PICK p \in {"blocked", "probing"} : gate' = [gate EXCEPT !.phase = p, !.owner = NoToken]
        BY <2>1
      <4>2. NoToken \in Nat /\ p \in {"ready", "blocked", "probing"}
        BY DEF NoToken
      <4>3. QED
        BY <1>2, <4>1, <4>2
    <3>2. QED
      BY <1>2, <1>11, <2>1, <3>1
  <2>4. LeaseInv' /\ OwnerInv'
    <3>1. LeaseInv'
      BY <1>13, <2>2
    <3>2. QED
      BY <2>2, <3>1 DEF OwnerInv
  <2>5. EmitInv' /\ NewJobInv'
    BY <1>12, <2>1, <2>2
  <2>6. QED
    BY <1>1, <1>5, <2>1, <2>2, <2>3, <2>4, <2>5, Frames DEF GateInv
<1>8. CASE owns /\ outcome[j] = "ok"
  <2>1. /\ gate' = [gate EXCEPT !.phase = "ready", !.owner = NoToken, !.emitted = FALSE]
        /\ out' = [out EXCEPT ![j] = IF gate.jobs = {} THEN Nothing ELSE line]
    BY <1>8 DEF Settle, SettleAttempt, SettleSuccess, Rest, Transition
  <2>2. /\ gate'.episode = gate.episode /\ gate'.jobs = gate.jobs /\ gate'.owner = NoToken
        /\ ~Blocked(gate') /\ gate'.phase = "ready"
    BY <1>2, <2>1 DEF Blocked
  <2>3. GateTypeOK'
    <3>1. gate' \in [phase : {"ready", "blocked", "probing"}, episode : Nat, owner : Nat,
                     emitted : BOOLEAN, jobs : SUBSET Jobs]
      BY <1>2, <2>1 DEF NoToken
    <3>2. line \in Transitions /\ Nothing \in Transitions
      BY <1>2 DEF Transitions, Nothing
    <3>3. out' \in [Emitters -> Transitions]
      BY <1>2, <2>1, <3>2
    <3>4. QED
      BY <1>11, <3>1, <3>3
  <2>4. LeaseInv' /\ OwnerInv'
    <3>1. LeaseInv'
      BY <1>13, <2>2
    <3>2. QED
      BY <2>2, <3>1 DEF OwnerInv
  <2>5. EmitInv'
    <3>1. /\ out'[Monitor] = out[Monitor] /\ \A k \in Jobs : k # j => out'[k] = out[k]
      BY <1>2, <2>1, GateAssumption DEF Emitters
    <3>2. pc'[j] \in {"run", "end", "wait"} /\ \A k \in Jobs : k # j => pc'[k] = pc[k]
      BY <1>10
    <3>3. EmitInv
      BY <1>2
    <3>4. QED
      BY <3>1, <3>2, <3>3 DEF EmitInv, Silent
  <2>6. SamplerInv'
    BY <2>2 DEF SamplerInv
  <2>7. NewJobInv'
    <3>1. \A k \in Jobs : pc'[k] = "new" => pc[k] = "new"
      BY <1>10
    <3>2. /\ \A a \in Emitters : a # j => out'[a] = out[a]
          /\ out'[j].to \in {{}, gate.jobs}
      BY <1>2, <2>1 DEF Emitters, Nothing
    <3>3. UNCHANGED <<rx, reported>> /\ NewJobInv /\ gate'.jobs = gate.jobs
      BY <1>2, <1>10, <2>2
    <3>4. QED
      BY <3>1, <3>2, <3>3 DEF NewJobInv
  <2>8. EpisodeInv'
    BY <1>1, <1>2, <2>1, <2>2 DEF GateInv, EpisodeInv, Emitters, Nothing
  <2>9. ViewInv'
    BY <1>1, <1>2, <2>1, <2>2 DEF ViewInv, KnowsReady, Coming, Emitters
  <2>10. QED
    BY <1>4, <1>5, <1>8, <2>3, <2>4, <2>5, <2>6, <2>7, <2>8, <2>9 DEF GateInv
<1>9. QED
  BY <1>6, <1>7, <1>8

LEMMA UnregisterStep ==
    ASSUME GateInv, NEW j \in Jobs, Unregister(j)
    PROVE  GateInv'
<1>1. /\ UNCHANGED <<vol, changes, left, lease, outcome, cancelled, out, sampling, noted,
                     mon, sample, reported, rx, revoked>>
      /\ pc[j] \in {"end", "run"} /\ pc' = [pc EXCEPT ![j] = "out"]
      /\ gate' = [gate EXCEPT !.jobs = @ \ {j}]
  BY DEF Unregister, UnregisterJob, monVars
<1>2. /\ gate \in [phase : {"ready", "blocked", "probing"}, episode : Nat, owner : Nat,
                   emitted : BOOLEAN, jobs : SUBSET Jobs]
      /\ pc \in [Jobs -> {"new", "run", "try", "settle", "report", "wait", "end", "out"}]
  BY DEF GateInv, GateTypeOK
<1>3. /\ gate'.phase = gate.phase /\ gate'.episode = gate.episode /\ gate'.owner = gate.owner
      /\ gate'.emitted = gate.emitted /\ gate'.jobs = gate.jobs \ {j}
      /\ Blocked(gate') = Blocked(gate)
  BY <1>1, <1>2 DEF Blocked
<1>4. GateTypeOK'
  BY <1>1, <1>2 DEF GateInv, GateTypeOK
<1>5. LeftInv' /\ EmitInv'
  BY <1>1, <1>2 DEF GateInv, LeftInv, EmitInv, Silent
<1>6. LeaseInv' /\ OwnerInv'
  BY <1>1, <1>2, <1>3 DEF GateInv, LeaseInv, OwnerInv
<1>7. SamplerInv' /\ NewJobInv'
  BY <1>1, <1>2, <1>3 DEF GateInv, SamplerInv, NewJobInv
<1>8. ViewInv'
  BY <1>1, <1>3 DEF GateInv, ViewInv, KnowsBlocked, KnowsReady, Coming
<1>9. QED
  BY <1>1, <1>3, <1>4, <1>5, <1>6, <1>7, <1>8, Frames DEF GateInv

LEMMA JobStepKeeps ==
    ASSUME GateInv, NEW j \in Jobs, JobStep(j)
    PROVE  GateInv'
BY RegisterStep, StartDirectoryStep, AttemptStep, ReportStep, WaitStep, SettleStep, UnregisterStep
   DEF JobStep

-----------------------------------------------------------------------------
\* A Blocked transition switches the sampler on; the tick under way sees that
\* the generation has moved.
LEMMA NoteBlockedStep ==
    ASSUME GateInv, NEW a \in Emitters, NoteBlocked(a)
    PROVE  GateInv'
<1>1. /\ UNCHANGED <<gate, vol, changes, pc, left, lease, outcome, cancelled, mon, sample,
                     reported, rx, revoked>>
      /\ ~out[a].noted
      /\ out' = [out EXCEPT ![a] = Rest([@ EXCEPT !.noted = TRUE])]
      /\ sampling' = TRUE /\ noted' = (mon \in {"pull", "affected", "stop"})
  BY DEF NoteBlocked, threadVars, monVars
<1>2. out \in [Emitters -> Transitions] /\ out[a] \in Transitions
  BY DEF GateInv, GateTypeOK
<1> DEFINE line == [out[a] EXCEPT !.noted = TRUE]
<1>3. /\ line \in Transitions /\ line.to = out[a].to /\ line.kind = out[a].kind
      /\ line.episode = out[a].episode /\ line.noted = TRUE
  BY <1>2 DEF Transitions
<1>4. /\ Nothing \in Transitions /\ Nothing.to = {} /\ Nothing.kind = "none"
      /\ Nothing.episode = 0 /\ Nothing.noted = TRUE
  BY DEF Transitions, Nothing
<1>5. out' = [out EXCEPT ![a] = IF out[a].to = {} THEN Nothing ELSE line]
  BY <1>1, <1>3 DEF Rest
<1> HIDE DEF line
<1>6. GateTypeOK'
  <2>1. out' \in [Emitters -> Transitions]
    BY <1>2, <1>3, <1>4, <1>5
  <2>2. QED
    BY <1>1, <2>1 DEF GateInv, GateTypeOK
<1>7. EmitInv'
  <2>1. a # Monitor /\ out'[Monitor] = out[Monitor]
    BY <1>1, <1>2, <1>5 DEF GateInv, EmitInv, Emitters
  <2>2. \A j \in Jobs : Silent(j) => out'[j] = out[j]
    BY <1>1, <1>2, <1>4, <1>5 DEF Silent, Emitters
  <2>3. QED
    BY <1>1, <2>1, <2>2 DEF GateInv, EmitInv, Silent
<1>8. SamplerInv'
  BY <1>1 DEF GateInv, SamplerInv
<1>9. NewJobInv'
  BY <1>1, <1>2, <1>3, <1>4, <1>5 DEF GateInv, NewJobInv
<1>10. EpisodeInv'
  <2>1. gate.episode \in Nat
    BY DEF GateInv, GateTypeOK
  <2>2. \A b \in Emitters : \/ out'[b].episode = out[b].episode /\ out'[b].kind = out[b].kind
                            \/ out'[b].episode = 0 /\ out'[b].kind = "none"
    BY <1>2, <1>3, <1>4, <1>5
  <2>3. \A b \in Emitters : out'[b].episode <= gate.episode
    BY <2>1, <2>2 DEF GateInv, EpisodeInv
  <2>4. Blocked(gate) => \A b \in Emitters :
                            out'[b].kind = "resumed" => out'[b].episode < gate.episode
    BY <2>2 DEF GateInv, EpisodeInv
  <2>5. QED
    BY <1>1, <2>3, <2>4 DEF GateInv, EpisodeInv
<1>11. ViewInv'
  <2>1. ASSUME NEW j \in Jobs, NEW kind, Coming(j, kind)
        PROVE  Coming(j, kind)'
    <3>1. PICK b \in Emitters : out[b].kind = kind /\ out[b].episode = gate.episode
                                /\ j \in out[b].to
      BY <2>1 DEF Coming
    <3>2. out'[b].kind = kind /\ out'[b].episode = gate.episode /\ j \in out'[b].to
      BY <1>2, <1>3, <1>5, <3>1
    <3>3. QED
      BY <1>1, <3>2 DEF Coming
  <2>2. ASSUME NEW j \in Jobs, \A b \in Emitters : out[b].kind = "blocked" => j \notin out[b].to
        PROVE  \A b \in Emitters : out'[b].kind = "blocked" => j \notin out'[b].to
    BY <1>2, <1>3, <1>4, <1>5, <2>2
  <2>3. gate.jobs \subseteq Jobs
    BY DEF GateInv, GateTypeOK
  <2>4. QED
    BY <1>1, <2>1, <2>2, <2>3 DEF GateInv, ViewInv, KnowsBlocked, KnowsReady
<1>12. QED
  BY <1>1, <1>6, <1>7, <1>8, <1>9, <1>10, <1>11, Frames DEF GateInv

\* What a line does to the parent's view of its job (_on_space_event).
EventGist(s, kind, e, t) ==
    /\ t \in [episode : Nat, resumed : BOOLEAN, waiting : BOOLEAN]
    /\ e < s.episode => t = s
    /\ e >= s.episode =>
          /\ t.episode = e
          /\ t.resumed <=> (kind = "resumed" \/ (e = s.episode /\ s.resumed))
          /\ t.waiting <=>
                /\ kind # "resumed"
                /\ s.waiting \/ (kind = "blocked" /\ ~(e = s.episode /\ s.resumed))

\* The gist follows from the definition, whatever the line and the job.
LEMMA EventFacts ==
    ASSUME NEW s \in [episode : Nat, resumed : BOOLEAN, waiting : BOOLEAN],
           NEW kind \in {"none", "blocked", "resumed", "status"}, NEW e \in Nat,
           NEW t, t = OnSpaceEvent(s, kind, e)
    PROVE  EventGist(s, kind, e, t)
<1> DEFINE resumed == e = s.episode /\ s.resumed
<1>1. s.episode \in Nat
  OBVIOUS
<1>2. CASE e < s.episode
  <2>1. t = s
    BY <1>2, Zenon DEF OnSpaceEvent
  <2>2. ~(e >= s.episode)
    BY <1>1, <1>2
  <2>3. QED
    BY <2>1, <2>2, Zenon DEF EventGist
<1>3. CASE e >= s.episode
  <2>1. ~(e < s.episode)
    BY <1>1, <1>3
  <2> DEFINE r == kind = "resumed" \/ resumed
             w == kind # "resumed" /\ (s.waiting \/ (kind = "blocked" /\ ~resumed))
  <2>2. t = [episode |-> e, resumed |-> r, waiting |-> w]
    BY <2>1, Zenon DEF OnSpaceEvent
  <2>3. r \in BOOLEAN /\ w \in BOOLEAN
    OBVIOUS
  <2> HIDE DEF r, w
  <2>4. /\ t.episode = e /\ t.resumed = r /\ t.waiting = w
        /\ t \in [episode : Nat, resumed : BOOLEAN, waiting : BOOLEAN]
    BY <2>2, <2>3
  <2>5. QED
    BY <2>1, <2>4, Zenon DEF r, w, EventGist
<1>4. QED
  BY <1>1, <1>2, <1>3

\* A printed line leaves its transition and moves the parent's view of its job
\* forward, never back.
LEMMA PrintLineStep ==
    ASSUME GateInv, NEW a \in Emitters, PrintLine(a)
    PROVE  GateInv'
<1>1. PICK j \in out[a].to :
         /\ rx' = [rx EXCEPT ![j] = OnSpaceEvent(@, out[a].kind, out[a].episode)]
         /\ out' = [out EXCEPT ![a] = Rest([out[a] EXCEPT !.to = @ \ {j}])]
  BY DEF PrintLine
<1>2. /\ UNCHANGED <<gate, vol, changes, pc, left, lease, outcome, cancelled, sampling, noted,
                     mon, sample, reported, revoked>>
      /\ out[a].noted
  BY DEF PrintLine, threadVars, monVars
<1>3. /\ out \in [Emitters -> Transitions] /\ out[a] \in Transitions /\ gate.episode \in Nat
      /\ rx \in [Jobs -> [episode : Nat, resumed : BOOLEAN, waiting : BOOLEAN]]
      /\ gate.jobs \subseteq Jobs
  BY DEF GateInv, GateTypeOK
<1>4. j \in Jobs /\ out[a].kind \in {"none", "blocked", "resumed", "status"}
      /\ out[a].episode \in Nat /\ out[a].noted = TRUE
  BY <1>2, <1>3 DEF Transitions
<1> DEFINE line == [out[a] EXCEPT !.to = @ \ {j}]
           after == rx'[j]
<1>5. /\ line \in Transitions /\ line.to = out[a].to \ {j} /\ line.kind = out[a].kind
      /\ line.episode = out[a].episode /\ line.noted = TRUE
  BY <1>3, <1>4 DEF Transitions
<1>6. /\ Nothing \in Transitions /\ Nothing.to = {} /\ Nothing.kind = "none"
      /\ Nothing.episode = 0 /\ Nothing.noted = TRUE
  BY DEF Transitions, Nothing
<1>7. /\ out' \in [Emitters -> Transitions]
      /\ \A b \in Emitters \ {a} : out'[b] = out[b]
      /\ \/ out'[a] = line
         \/ out'[a] = Nothing /\ out[a].to \ {j} = {}
  <2>1. out' = [out EXCEPT ![a] = IF out[a].to \ {j} = {} THEN Nothing ELSE line]
    BY <1>1, <1>5 DEF Rest
  <2> HIDE DEF line
  <2>2. QED
    BY <1>3, <1>5, <1>6, <2>1
<1> HIDE DEF line
<1>8. /\ after \in [episode : Nat, resumed : BOOLEAN, waiting : BOOLEAN]
      /\ \A k \in Jobs \ {j} : rx'[k] = rx[k]
      /\ out[a].episode < rx[j].episode => after = rx[j]
      /\ out[a].episode >= rx[j].episode =>
            /\ after.episode = out[a].episode
            /\ after.resumed <=> (out[a].kind = "resumed"
                              \/ (out[a].episode = rx[j].episode /\ rx[j].resumed))
            /\ after.waiting <=>
                  /\ out[a].kind # "resumed"
                  /\ \/ rx[j].waiting
                     \/ out[a].kind = "blocked" /\ ~(out[a].episode = rx[j].episode /\ rx[j].resumed)
  <2>1. rx[j] \in [episode : Nat, resumed : BOOLEAN, waiting : BOOLEAN]
    BY <1>3, <1>4
  <2>2. PICK t : t = OnSpaceEvent(rx[j], out[a].kind, out[a].episode)
    OBVIOUS
  <2>3. after = t /\ \A k \in Jobs \ {j} : rx'[k] = rx[k]
    BY <1>1, <1>3, <1>4, <2>2
  <2>4. EventGist(rx[j], out[a].kind, out[a].episode, t)
    BY <1>4, <2>1, <2>2, EventFacts, Zenon
  <2>5. QED
    BY <2>3, <2>4, Zenon DEF EventGist
<1>9. GateTypeOK'
  <2>1. rx' \in [Jobs -> [episode : Nat, resumed : BOOLEAN, waiting : BOOLEAN]]
    <3>1. rx' = [rx EXCEPT ![j] = after]
      BY <1>1, <1>3, <1>4
    <3> HIDE DEF after
    <3>2. QED
      BY <1>3, <1>8, <3>1
  <2>2. QED
    BY <1>2, <1>7, <2>1 DEF GateInv, GateTypeOK
<1>10. EmitInv'
  <2>1. \A k \in Jobs : Silent(k) => out'[k] = out[k]
    BY <1>1, <1>4, <1>6, <1>7 DEF Silent, Emitters
  <2>2. out'[Monitor].kind \in {"none", "status"} /\ out'[Monitor].noted
    BY <1>5, <1>6, <1>7 DEF GateInv, EmitInv, Emitters
  <2>3. QED
    BY <1>2, <2>1, <2>2 DEF GateInv, EmitInv, Silent
<1>11. SamplerInv'
  <2>1. \A b \in Emitters : ~out[b].noted => ~out'[b].noted
    BY <1>2, <1>7
  <2>2. QED
    BY <1>2, <2>1 DEF GateInv, SamplerInv
<1>12. NewJobInv'
  <2>1. pc[j] # "new"
    BY <1>4 DEF GateInv, NewJobInv
  <2>2. \A b \in Emitters : out'[b].to \subseteq out[b].to
    BY <1>5, <1>6, <1>7
  <2>3. QED
    BY <1>2, <1>4, <1>8, <2>1, <2>2 DEF GateInv, NewJobInv
<1>13. EpisodeInv'
  <2>1. \A b \in Emitters : \/ out'[b].episode = out[b].episode /\ out'[b].kind = out[b].kind
                            \/ out'[b].episode = 0 /\ out'[b].kind = "none"
    BY <1>5, <1>6, <1>7
  <2>2. rx[j].episode \in Nat /\ rx[j].episode <= gate.episode /\ out[a].episode <= gate.episode
    BY <1>3, <1>4 DEF GateInv, EpisodeInv
  <2>3. after.episode <= gate.episode
    BY <1>4, <1>8, <2>2
  <2>4. Blocked(gate) => (after.resumed => after.episode < gate.episode)
    BY <1>3, <1>4, <1>8, <2>2 DEF GateInv, EpisodeInv
  <2>5. \A b \in Emitters : out'[b].episode <= gate.episode
    BY <1>3, <2>1 DEF GateInv, EpisodeInv
  <2>6. Blocked(gate) => \A b \in Emitters :
                            out'[b].kind = "resumed" => out'[b].episode < gate.episode
    BY <2>1 DEF GateInv, EpisodeInv
  <2>7. QED
    BY <1>2, <1>8, <2>3, <2>4, <2>5, <2>6 DEF GateInv, EpisodeInv
<1>14. ViewInv'
  <2>1. ASSUME NEW k \in Jobs \ {j}, NEW kind, Coming(k, kind)
        PROVE  Coming(k, kind)'
    <3>1. PICK b \in Emitters : out[b].kind = kind /\ out[b].episode = gate.episode
                                /\ k \in out[b].to
      BY <2>1 DEF Coming
    <3>2. out'[b].kind = kind /\ out'[b].episode = gate.episode /\ k \in out'[b].to
      BY <1>5, <1>7, <3>1
    <3>3. QED
      BY <1>2, <3>2 DEF Coming
  <2>2. ASSUME NEW k \in Jobs, \A b \in Emitters : out[b].kind = "blocked" => k \notin out[b].to
        PROVE  \A b \in Emitters : out'[b].kind = "blocked" => k \notin out'[b].to
    BY <1>5, <1>6, <1>7, <2>2
  <2>3. ASSUME NEW kind, Coming(j, kind)
        PROVE  \/ Coming(j, kind)'
               \/ out[a].kind = kind /\ out[a].episode = gate.episode
    <3>1. PICK b \in Emitters : out[b].kind = kind /\ out[b].episode = gate.episode
                                /\ j \in out[b].to
      BY <2>3 DEF Coming
    <3>2. QED
      BY <1>2, <1>7, <3>1 DEF Coming
  <2>4. rx[j].episode \in Nat /\ rx[j].episode <= gate.episode /\ out[a].episode <= gate.episode
    BY <1>3, <1>4 DEF GateInv, EpisodeInv
  <2>5. ASSUME Blocked(gate), j \in gate.jobs
        PROVE  KnowsBlocked(j)'
    <3>1. CASE Coming(j, "blocked")'
      BY <3>1 DEF KnowsBlocked
    <3>2. CASE out[a].kind = "blocked" /\ out[a].episode = gate.episode
      <4>1. ~(out[a].episode = rx[j].episode /\ rx[j].resumed)
        BY <1>4, <2>4, <2>5, <3>2 DEF GateInv, EpisodeInv
      <4>2. after.episode = gate.episode /\ after.waiting
        BY <1>4, <1>8, <2>4, <3>2, <4>1
      <4>3. QED
        BY <1>2, <4>2 DEF KnowsBlocked
    <3>3. CASE rx[j].episode = gate.episode /\ rx[j].waiting
      <4>1. out[a].kind = "resumed" => out[a].episode < gate.episode
        BY <2>5 DEF GateInv, EpisodeInv
      <4>2. after.episode = gate.episode /\ after.waiting
        BY <1>3, <1>4, <1>8, <2>4, <3>3, <4>1
      <4>3. QED
        BY <1>2, <4>2 DEF KnowsBlocked
    <3>4. QED
      BY <2>3, <2>5, <3>1, <3>2, <3>3 DEF GateInv, ViewInv, KnowsBlocked
  <2>6. ASSUME ~Blocked(gate), j \in gate.jobs
        PROVE  KnowsReady(j)'
    <3>1. CASE Coming(j, "resumed")'
      BY <3>1 DEF KnowsReady
    <3>2. CASE out[a].kind = "resumed" /\ out[a].episode = gate.episode
      <4>1. after.episode = gate.episode /\ after.resumed /\ ~after.waiting
        BY <1>4, <1>8, <2>4, <3>2
      <4>2. QED
        BY <1>2, <4>1 DEF KnowsReady
    <3>3. CASE rx[j].episode = gate.episode /\ rx[j].resumed /\ ~rx[j].waiting
      <4>1. after.episode = gate.episode /\ after.resumed /\ ~after.waiting
        BY <1>3, <1>4, <1>8, <2>4, <3>3
      <4>2. QED
        BY <1>2, <4>1 DEF KnowsReady
    <3>4. CASE ~rx[j].waiting /\ \A b \in Emitters : out[b].kind = "blocked" => j \notin out[b].to
      <4>1. ~after.waiting
        BY <1>4, <1>8, <2>4, <3>4
      <4>2. QED
        BY <1>2, <1>4, <2>2, <3>4, <4>1 DEF KnowsReady
    <3>5. QED
      BY <2>3, <2>6, <3>1, <3>2, <3>3, <3>4 DEF GateInv, ViewInv, KnowsReady
  <2>7. \A k \in gate.jobs \ {j} : Blocked(gate) => KnowsBlocked(k)'
    BY <1>2, <1>3, <1>8, <2>1 DEF GateInv, ViewInv, KnowsBlocked
  <2>8. \A k \in gate.jobs \ {j} : ~Blocked(gate) => KnowsReady(k)'
    BY <1>2, <1>3, <1>8, <2>1, <2>2 DEF GateInv, ViewInv, KnowsReady
  <2>9. QED
    BY <1>2, <2>5, <2>6, <2>7, <2>8 DEF ViewInv
<1>15. QED
  BY <1>2, <1>9, <1>10, <1>11, <1>12, <1>13, <1>14, Frames DEF GateInv

-----------------------------------------------------------------------------
\* The monitor's changes of the gate leave it blocked, and take the permit back
\* from everybody.
LEMMA SampledGate ==
    ASSUME GateInv, \/ gate' = RecordQueryFailure(gate)
                    \/ \E positive \in BOOLEAN : gate' = Poll(gate, positive)
    PROVE  /\ gate' \in [phase : {"ready", "blocked", "probing"}, episode : Nat, owner : Nat,
                         emitted : BOOLEAN, jobs : SUBSET Jobs]
           /\ UNCHANGED <<Blocked(gate), gate.episode, gate.jobs, gate.emitted>>
           /\ gate'.owner = gate.owner \/ gate'.owner = NoToken
           /\ gate'.owner # NoToken => gate'.phase = "probing"
           /\ gate' = RecordQueryFailure(gate) => gate'.owner = NoToken
<1>1. /\ gate \in [phase : {"ready", "blocked", "probing"}, episode : Nat, owner : Nat,
                   emitted : BOOLEAN, jobs : SUBSET Jobs]
      /\ gate.owner # NoToken => gate.phase = "probing"
  BY DEF GateInv, GateTypeOK, OwnerInv
<1>2. NoToken \in Nat
  BY DEF NoToken
<1>3. CASE gate' = gate
  BY <1>1, <1>3 DEF RecordQueryFailure
<1>4. CASE gate.phase = "probing" /\ gate' = [gate EXCEPT !.phase = "blocked", !.owner = NoToken]
  BY <1>1, <1>2, <1>4 DEF Blocked
<1>5. CASE gate.phase = "blocked" /\ gate' = [gate EXCEPT !.phase = "probing", !.owner = NoToken]
  BY <1>1, <1>2, <1>5 DEF Blocked
<1>6. QED
  BY <1>3, <1>4, <1>5 DEF RecordQueryFailure, Poll

\* A step of the monitor: what it may switch off and whom it may tell.
LEMMA MonitorStepKeeps ==
    ASSUME GateInv, MonitorStep
    PROVE  GateInv'
<1> DEFINE GateType == [phase : {"ready", "blocked", "probing"}, episode : Nat, owner : Nat,
                        emitted : BOOLEAN, jobs : SUBSET Jobs]
<1>1. UNCHANGED <<pc, left, lease, outcome, cancelled, rx, vol>>
  BY DEF MonitorStep, Tick, PullBlocked, PullAffected, StopSampling, QueryFails, QuerySucceeds,
         NoteQueryFailure, PollGate, TakeStatusReport, ReadStatusIds, EmitStatus, threadVars
<1>2. LeftInv'
  BY <1>1, Frames
<1>3. CASE QueryFails \/ NoteQueryFailure \/ PollGate
  <2>1. /\ UNCHANGED <<out, sampling, noted, reported>>
        /\ mon # "stop" /\ mon' \in {"note", "status"}
        /\ changes' \in 0 .. MaxChanges /\ sample' \in BOOLEAN
        /\ \/ UNCHANGED revoked
           \/ /\ gate' = RecordQueryFailure(gate)
              /\ revoked' = revoked \cup {j \in Jobs : lease[j] # NoToken}
    <3>1. changes \in 0 .. MaxChanges /\ sample \in BOOLEAN
      BY DEF GateInv, GateTypeOK
    <3>2. CASE QueryFails
      BY <3>1, <3>2, GateAssumption DEF QueryFails, MonitorAt
    <3>3. CASE NoteQueryFailure \/ PollGate
      BY <3>1, <3>3 DEF NoteQueryFailure, PollGate, MonitorAt
    <3>4. QED
      BY <1>3, <3>2, <3>3
  <2>2. \/ gate' = RecordQueryFailure(gate)
        \/ \E positive \in BOOLEAN : gate' = Poll(gate, positive)
    BY <1>3 DEF QueryFails, NoteQueryFailure, PollGate, GateInv, GateTypeOK
  <2>3. /\ gate' \in GateType
        /\ UNCHANGED <<Blocked(gate), gate.episode, gate.jobs, gate.emitted>>
        /\ gate'.owner = gate.owner \/ gate'.owner = NoToken
        /\ gate'.owner # NoToken => gate'.phase = "probing"
        /\ gate' = RecordQueryFailure(gate) => gate'.owner = NoToken
    BY <2>2, SampledGate
  <2>4. GateTypeOK'
    BY <1>1, <2>1, <2>3 DEF GateInv, GateTypeOK
  <2>5. LeaseInv'
    BY <1>1, <2>1, <2>3 DEF GateInv, LeaseInv, GateTypeOK
  <2>6. OwnerInv'
    BY <1>1, <2>3 DEF GateInv, OwnerInv
  <2>7. SamplerInv'
    BY <2>1, <2>3 DEF GateInv, SamplerInv
  <2>8. QED
    BY <1>1, <1>2, <2>1, <2>3, <2>4, <2>5, <2>6, <2>7, Frames DEF GateInv
<1>4. CASE Tick \/ PullBlocked \/ PullAffected \/ StopSampling \/ QuerySucceeds \/ TakeStatusReport
           \/ ReadStatusIds
  <2>1. /\ UNCHANGED <<gate, changes, out, revoked>>
        /\ reported' \in {reported, gate.jobs}
        /\ sampling' \in BOOLEAN /\ noted' \in BOOLEAN /\ sample' \in BOOLEAN
        /\ mon' \in {"idle", "pull", "affected", "stop", "query", "note", "poll",
                     "status", "ids", "episode"}
    BY <1>4 DEF GateInv, GateTypeOK, Tick, PullBlocked, PullAffected, StopSampling, QuerySucceeds,
                TakeStatusReport, ReadStatusIds, MonitorAt, Blocked
  <2>2. GateTypeOK'
    BY <1>1, <2>1 DEF GateInv, GateTypeOK
  <2>3. SamplerInv'
    <3>1. \/ UNCHANGED sampling /\ mon' # "stop"
          \/ mon' = "stop" /\ (~Blocked(gate) \/ gate.jobs = {})
          \/ mon = "stop" /\ mon' = "idle" /\ sampling' = (sampling /\ noted)
      BY <1>4 DEF Tick, PullBlocked, PullAffected, StopSampling, QuerySucceeds,
                  TakeStatusReport, ReadStatusIds, MonitorAt
    <3>2. QED
      BY <2>1, <3>1 DEF GateInv, SamplerInv, Blocked
  <2>4. NewJobInv'
    BY <1>1, <2>1 DEF GateInv, NewJobInv
  <2>5. QED
    BY <1>1, <1>2, <2>1, <2>2, <2>3, <2>4, Frames DEF GateInv, Blocked
<1>5. CASE EmitStatus
  <2> DEFINE line == [kind |-> "status", episode |-> gate.episode, to |-> reported, noted |-> TRUE]
  <2>1. /\ UNCHANGED <<gate, changes, sampling, noted, sample, revoked>>
        /\ mon = "episode" /\ mon' = "idle" /\ reported' = {}
        /\ out' = [out EXCEPT ![Monitor] = line]
    BY <1>5 DEF EmitStatus, MonitorAt, Transition
  <2>2. /\ out \in [Emitters -> Transitions] /\ reported \subseteq Jobs /\ gate.episode \in Nat
        /\ gate.jobs \subseteq Jobs
    BY DEF GateInv, GateTypeOK
  <2>3. /\ line \in Transitions /\ line.kind = "status" /\ line.to = reported
        /\ line.episode = gate.episode /\ line.noted = TRUE
    BY <2>2 DEF Transitions
  <2> HIDE DEF line
  <2>4. /\ out' \in [Emitters -> Transitions] /\ out'[Monitor] = line
        /\ \A b \in Emitters \ {Monitor} : out'[b] = out[b]
        /\ out[Monitor].kind \in {"none", "status"} /\ out[Monitor].noted
    BY <2>1, <2>2, <2>3 DEF Emitters, GateInv, EmitInv
  <2>5. GateTypeOK'
    BY <1>1, <2>1, <2>4 DEF GateInv, GateTypeOK
  <2>6. EmitInv'
    BY <1>1, <2>3, <2>4, GateAssumption DEF GateInv, EmitInv, Silent, Emitters
  <2>7. SamplerInv'
    BY <2>1, <2>4 DEF GateInv, SamplerInv
  <2>8. NewJobInv'
    BY <1>1, <2>1, <2>3, <2>4 DEF GateInv, NewJobInv
  <2>9. EpisodeInv'
    BY <1>1, <2>1, <2>2, <2>3, <2>4 DEF GateInv, EpisodeInv, Blocked
  <2>10. ViewInv'
    BY <1>1, <2>1, <2>2, <2>3, <2>4
       DEF GateInv, ViewInv, KnowsBlocked, KnowsReady, Coming, Blocked
  <2>11. QED
    BY <1>1, <1>2, <2>1, <2>5, <2>6, <2>7, <2>8, <2>9, <2>10, Frames DEF GateInv
<1>6. QED
  BY <1>3, <1>4, <1>5 DEF MonitorStep

-----------------------------------------------------------------------------
LEMMA InitGateInv == Init => GateInv
<1> SUFFICES ASSUME Init PROVE GateInv
  OBVIOUS
<1> USE DEF Init
<1>1. NewGate = [phase |-> "ready", episode |-> 0, owner |-> NoToken, emitted |-> FALSE,
                 jobs |-> {}]
  BY DEF NewGate
<1>2. Nothing \in Transitions /\ Nothing.to = {} /\ Nothing.kind = "none" /\ Nothing.noted = TRUE
      /\ Nothing.episode = 0
  BY DEF Nothing, Transitions
<1>3. gate \in [phase : {"ready", "blocked", "probing"}, episode : Nat, owner : Nat,
                emitted : BOOLEAN, jobs : SUBSET Jobs]
  BY <1>1 DEF NoToken
<1>4. /\ gate.owner = NoToken /\ gate.jobs = {} /\ gate.episode = 0 /\ ~Blocked(gate)
  BY <1>1 DEF Blocked
<1>5. NewJobState \in [episode : Nat, resumed : BOOLEAN, waiting : BOOLEAN]
      /\ NewJobState.episode = 0
  BY DEF NewJobState
<1>6. GateTypeOK
  <2>1. out \in [Emitters -> Transitions]
    BY <1>2
  <2>2. rx \in [Jobs -> [episode : Nat, resumed : BOOLEAN, waiting : BOOLEAN]]
    BY <1>5
  <2>3. left \in [Jobs -> 0 .. Directories] /\ lease \in [Jobs -> Nat] /\ changes \in 0 .. MaxChanges
    BY GateAssumption DEF NoToken
  <2>4. QED
    BY <1>3, <2>1, <2>2, <2>3 DEF GateTypeOK
<1>7. LeftInv /\ LeaseInv /\ OwnerInv
  BY <1>4 DEF LeftInv, LeaseInv, OwnerInv
<1>8. EmitInv
  BY <1>2 DEF EmitInv, Silent, Emitters
<1>9. SamplerInv /\ ViewInv
  BY <1>4 DEF SamplerInv, ViewInv
<1>10. NewJobInv
  BY <1>2, <1>4 DEF NewJobInv
<1>11. EpisodeInv
  BY <1>2, <1>4, <1>5 DEF EpisodeInv
<1>12. QED
  BY <1>6, <1>7, <1>8, <1>9, <1>10, <1>11 DEF GateInv

LEMMA NextGateInv == GateInv /\ [Next]_vars => GateInv'
<1> SUFFICES ASSUME GateInv, [Next]_vars PROVE GateInv'
  OBVIOUS
<1>1. CASE VolumeChanges
  BY <1>1, EnvironmentStep
<1>2. ASSUME NEW j \in Jobs, Cancel(j) PROVE GateInv'
  BY <1>2, EnvironmentStep
<1>3. ASSUME NEW j \in Jobs, JobStep(j) PROVE GateInv'
  BY <1>3, JobStepKeeps
<1>4. ASSUME NEW a \in Emitters, EmitStep(a) PROVE GateInv'
  BY <1>4, NoteBlockedStep, PrintLineStep DEF EmitStep
<1>5. CASE MonitorStep
  BY <1>5, MonitorStepKeeps
<1>6. CASE UNCHANGED vars
  <2>1. UNCHANGED <<gate, vol, changes, pc, left, lease, outcome, cancelled, out, sampling, noted,
                    mon, sample, reported, rx, revoked>>
    BY <1>6 DEF vars
  <2>2. GateTypeOK'
    BY <2>1 DEF GateInv, GateTypeOK
  <2>3. QED
    BY <2>1, <2>2, Frames DEF GateInv, Blocked
<1>7. QED
  BY <1>1, <1>2, <1>3, <1>4, <1>5, <1>6 DEF Next, AllEnded

\* The parts of GateInv hold in every reachable state of the gate, its threads,
\* its monitor and the parent's view, for any number of jobs.
THEOREM GateInvariance == Spec => []GateInv
BY InitGateInv, NextGateInv, PTL DEF Spec

\* Every member of the gate, every thread's position and every event keeps its
\* type: tokens and episodes are numbers, lines go to jobs of the volume.
THEOREM GateTypeCorrect == Spec => []GateTypeOK
<1>1. GateInv => GateTypeOK
  BY DEF GateInv
<1>2. QED
  BY <1>1, GateInvariance, PTL

\* The probe permit (probe_owner_) is never lost by an early return, a revoked
\* lease or a cancelled owner, and never held by two threads.
THEOREM PermitNeverLost == Spec => []PermitIsHeld
<1>1. GateInv => PermitIsHeld
  BY DEF GateInv, PermitIsHeld, OwnerInv, LeaseInv
<1>2. QED
  BY <1>1, GateInvariance, PTL

\* The monitor's empty snapshot never switches the sampler off over an episode
\* it has not seen (stop_sampling compares the generation).
THEOREM SamplerNeverStopsEarly == Spec => []SamplingAlive
<1>1. GateInv => SamplingAlive
  BY DEF GateInv, SamplingAlive, SamplerInv
<1>2. QED
  BY <1>1, GateInvariance, PTL

\* Once no Blocked or Resumed line is under way for a registered job, the
\* parent's space_waiting flag agrees with the gate, whatever the order in
\* which the lines of different threads were printed.
THEOREM ParentViewConverges == Spec => []EventsConverge
<1>1. ASSUME GateInv PROVE EventsConverge
  <2>1. SUFFICES ASSUME NEW j \in gate.jobs,
                        \A a \in Emitters :
                            out[a].kind \in {"blocked", "resumed"} => j \notin out[a].to
                 PROVE  rx[j].waiting = Blocked(gate)
    BY DEF EventsConverge
  <2>2. ~Coming(j, "blocked") /\ ~Coming(j, "resumed")
    BY <2>1 DEF Coming
  <2>3. rx[j].waiting \in BOOLEAN /\ Blocked(gate) \in BOOLEAN
    BY <1>1 DEF GateInv, GateTypeOK, Blocked
  <2>4. CASE Blocked(gate)
    BY <1>1, <2>2, <2>3, <2>4 DEF GateInv, ViewInv, KnowsBlocked
  <2>5. CASE ~Blocked(gate)
    BY <1>1, <2>2, <2>3, <2>5 DEF GateInv, ViewInv, KnowsReady
  <2>6. QED
    BY <2>4, <2>5
<1>2. QED
  BY <1>1, GateInvariance, PTL

\* Only a settled success makes a blocked gate ready.
LEMMA OnlySettleResumes ==
    ASSUME GateInv, [Next]_vars, Blocked(gate), ~Blocked(gate')
    PROVE  \E j \in Jobs : Settle(j)
<1>1. gate \in [phase : {"ready", "blocked", "probing"}, episode : Nat, owner : Nat,
                emitted : BOOLEAN, jobs : SUBSET Jobs]
  BY DEF GateInv, GateTypeOK
<1>2. gate' # gate
  BY DEF Blocked
<1>3. ASSUME NEW j \in Jobs, JobStep(j) PROVE Settle(j)
  <2>1. ~Register(j)
    BY <1>1 DEF Register, RegisterJob, Blocked
  <2>2. ~Report(j)
    BY <1>2 DEF Report, ReportSpaceFailure, OpensEpisode, Blocked
  <2>3. ~Wait(j)
    BY <1>1, <1>2 DEF Wait, ClaimProbe, Blocked
  <2>4. ~Unregister(j)
    BY <1>1 DEF Unregister, UnregisterJob, Blocked
  <2>5. QED
    BY <1>2, <1>3, <2>1, <2>2, <2>3, <2>4 DEF JobStep, StartDirectory, Attempt
<1>4. ~MonitorStep
  <2>1. /\ gate' # RecordQueryFailure(gate)
        /\ \A positive \in BOOLEAN : gate' # Poll(gate, positive)
    BY <1>1 DEF RecordQueryFailure, Poll, Blocked
  <2>2. ~QueryFails /\ ~NoteQueryFailure /\ ~PollGate
    <3>1. sample \in BOOLEAN
      BY DEF GateInv, GateTypeOK
    <3>2. QED
      BY <2>1, <3>1 DEF QueryFails, NoteQueryFailure, PollGate
  <2>3. QED
    BY <1>2, <2>2 DEF MonitorStep, Tick, PullBlocked, PullAffected, StopSampling, QuerySucceeds,
                      TakeStatusReport, ReadStatusIds, EmitStatus
<1>5. QED
  BY <1>2, <1>3, <1>4 DEF Next, vars, VolumeChanges, Cancel, EmitStep, NoteBlocked, PrintLine,
                          AllEnded

\* A full volume becomes ready only by a real success made under a lease that
\* no failed query has revoked since.
THEOREM ResumeAlwaysEarned == Spec => ResumeIsEarned
<1>1. ASSUME GateInv, [Next]_vars, Blocked(gate), ~Blocked(gate')
      PROVE  \E j \in Jobs : /\ pc[j] = "settle" /\ pc'[j] # "settle"
                             /\ outcome[j] = "ok"
                             /\ j \notin revoked
  <2>1. PICK j \in Jobs : Settle(j)
    BY <1>1, OnlySettleResumes
  <2>2. outcome[j] = "ok" /\ j \notin revoked
    BY <1>1, <2>1, SettleStep
  <2>3. pc[j] = "settle" /\ pc' = [pc EXCEPT ![j] = "run"]
    BY <2>1, <2>2 DEF Settle, ThenGo
  <2>4. pc'[j] # "settle"
    BY <1>1, <2>3 DEF GateInv, GateTypeOK
  <2>5. QED
    BY <2>2, <2>3, <2>4
<1>2. QED
  BY <1>1, GateInvariance, PTL DEF Spec, ResumeIsEarned

=============================================================================
