----------------------------- MODULE VolumeGate -----------------------------
(***************************************************************************)
(* The space gate of one output volume (class VolumeSpaceGate) as a value: *)
(* a record with the members that decide anything, and one operator per    *)
(* critical section of its mutex_.  The gate keeps no reference to its     *)
(* users, so it has no actions of its own: SpaceGate and OutputWriter      *)
(* apply these operators in theirs.                                        *)
(*                                                                         *)
(*   phase    phase_: "ready", "blocked" or "probing"                      *)
(*   episode  episode_id_                                                  *)
(*   owner    probe_owner_token_; NoToken while the permit is unclaimed    *)
(*   emitted  blocked_event_emitted_                                       *)
(*   jobs     affected_jobs_, a list without duplicates used for fan-out   *)
(*                                                                         *)
(* Left out: the error code, the byte counts, the time stamps and the      *)
(* query root, which only travel into event texts.                         *)
(***************************************************************************)
EXTENDS Naturals

NoToken == 0

NewGate == [phase |-> "ready", episode |-> 0, owner |-> NoToken,
            emitted |-> FALSE, jobs |-> {}]

(* blocked(): Probing counts as blocked.                                   *)
Blocked(g) == g.phase # "ready"

(* Mutant: any lease settles a probing gate, a revoked one too.            *)
OwnsProbe_AnyLease(g, token) == g.phase = "probing" /\ token # NoToken

(* owns_probe_locked: a lease whose token is not the current owner's is    *)
(* stale, and settling it changes nothing.                                 *)
OwnsProbe(g, token) ==
    g.phase = "probing" /\ token # NoToken /\ g.owner = token

(* register_job and unregister_job.                                        *)
RegisterJob(g, j) == [g EXCEPT !.jobs = @ \cup {j}]

(* A job that registers on a volume already known to be full is told so.   *)
LateBlocked(g, j) == j \notin g.jobs /\ Blocked(g) /\ g.emitted

UnregisterJob(g, j) == [g EXCEPT !.jobs = @ \ {j}]

(* report_space_failure opens an episode on a ready gate; on a blocked or  *)
(* a probing one it is evidence only, and the permit stays where it is.    *)
OpensEpisode(g) == g.phase = "ready"

ReportSpaceFailure(g) ==
    IF OpensEpisode(g)
    THEN [g EXCEPT !.phase = "blocked", !.episode = @ + 1,
                   !.owner = NoToken, !.emitted = TRUE]
    ELSE g

(* decide_locked, without the effect of claiming the permit.               *)
Decision(g, terminal) ==
    CASE terminal                                          -> "terminal"
      [] ~terminal /\ g.phase = "ready"                    -> "go"
      [] ~terminal /\ g.phase = "probing" /\ g.owner = NoToken -> "probe"
      [] OTHER                                             -> "pending"

ClaimProbe(g, token) == [g EXCEPT !.owner = token]

(* record_query_failure_locked: a failed query is newer than the sample    *)
(* that authorised the probe in flight, and revokes it.                    *)
RecordQueryFailure(g) ==
    IF g.phase = "probing"
    THEN [g EXCEPT !.phase = "blocked", !.owner = NoToken]
    ELSE g

(* poll: a positive sample of a blocked volume authorises one real try.    *)
Poll(g, positive) ==
    IF g.phase = "blocked" /\ positive
    THEN [g EXCEPT !.phase = "probing", !.owner = NoToken]
    ELSE g

(* Mutant: a probe that ran out of space again leaves the gate probing.    *)
SettleSpaceFailure_StaysProbing(g, token) == g

(* Mutant: a lease dropped without a verdict keeps the permit.             *)
SettleInconclusive_KeepsPermit(g, token) == g

(* settle_success, settle_space_failure and settle_inconclusive.           *)
SettleSuccess(g, token) ==
    IF OwnsProbe(g, token)
    THEN [g EXCEPT !.phase = "ready", !.owner = NoToken, !.emitted = FALSE]
    ELSE g

SettleSpaceFailure(g, token) ==
    IF OwnsProbe(g, token)
    THEN [g EXCEPT !.phase = "blocked", !.owner = NoToken]
    ELSE g

SettleInconclusive(g, token) ==
    IF OwnsProbe(g, token) THEN [g EXCEPT !.owner = NoToken] ELSE g

(* settle_space_attempt: how a lease is settled by the outcome of the real *)
(* operation made under it.                                                *)
SettleAttempt(g, token, outcome) ==
    CASE outcome = "ok"    -> SettleSuccess(g, token)
      [] outcome = "space" -> SettleSpaceFailure(g, token)
      [] OTHER             -> SettleInconclusive(g, token)

=============================================================================
