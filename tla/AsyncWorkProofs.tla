-------------------------- MODULE AsyncWorkProofs --------------------------
(***************************************************************************)
(* For any number of calls, requests, threads and permits: run() never     *)
(* returns before its operation is over, and an item is settled once.      *)
(***************************************************************************)
EXTENDS AsyncWork, FiniteSetTheorems, SequenceTheorems, TLAPS

(***************************************************************************)
(* The inductive invariant.                                                *)
(***************************************************************************)

JobTypes ==
    /\ caller \in [Jobs -> Callers] /\ phase \in [Jobs -> WorkPhases]
    /\ waiters \in Seq(Jobs)
    /\ wrappers \subseteq Jobs /\ claimed \subseteq Jobs
    /\ running \subseteq Jobs /\ rejecting \subseteq Jobs

\* The semaphore's queue holds calls that wait for admission, each once.
WaiterInv ==
    /\ \A i \in 1..Len(waiters) : caller[waiters[i]] = "admitting"
    /\ \A i, k \in 1..Len(waiters) : waiters[i] = waiters[k] => i = k

\* How far a call is and how far its item is.
CallInv(j) ==
    /\ caller[j] \in {"new", "admitting", "granted"} => phase[j] = "none"
    /\ caller[j] = "returned" => phase[j] \in {"none", "settled"}

\* Who owns an item: nobody before it is submitted; its wrapper or the
\* submitter until one of them claims it; the worker while it runs; and nobody
\* once it is settled, for a wrapper left behind finds the claim taken.
ClaimInv(j) ==
    /\ phase[j] \in {"none", "queued"} =>
          j \notin wrappers /\ j \notin claimed /\ j \notin running /\ j \notin rejecting
    /\ phase[j] = "submitted" /\ j \in claimed => j \in running
    /\ phase[j] = "completing" => j \in claimed
    /\ phase[j] = "settled" => (j \in wrappers => j \in claimed) /\ j \notin rejecting
    /\ j \in running => phase[j] = "submitted" /\ j \in claimed
    /\ j \in rejecting => loop = "dispatch"

WorkInv ==
    /\ JobTypes
    /\ WaiterInv
    /\ \A j \in Jobs : CallInv(j) /\ ClaimInv(j)

-----------------------------------------------------------------------------
\* Calls the semaphore wakes were waiting for admission, and leave its queue;
\* nobody else is affected (asyncio.Semaphore.release).
LEMMA ReleaseWakes ==
    ASSUME WorkInv, NEW n \in Nat, ReleaseSlots(n)
    PROVE  /\ waiters' \in Seq(Jobs)
           /\ Granted(n) \in [Jobs -> Callers]
           /\ \A j \in Jobs : \/ Granted(n)[j] = caller[j]
                              \/ caller[j] = "admitting" /\ Granted(n)[j] = "granted"
           /\ \A i \in 1..Len(waiters') : /\ caller[waiters'[i]] = "admitting"
                                          /\ Granted(n)[waiters'[i]] = "admitting"
           /\ \A i, k \in 1..Len(waiters') : waiters'[i] = waiters'[k] => i = k
<1> DEFINE m == Least(n, Len(waiters))
<1>0. waiters \in Seq(Jobs) /\ caller \in [Jobs -> Callers] /\ Len(waiters) \in Nat
  BY DEF WorkInv, JobTypes
<1>1. m \in 0..Len(waiters)
  BY <1>0 DEF Least
<1>2. waiters' = SubSeq(waiters, m + 1, Len(waiters))
  BY DEF ReleaseSlots
<1>3. /\ waiters' \in Seq(Jobs) /\ Len(waiters') = Len(waiters) - m
      /\ \A i \in 1..Len(waiters') : i + m \in 1..Len(waiters) /\ waiters'[i] = waiters[i + m]
  <2> HIDE DEF m
  <2>1. QED
    BY <1>0, <1>1, <1>2
<1>4. Woken(n) = {waiters[i] : i \in 1..m}
  BY DEF Woken
<1>5. \A j \in Woken(n) : j \in Jobs /\ caller[j] = "admitting"
  BY <1>0, <1>1, <1>4 DEF WorkInv, WaiterInv
<1>6. \A i \in 1..Len(waiters') : waiters'[i] \notin Woken(n)
  <2> HIDE DEF m
  <2>1. SUFFICES ASSUME NEW i \in 1..Len(waiters'), NEW k \in 1..m, waiters'[i] = waiters[k]
                 PROVE  FALSE
    BY <1>4
  <2>2. i + m \in 1..Len(waiters) /\ k \in 1..Len(waiters) /\ waiters[i + m] = waiters[k]
    BY <1>0, <1>1, <1>3, <2>1
  <2>3. i + m = k
    BY <2>2 DEF WorkInv, WaiterInv
  <2>4. QED
    BY <1>0, <1>1, <1>3, <2>3
<1>7. \A i \in 1..Len(waiters') : waiters'[i] \in Jobs /\ caller[waiters'[i]] = "admitting"
  <2> HIDE DEF m
  <2>1. \A i \in 1..Len(waiters) : waiters[i] \in Jobs
    BY <1>0
  <2>2. \A i \in 1..Len(waiters) : caller[waiters[i]] = "admitting"
    BY DEF WorkInv, WaiterInv
  <2>3. QED
    BY <1>3, <2>1, <2>2, Zenon
<1>8. \A i, k \in 1..Len(waiters') : waiters'[i] = waiters'[k] => i = k
  <2> HIDE DEF m
  <2>1. SUFFICES ASSUME NEW i \in 1..Len(waiters'), NEW k \in 1..Len(waiters'),
                        waiters'[i] = waiters'[k]
                 PROVE  i = k
    OBVIOUS
  <2>2. i + m = k + m
    <3>1. \A x, y \in 1..Len(waiters) : waiters[x] = waiters[y] => x = y
      BY DEF WorkInv, WaiterInv
    <3>2. QED
      BY <1>3, <2>1, <3>1, Zenon
  <2>3. QED
    BY <1>0, <1>1, <1>3, <2>2
<1>9. QED
  BY <1>0, <1>3, <1>5, <1>6, <1>7, <1>8 DEF Granted, Callers

\* A sequence from which one place is dropped: the others keep their order.
LEMMA DropAtFacts ==
    ASSUME NEW S, NEW s \in Seq(S), NEW p \in 1..Len(s)
    PROVE  /\ DropAt(s, p) \in Seq(S)
           /\ Len(DropAt(s, p)) = Len(s) - 1
           /\ \A i \in 1..(Len(s) - 1) : DropAt(s, p)[i] = s[IF i < p THEN i ELSE i + 1]
<1> DEFINE head == SubSeq(s, 1, p - 1)
           tail == SubSeq(s, p + 1, Len(s))
<1>0. Len(s) \in Nat
  OBVIOUS
<1>1. /\ head \in Seq(S) /\ Len(head) = p - 1
      /\ \A i \in 1..(p - 1) : head[i] = s[i]
  OBVIOUS
<1>2. /\ tail \in Seq(S) /\ Len(tail) = Len(s) - p
      /\ \A i \in 1..(Len(s) - p) : tail[i] = s[i + p]
  OBVIOUS
<1>3. DropAt(s, p) = head \o tail
  BY DEF DropAt
<1> HIDE DEF head, tail
<1>4. /\ DropAt(s, p) \in Seq(S) /\ Len(DropAt(s, p)) = Len(head) + Len(tail)
      /\ \A i \in 1..(Len(head) + Len(tail)) :
            DropAt(s, p)[i] = IF i <= Len(head) THEN head[i] ELSE tail[i - Len(head)]
  <2>1. /\ head \o tail \in Seq(S) /\ Len(head \o tail) = Len(head) + Len(tail)
        /\ \A i \in 1..(Len(head) + Len(tail)) :
              (head \o tail)[i] = IF i <= Len(head) THEN head[i] ELSE tail[i - Len(head)]
    BY <1>1, <1>2, ConcatProperties, Zenon
  <2>2. QED
    BY <1>3, <2>1, Zenon
<1>5. ASSUME NEW i \in 1..(Len(s) - 1)
      PROVE  DropAt(s, p)[i] = s[IF i < p THEN i ELSE i + 1]
  <2>1. CASE i < p
    <3>1. i \in 1..(p - 1) /\ i <= p - 1
      BY <1>0, <2>1
    <3>2. i \in 1..(Len(head) + Len(tail)) /\ Len(head) = p - 1
      <4>1. Len(head) = p - 1 /\ Len(tail) = Len(s) - p
        BY <1>1, <1>2, Zenon
      <4>2. QED
        BY <1>0, <4>1
    <3>3. DropAt(s, p)[i] = IF i <= Len(head) THEN head[i] ELSE tail[i - Len(head)]
      BY <1>4, <3>2, Zenon
    <3>4. i <= Len(head)
      BY <3>1, <3>2
    <3>5. DropAt(s, p)[i] = head[i]
      BY <3>3, <3>4, Zenon
    <3>6. head[i] = s[i]
      BY <1>1, <3>1, Zenon
    <3>7. QED
      BY <2>1, <3>5, <3>6, Zenon
  <2>2. CASE i >= p
    <3>1. i - (p - 1) \in 1..(Len(s) - p) /\ (i - (p - 1)) + p = i + 1 /\ ~(i <= p - 1)
      BY <1>0, <2>2
    <3>2. i \in 1..(Len(head) + Len(tail)) /\ Len(head) = p - 1
      BY <1>0, <1>1, <1>2
    <3>3. DropAt(s, p)[i] = tail[i - (p - 1)]
      BY <1>4, <3>1, <3>2
    <3>4. tail[i - (p - 1)] = s[i + 1]
      BY <1>2, <3>1
    <3>5. QED
      BY <2>2, <3>3, <3>4
  <2>3. QED
    BY <1>0, <2>1, <2>2
<1>6. QED
  BY <1>0, <1>1, <1>2, <1>4, <1>5

\* A call that gives up its place leaves the others in order (a cancelled
\* asyncio.Semaphore.acquire).
LEMMA LeaveKeeps ==
    ASSUME WorkInv, NEW j \in Jobs, LeaveWaiters(j)
    PROVE  /\ waiters' \in Seq(Jobs)
           /\ \A i \in 1..Len(waiters') : /\ caller[waiters'[i]] = "admitting"
                                          /\ waiters'[i] # j
           /\ \A i, k \in 1..Len(waiters') : waiters'[i] = waiters'[k] => i = k
<1>0. waiters \in Seq(Jobs) /\ Len(waiters) \in Nat
  BY DEF WorkInv, JobTypes
<1>1. PICK p \in 1..Len(waiters) : waiters[p] = j /\ waiters' = DropAt(waiters, p)
  <2>1. DOMAIN waiters = 1..Len(waiters)
    BY <1>0
  <2>2. QED
    BY <2>1, Zenon DEF LeaveWaiters
<1> DEFINE at(i) == IF i < p THEN i ELSE i + 1
<1>2. /\ waiters' \in Seq(Jobs) /\ Len(waiters') = Len(waiters) - 1
      /\ \A i \in 1..(Len(waiters) - 1) : waiters'[i] = waiters[at(i)]
  BY <1>0, <1>1, DropAtFacts
<1>3. ASSUME NEW i \in 1..Len(waiters')
      PROVE  at(i) \in 1..Len(waiters) /\ at(i) # p /\ waiters'[i] = waiters[at(i)]
  BY <1>0, <1>2
<1>4. ASSUME NEW i \in 1..Len(waiters') PROVE caller[waiters'[i]] = "admitting" /\ waiters'[i] # j
  <2> HIDE DEF at
  <2>1. /\ at(i) \in 1..Len(waiters) /\ at(i) # p /\ waiters'[i] = waiters[at(i)]
    BY <1>3
  <2>2. QED
    BY <1>1, <2>1 DEF WorkInv, WaiterInv
<1>5. ASSUME NEW i \in 1..Len(waiters'), NEW k \in 1..Len(waiters'), waiters'[i] = waiters'[k]
      PROVE  i = k
  <2>1. at(i) = at(k)
    <3>1. /\ at(i) \in 1..Len(waiters) /\ at(k) \in 1..Len(waiters)
          /\ waiters[at(i)] = waiters[at(k)]
      BY <1>3, <1>5
    <3>2. QED
      BY <3>1 DEF WorkInv, WaiterInv
  <2>2. QED
    BY <1>0, <1>2, <2>1
<1>6. QED
  BY <1>2, <1>4, <1>5

-----------------------------------------------------------------------------
\* A step that leaves the executor's side of every item alone.
PoolKept ==
    /\ wrappers' = wrappers /\ claimed' = claimed
    /\ running' = running /\ rejecting' = rejecting
    /\ loop' = loop \/ rejecting = {}

\* Only unsubmitted items are queued or settled.
PhaseMoves(k) ==
    \/ phase'[k] = phase[k]
    \/ phase[k] = "none" /\ phase'[k] = "queued"
    \/ phase[k] = "queued" /\ phase'[k] = "settled"

\* A step that leaves the pool alone, in which no call returns early and only
\* unsubmitted items are queued or settled, keeps the invariant.
LEMMA PoolUntouched ==
    ASSUME WorkInv, JobTypes', WaiterInv', PoolKept,
           \A k \in Jobs : CallInv(k)' /\ PhaseMoves(k)
    PROVE  WorkInv'
<1>1. SUFFICES ASSUME NEW k \in Jobs PROVE ClaimInv(k)'
  BY DEF WorkInv
<1>2. ClaimInv(k) /\ rejecting \subseteq Jobs
  BY DEF WorkInv, JobTypes
<1>3. QED
  BY <1>1, <1>2 DEF ClaimInv, PoolKept, PhaseMoves

\* run() and the outcomes of its admission.
LEMMA AdmissionStep ==
    ASSUME WorkInv, NEW j \in Jobs,
           Run(j) \/ AdmissionResumes(j) \/ AdmissionCancelled(j) \/ GrantedCancelled(j)
    PROVE  WorkInv'
<1>0. /\ JobTypes /\ WaiterInv /\ CallInv(j) /\ ClaimInv(j)
      /\ \A k \in Jobs : CallInv(k)
      /\ \A i \in 1..Len(waiters) : waiters[i] \in Jobs
      /\ loop = "ready" /\ rejecting = {}
  BY DEF WorkInv, JobTypes, ClaimInv, Run, AdmissionResumes, AdmissionCancelled, GrantedCancelled
<1>1. ASSUME Enqueue(j), UNCHANGED waiters, caller[j] \in {"new", "granted"}
      PROVE  WorkInv'
  <2>1. JobTypes' /\ WaiterInv' /\ UNCHANGED <<wrappers, claimed, running, rejecting>>
    BY <1>0, <1>1 DEF JobTypes, WaiterInv, Enqueue, poolVars, Callers, WorkPhases
  <2>2. \A k \in Jobs : CallInv(k)'
    BY <1>0, <1>1 DEF JobTypes, CallInv, Enqueue
  <2>3. \A k \in Jobs : phase'[k] = phase[k] \/ (phase[k] = "none" /\ phase'[k] = "queued")
    BY <1>0, <1>1 DEF JobTypes, CallInv, Enqueue
  <2>4. QED
    BY <1>0, <2>1, <2>2, <2>3, PoolUntouched DEF PoolKept, PhaseMoves
<1>2. ASSUME GiveBack(j), caller[j] = "granted"
      PROVE  WorkInv'
  <2>0. ReleaseSlots(1) /\ caller' = [Granted(1) EXCEPT ![j] = "returned"]
    BY <1>2 DEF GiveBack
  <2>1. UNCHANGED <<phase, wrappers, claimed, running, rejecting, loop>>
    BY <1>2 DEF GiveBack, poolVars
  <2>2. JobTypes' /\ WaiterInv'
    BY <1>0, <1>2, <2>0, <2>1, ReleaseWakes DEF JobTypes, WaiterInv, Callers
  <2>3. \A k \in Jobs : CallInv(k)'
    BY <1>0, <1>2, <2>0, <2>1, ReleaseWakes DEF JobTypes, CallInv
  <2>4. QED
    BY <1>0, <2>1, <2>2, <2>3, PoolUntouched DEF PoolKept, PhaseMoves
<1>3. CASE AdmissionCancelled(j)
  <2>0. LeaveWaiters(j) /\ caller' = [caller EXCEPT ![j] = "returned"] /\ caller[j] = "admitting"
    BY <1>3 DEF AdmissionCancelled
  <2>1. UNCHANGED <<phase, wrappers, claimed, running, rejecting, loop>>
    BY <1>3 DEF AdmissionCancelled, poolVars
  <2>2. JobTypes' /\ WaiterInv'
    BY <1>0, <2>0, <2>1, LeaveKeeps DEF JobTypes, WaiterInv, Callers
  <2>3. \A k \in Jobs : CallInv(k)'
    BY <1>0, <2>0, <2>1 DEF JobTypes, CallInv
  <2>4. QED
    BY <1>0, <2>1, <2>2, <2>3, PoolUntouched DEF PoolKept, PhaseMoves
<1>4. CASE Run(j)
  <2>1. CASE Refuse(j)
    <3>1. UNCHANGED <<phase, waiters, wrappers, claimed, running, rejecting, loop>>
      BY <2>1 DEF Refuse, slotVars, poolVars
    <3>2. JobTypes' /\ WaiterInv' /\ \A k \in Jobs : CallInv(k)'
      BY <1>0, <1>4, <2>1, <3>1 DEF Run, Refuse, JobTypes, WaiterInv, CallInv, Callers
    <3>3. QED
      BY <1>0, <3>1, <3>2, PoolUntouched DEF PoolKept, PhaseMoves
  <2>2. CASE Enqueue(j) /\ UNCHANGED waiters
    BY <1>1, <1>4, <2>2 DEF Run
  <2>3. CASE /\ caller' = [caller EXCEPT ![j] = "admitting"]
             /\ waiters' = Append(waiters, j)
             /\ UNCHANGED <<phase, poolVars, loop>>
    <3>1. UNCHANGED <<phase, wrappers, claimed, running, rejecting, loop>>
      BY <2>3 DEF poolVars
    <3>2. caller[j] = "new"
      BY <1>4 DEF Run
    <3>3. JobTypes' /\ \A k \in Jobs : CallInv(k)'
      BY <1>0, <2>3, <3>1, <3>2 DEF JobTypes, CallInv, Callers
    <3>4. WaiterInv'
      BY <1>0, <2>3, <3>2 DEF JobTypes, WaiterInv
    <3>5. QED
      BY <1>0, <3>1, <3>3, <3>4, PoolUntouched DEF PoolKept, PhaseMoves
  <2>4. QED
    BY <1>4, <2>1, <2>2, <2>3 DEF Run
<1>5. CASE AdmissionResumes(j)
  BY <1>1, <1>2, <1>5 DEF AdmissionResumes, Admitted, slotVars
<1>6. CASE GrantedCancelled(j)
  BY <1>2, <1>6 DEF GrantedCancelled
<1>7. QED
  BY <1>3, <1>4, <1>5, <1>6

\* Cancellation by the token or with the calling task, and run()'s return.
LEMMA CancellationStep ==
    ASSUME WorkInv, NEW j \in Jobs,
           CancelPending(j) \/ TaskCancelled(j) \/ Return(j)
    PROVE  WorkInv'
<1>0. /\ JobTypes /\ WaiterInv /\ CallInv(j)
      /\ \A k \in Jobs : CallInv(k)
      /\ \A i \in 1..Len(waiters) : waiters[i] \in Jobs
  BY DEF WorkInv, JobTypes
<1>1. PoolKept
  BY DEF CancelPending, TaskCancelled, Return, poolVars, PoolKept
<1>2. ASSUME NEW state, Withdraw(j, state),
             caller[j] # "admitting", state = caller[j] \/ (caller[j] = "waiting" /\ state = "joining")
      PROVE  WorkInv'
  <2>1. CASE phase[j] = "queued"
    <3>0. /\ ReleaseSlots(1) /\ caller' = [Granted(1) EXCEPT ![j] = state]
          /\ phase' = [phase EXCEPT ![j] = "settled"]
      BY <1>2, <2>1 DEF Withdraw
    <3>1. caller[j] \in {"waiting", "joining"} /\ state \in {"waiting", "joining"}
      BY <1>0, <1>2, <2>1 DEF CallInv, JobTypes, Callers
    <3>2. JobTypes' /\ WaiterInv'
      BY <1>0, <1>1, <3>0, <3>1, ReleaseWakes DEF JobTypes, WaiterInv, Callers, WorkPhases, PoolKept
    <3>3. \A k \in Jobs : CallInv(k)' /\ PhaseMoves(k)
      BY <1>0, <2>1, <3>0, <3>1, ReleaseWakes DEF JobTypes, CallInv, PhaseMoves
    <3>4. QED
      BY <1>1, <3>2, <3>3, PoolUntouched
  <2>2. CASE phase[j] # "queued"
    <3>0. /\ caller' = [caller EXCEPT ![j] = state]
          /\ phase' = phase /\ waiters' = waiters
      BY <1>2, <2>2 DEF Withdraw, slotVars
    <3>1. JobTypes' /\ WaiterInv'
      BY <1>0, <1>1, <1>2, <3>0 DEF JobTypes, WaiterInv, Callers, PoolKept
    <3>2. \A k \in Jobs : CallInv(k)' /\ PhaseMoves(k)
      BY <1>0, <1>2, <3>0 DEF JobTypes, CallInv, PhaseMoves
    <3>3. QED
      BY <1>1, <3>1, <3>2, PoolUntouched
  <2>3. QED
    BY <2>1, <2>2
<1>3. CASE CancelPending(j) /\ caller[j] = "admitting"
  <2>0. LeaveWaiters(j) /\ caller' = [caller EXCEPT ![j] = "returned"] /\ phase' = phase
    BY <1>3 DEF CancelPending
  <2>1. JobTypes' /\ WaiterInv'
    BY <1>0, <1>1, <2>0, LeaveKeeps DEF JobTypes, WaiterInv, Callers, PoolKept
  <2>2. \A k \in Jobs : CallInv(k)' /\ PhaseMoves(k)
    BY <1>0, <1>3, <2>0 DEF JobTypes, CallInv, PhaseMoves
  <2>3. QED
    BY <1>1, <2>1, <2>2, PoolUntouched
<1>4. CASE CancelPending(j) /\ caller[j] # "admitting"
  BY <1>2, <1>4 DEF CancelPending
<1>5. CASE TaskCancelled(j)
  BY <1>2, <1>5 DEF TaskCancelled
<1>6. CASE Return(j)
  <2>0. /\ caller' = [caller EXCEPT ![j] = "returned"] /\ phase' = phase /\ waiters' = waiters
        /\ phase[j] = "settled" /\ caller[j] # "admitting"
    BY <1>6 DEF Return, slotVars
  <2>1. JobTypes' /\ WaiterInv' /\ \A k \in Jobs : CallInv(k)' /\ PhaseMoves(k)
    BY <1>0, <1>1, <2>0 DEF JobTypes, WaiterInv, CallInv, PhaseMoves, Callers, PoolKept
  <2>2. QED
    BY <1>1, <2>1, PoolUntouched
<1>7. QED
  BY <1>3, <1>4, <1>5, <1>6

\* The loop of _dispatch, and settlement: an item leaves the queue for the
\* executor or is dropped, and is settled by whoever holds its claim.
LEMMA DispatchStep ==
    ASSUME WorkInv, NEW j \in Jobs,
           \/ DispatchDrops(RequestOf[j], j) \/ DispatchSubmits(RequestOf[j], j)
           \/ SubmitRaised(j) \/ Complete(j)
    PROVE  WorkInv'
<1>0. /\ JobTypes /\ WaiterInv /\ CallInv(j) /\ ClaimInv(j)
      /\ \A k \in Jobs : CallInv(k) /\ ClaimInv(k)
      /\ \A i \in 1..Len(waiters) : waiters[i] \in Jobs
  BY DEF WorkInv, JobTypes
<1>1. ASSUME ReleaseSlots(1), caller' = Granted(1), phase' = [phase EXCEPT ![j] = "settled"],
             phase[j] # "none",
             wrappers' = wrappers, running' = running, claimed' \subseteq Jobs, rejecting' \subseteq Jobs
      PROVE  JobTypes' /\ WaiterInv' /\ \A k \in Jobs : CallInv(k)'
  <2>1. JobTypes' /\ WaiterInv'
    BY <1>0, <1>1, ReleaseWakes DEF JobTypes, WaiterInv, WorkPhases
  <2>2. \A k \in Jobs : CallInv(k)'
    BY <1>0, <1>1, ReleaseWakes DEF JobTypes, CallInv
  <2>3. QED
    BY <2>1, <2>2
<1>2. CASE DispatchDrops(RequestOf[j], j)
  <2>0. /\ ReleaseSlots(1) /\ caller' = Granted(1) /\ phase' = [phase EXCEPT ![j] = "settled"]
        /\ PoolKept /\ phase[j] = "queued"
    BY <1>2 DEF DispatchDrops, Selects, Queued, PoolKept, poolVars
  <2>1. JobTypes' /\ WaiterInv' /\ \A k \in Jobs : CallInv(k)'
    BY <1>0, <1>1, <2>0 DEF PoolKept, JobTypes
  <2>2. \A k \in Jobs : PhaseMoves(k)
    BY <1>0, <2>0 DEF JobTypes, PhaseMoves
  <2>3. QED
    BY <2>0, <2>1, <2>2, PoolUntouched
<1>3. CASE DispatchSubmits(RequestOf[j], j)
  <2>0. /\ caller' = caller /\ waiters' = waiters /\ phase' = [phase EXCEPT ![j] = "submitted"]
        /\ claimed' = claimed /\ running' = running /\ loop' = loop
        /\ wrappers' = wrappers \/ wrappers' = wrappers \cup {j}
        /\ rejecting' = {} \/ rejecting' = {j}
        /\ rejecting = {} /\ loop = "dispatch" /\ phase[j] = "queued"
    BY <1>3 DEF DispatchSubmits, Selects, Queued, slotVars
  <2>1. JobTypes' /\ WaiterInv'
    BY <1>0, <2>0 DEF JobTypes, WaiterInv, WorkPhases
  <2>2. \A k \in Jobs : CallInv(k)'
    BY <1>0, <2>0 DEF JobTypes, CallInv
  <2>3. \A k \in Jobs : ClaimInv(k)'
    BY <1>0, <2>0 DEF JobTypes, ClaimInv
  <2>4. QED
    BY <2>1, <2>2, <2>3 DEF WorkInv
<1>4. CASE SubmitRaised(j) /\ j \in claimed
  <2>0. /\ caller' = caller /\ phase' = phase /\ waiters' = waiters /\ claimed' = claimed
        /\ wrappers' = wrappers /\ running' = running /\ rejecting' = {} /\ loop' = loop
    BY <1>4 DEF SubmitRaised, slotVars
  <2>1. QED
    BY <1>0, <2>0 DEF WorkInv, JobTypes, WaiterInv, CallInv, ClaimInv
<1>5. CASE SubmitRaised(j) /\ j \notin claimed
  <2>0. /\ ReleaseSlots(1) /\ caller' = Granted(1) /\ phase' = [phase EXCEPT ![j] = "settled"]
        /\ claimed' = claimed \cup {j} /\ wrappers' = wrappers /\ running' = running
        /\ rejecting' = {} /\ loop' = loop /\ j \in rejecting
    BY <1>5 DEF SubmitRaised, Settle
  <2>1. phase[j] # "none" /\ j \notin running
    BY <1>0, <1>5, <2>0 DEF ClaimInv
  <2>2. JobTypes' /\ WaiterInv' /\ \A k \in Jobs : CallInv(k)'
    BY <1>0, <1>1, <2>0, <2>1 DEF JobTypes
  <2>3. \A k \in Jobs : ClaimInv(k)'
    BY <1>0, <2>0, <2>1 DEF JobTypes, ClaimInv
  <2>4. QED
    BY <2>2, <2>3 DEF WorkInv
<1>6. CASE Complete(j)
  <2>0. /\ ReleaseSlots(1) /\ caller' = Granted(1) /\ phase' = [phase EXCEPT ![j] = "settled"]
        /\ claimed' = claimed /\ wrappers' = wrappers /\ running' = running
        /\ rejecting' = rejecting /\ loop = "ready" /\ phase[j] = "completing"
    BY <1>6 DEF Complete, Settle
  <2>1. rejecting = {}
    BY <1>0, <2>0 DEF JobTypes, ClaimInv
  <2>2. JobTypes' /\ WaiterInv' /\ \A k \in Jobs : CallInv(k)'
    BY <1>0, <1>1, <2>0, <2>1 DEF JobTypes
  <2>3. \A k \in Jobs : ClaimInv(k)'
    BY <1>0, <2>0, <2>1 DEF JobTypes, ClaimInv
  <2>4. QED
    BY <2>2, <2>3 DEF WorkInv
<1>7. QED
  BY <1>2, <1>3, <1>4, <1>5, <1>6

\* An executor thread takes a wrapper, or ends an operation it has claimed.
LEMMA WorkerStep ==
    ASSUME WorkInv, NEW j \in Jobs, WorkerTakes(j) \/ WorkerEnds(j)
    PROVE  WorkInv'
<1>0. /\ JobTypes /\ WaiterInv
      /\ \A k \in Jobs : CallInv(k) /\ ClaimInv(k)
  BY DEF WorkInv
<1>1. CASE WorkerTakes(j)
  <2>0. /\ caller' = caller /\ phase' = phase /\ waiters' = waiters /\ rejecting' = rejecting
        /\ loop' = loop /\ wrappers' = wrappers \ {j} /\ claimed' = claimed \cup {j}
        /\ running' = IF j \in claimed THEN running ELSE running \cup {j}
        /\ j \in wrappers
    BY <1>1 DEF WorkerTakes, jobVars, slotVars
  <2>1. JobTypes' /\ WaiterInv' /\ \A k \in Jobs : CallInv(k)'
    BY <1>0, <2>0 DEF JobTypes, WaiterInv, CallInv
  <2>2. \A k \in Jobs : ClaimInv(k)'
    BY <1>0, <2>0 DEF JobTypes, WorkPhases, ClaimInv
  <2>3. QED
    BY <2>1, <2>2 DEF WorkInv
<1>2. CASE WorkerEnds(j)
  <2>0. /\ caller' = caller /\ waiters' = waiters /\ phase' = [phase EXCEPT ![j] = "completing"]
        /\ wrappers' = wrappers /\ claimed' = claimed /\ rejecting' = rejecting
        /\ loop' = loop /\ running' = running \ {j} /\ j \in running
    BY <1>2 DEF WorkerEnds, slotVars
  <2>1. JobTypes' /\ WaiterInv' /\ \A k \in Jobs : CallInv(k)'
    BY <1>0, <2>0 DEF JobTypes, WaiterInv, CallInv, ClaimInv, WorkPhases
  <2>2. \A k \in Jobs : ClaimInv(k)'
    BY <1>0, <2>0 DEF JobTypes, ClaimInv
  <2>3. QED
    BY <2>1, <2>2 DEF WorkInv
<1>3. QED
  BY <1>1, <1>2

\* close(graceful=False): the queued items are settled, the others stay with
\* their workers.
LEMMA CloseAbruptStep ==
    ASSUME WorkInv, CloseAbrupt
    PROVE  WorkInv'
<1> DEFINE n == Cardinality(AllQueued)
<1>0. /\ JobTypes /\ WaiterInv
      /\ \A k \in Jobs : CallInv(k)
      /\ \A i \in 1..Len(waiters) : waiters[i] \in Jobs
  BY DEF WorkInv, JobTypes
<1>1. n \in Nat
  <2>1. AllQueued \subseteq Jobs /\ IsFiniteSet(Jobs)
    BY WorkAssumption DEF AllQueued
  <2>2. QED
    BY <2>1, FS_Subset, FS_CardinalityType
<1>2. /\ ReleaseSlots(n) /\ caller' = Granted(n) /\ PoolKept
      /\ phase' = [j \in Jobs |-> IF j \in AllQueued THEN "settled" ELSE phase[j]]
  BY DEF CloseAbrupt, PoolKept, poolVars
<1> HIDE DEF n
<1>3. JobTypes' /\ WaiterInv'
  BY <1>0, <1>1, <1>2, ReleaseWakes DEF JobTypes, WaiterInv, WorkPhases, PoolKept
<1>4. \A k \in Jobs : CallInv(k)' /\ PhaseMoves(k)
  BY <1>0, <1>1, <1>2, ReleaseWakes DEF JobTypes, CallInv, PhaseMoves, AllQueued
<1>5. QED
  BY <1>2, <1>3, <1>4, PoolUntouched

\* Every step of the broker keeps the invariant.
LEMMA WorkStep ==
    ASSUME WorkInv, [WorkNext]_workVars
    PROVE  WorkInv'
<1>1. CASE Callbacks
  BY <1>1, AdmissionStep, CancellationStep, DispatchStep DEF Callbacks
<1>2. CASE Workers
  BY <1>2, WorkerStep DEF Workers
<1>3. CASE \/ UNCHANGED workVars \/ DispatchEnds \/ CloseWaited \/ CloseGraceful
           \/ \E r \in Requests : CancelRequest(r)
           \/ \E m \in 1..ThreadCapacity : Configure(m)
  <2>0. /\ JobTypes /\ WaiterInv
        /\ \A k \in Jobs : CallInv(k) /\ ClaimInv(k)
    BY DEF WorkInv
  <2>1. /\ caller' = caller /\ phase' = phase /\ waiters' = waiters
        /\ wrappers' = wrappers /\ claimed' = claimed /\ running' = running /\ rejecting' = rejecting
    BY <1>3 DEF workVars, DispatchEnds, CloseWaited, CloseGraceful, CancelRequest, Configure,
       jobVars, slotVars, poolVars
  <2>2. loop' = loop \/ rejecting = {}
    <3>1. CASE loop = "ready"
      BY <2>0, <3>1 DEF JobTypes, ClaimInv
    <3>2. CASE loop # "ready"
      BY <1>3, <3>2 DEF workVars, DispatchEnds, CloseWaited, CloseGraceful, CancelRequest, Configure
    <3>3. QED
      BY <3>1, <3>2
  <2>3. QED
    BY <2>0, <2>1, <2>2 DEF WorkInv, JobTypes, WaiterInv, CallInv, ClaimInv
<1>4. CASE \E j \in Jobs : DispatchDrops(RequestOf[j], j) \/ DispatchSubmits(RequestOf[j], j)
                           \/ SubmitRaised(j)
  BY <1>4, DispatchStep
<1>5. CASE \E j \in Jobs : Run(j) \/ AdmissionCancelled(j) \/ GrantedCancelled(j) \/ TaskCancelled(j)
  BY <1>5, AdmissionStep, CancellationStep
<1>6. CASE CloseAbrupt
  BY <1>6, CloseAbruptStep
<1>7. QED
  BY <1>1, <1>2, <1>3, <1>4, <1>5, <1>6 DEF WorkNext, Dispatch, Outside

\* The invariant holds in every reachable state of the broker.
THEOREM WorkInvariance == WorkSpec => []WorkInv
<1>1. WorkInit => WorkInv
  BY DEF WorkInit, WorkInv, JobTypes, WaiterInv, CallInv, ClaimInv, Callers, WorkPhases
<1>2. WorkInv /\ [WorkNext]_workVars => WorkInv'
  BY WorkStep
<1>3. QED
  BY <1>1, <1>2, PTL DEF WorkSpec

\* run() never returns while a thread runs its operation or could still start
\* it: cancellation waits for the worker, and a wrapper left behind by a
\* failed submit finds its claim taken.
THEOREM JoinTheorem == WorkSpec => []JoinBeforeReturn
<1>1. WorkInv => JoinBeforeReturn
  BY DEF WorkInv, CallInv, ClaimInv, JoinBeforeReturn
<1>2. QED
  BY <1>1, WorkInvariance, PTL

\* An item that has been settled stays settled: neither the worker nor the
\* submitter settles it again, and it is never dispatched a second time.
THEOREM SettledTheorem == WorkSpec => SettledOnce
<1>1. WorkInv /\ [WorkNext]_workVars
         => [\A j \in Jobs : phase[j] = "settled" => phase'[j] = "settled"]_workVars
  <2>0. SUFFICES ASSUME WorkInv, WorkNext, NEW k \in Jobs, phase[k] = "settled"
                 PROVE  phase'[k] = "settled"
    OBVIOUS
  <2>1. /\ phase \in [Jobs -> WorkPhases] /\ caller \in [Jobs -> Callers]
        /\ \A j \in Jobs : CallInv(j) /\ ClaimInv(j)
    BY <2>0 DEF WorkInv, JobTypes
  <2>2. ASSUME NEW j \in Jobs, Enqueue(j), caller[j] \in {"new", "granted"}
        PROVE  phase'[k] = "settled"
    BY <2>0, <2>1, <2>2 DEF Enqueue, CallInv
  <2>3. CASE phase' = phase
    BY <2>0, <2>3
  <2>4. ASSUME NEW j \in Jobs, NEW state, Withdraw(j, state)
        PROVE  phase'[k] = "settled"
    BY <2>0, <2>1, <2>4 DEF Withdraw
  <2>5. CASE Callbacks
    <3>1. PICK j \in Jobs : AdmissionResumes(j) \/ CancelPending(j) \/ Return(j) \/ Complete(j)
      BY <2>5 DEF Callbacks
    <3>2. CASE AdmissionResumes(j)
      BY <2>2, <2>3, <3>2 DEF AdmissionResumes, Admitted, GiveBack
    <3>3. CASE CancelPending(j)
      BY <2>3, <2>4, <3>3 DEF CancelPending
    <3>4. CASE Return(j) \/ Complete(j)
      BY <2>0, <2>1, <3>4 DEF Return, Complete, Settle
    <3>5. QED
      BY <3>1, <3>2, <3>3, <3>4
  <2>6. CASE Dispatch
    BY <2>0, <2>1, <2>6 DEF Dispatch, DispatchEnds, DispatchDrops, DispatchSubmits, Selects, Queued,
       SubmitRaised, Settle, jobVars
  <2>7. CASE CloseWaited
    BY <2>0, <2>7 DEF CloseWaited, jobVars
  <2>8. CASE Workers
    BY <2>0, <2>1, <2>8 DEF Workers, WorkerTakes, WorkerEnds, jobVars, ClaimInv
  <2>9. CASE Outside
    <3>1. CASE \E j \in Jobs : Run(j)
      BY <2>2, <2>3, <3>1 DEF Run, Refuse
    <3>2. CASE \E j \in Jobs : AdmissionCancelled(j) \/ GrantedCancelled(j)
      BY <2>3, <3>2 DEF AdmissionCancelled, GrantedCancelled, GiveBack
    <3>3. CASE \E j \in Jobs : TaskCancelled(j)
      BY <2>4, <3>3 DEF TaskCancelled
    <3>4. CASE CloseAbrupt
      BY <2>0, <3>4 DEF CloseAbrupt
    <3>5. CASE \/ \E r \in Requests : CancelRequest(r)
               \/ \E m \in 1..ThreadCapacity : Configure(m)
               \/ CloseGraceful
      BY <2>0, <3>5 DEF CancelRequest, Configure, CloseGraceful, jobVars
    <3>6. QED
      BY <2>9, <3>1, <3>2, <3>3, <3>4, <3>5 DEF Outside
  <2>10. QED
    BY <2>0, <2>5, <2>6, <2>7, <2>8, <2>9 DEF WorkNext
<1>2. QED
  BY <1>1, WorkInvariance, PTL DEF WorkSpec, SettledOnce
=============================================================================
