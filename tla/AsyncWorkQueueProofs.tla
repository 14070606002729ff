----------------------- MODULE AsyncWorkQueueProofs -----------------------
(***************************************************************************)
(* For any number of calls, requests, threads and permits: the broker's    *)
(* counters never drift, its request order is exactly the requests with    *)
(* queued work, foreground work goes first, and a shut-down executor has   *)
(* nothing left to run.                                                    *)
(***************************************************************************)
EXTENDS AsyncWorkProofs

(***************************************************************************)
(* The inductive invariant, on top of WorkInv.                             *)
(***************************************************************************)

\* The types of what WorkInv does not speak about, but for the two counters.
BrokerTypes ==
    /\ seqno \in [Jobs -> Nat] /\ sequence \in Nat
    /\ capacity \in 1..ThreadCapacity
    /\ lane \in [Requests -> {"none", "foreground", "watch", "promoted"}]
    /\ origin \in [Requests -> Origins \cup {"none"}]
    /\ cancelled \subseteq Requests /\ posted \subseteq Jobs
    /\ loop \in {"ready", "dispatch"} /\ idle \in BOOLEAN
    /\ closed \in BOOLEAN /\ closer \in {"none", "waiting", "done"}
    /\ shutdown \in BOOLEAN

CountInv == slots \in Nat /\ SlotsConserved

OrderInv == order \in Seq(Requests) /\ OrderIsReady

\* Nothing is admitted once the executor is shut down, and between callbacks
\* the idle event is set only while nothing is queued or in flight.
DrainInv ==
    /\ closer # "none" \/ shutdown => closed
    /\ closer = "done" => shutdown
    /\ loop = "ready" /\ idle => active = 0 /\ pending = 0
    /\ ShutdownIsDrained

BrokerInv ==
    /\ WorkInv
    /\ BrokerTypes
    /\ CountInv
    /\ OrderInv
    /\ DrainInv

-----------------------------------------------------------------------------
(***************************************************************************)
(* Counting.                                                               *)
(***************************************************************************)

\* Sets of calls are finite, and one call more or less counts as one.
LEMMA Sizes ==
    ASSUME NEW S \in SUBSET Jobs
    PROVE  /\ IsFiniteSet(S) /\ Cardinality(S) \in Nat
           /\ Cardinality(S) = 0 <=> S = {}
           /\ \A j \in S : Cardinality(S \ {j}) = Cardinality(S) - 1
           /\ \A j \in Jobs \ S : Cardinality(S \cup {j}) = Cardinality(S) + 1
<1>1. IsFiniteSet(S)
  BY WorkAssumption, FS_Subset
<1>2. Cardinality(S) \in Nat
  BY <1>1, FS_CardinalityType
<1>3. Cardinality(S) = 0 <=> S = {}
  BY <1>1, FS_EmptySet
<1>4. ASSUME NEW j \in S PROVE Cardinality(S \ {j}) = Cardinality(S) - 1
  BY <1>1, FS_RemoveElement
<1>5. ASSUME NEW j \in Jobs \ S PROVE Cardinality(S \cup {j}) = Cardinality(S) + 1
  BY <1>1, FS_AddElement
<1>6. QED
  BY <1>1, <1>2, <1>3, <1>4, <1>5

\* The calls that hold a granted permit once n permits are released.
GrantedBy(n) == {j \in Jobs : Granted(n)[j] = "granted"}

\* A released permit is free or granted to a waiter, never both and never lost
\* (asyncio.Semaphore.release).
LEMMA ReleaseCounts ==
    ASSUME WorkInv, slots \in Nat, NEW n \in Nat, ReleaseSlots(n)
    PROVE  /\ slots' \in Nat
           /\ slots' + Cardinality(GrantedBy(n)) = slots + Cardinality(Holding) + n
<1> DEFINE m == Least(n, Len(waiters))
<1>0. waiters \in Seq(Jobs) /\ caller \in [Jobs -> Callers] /\ Len(waiters) \in Nat
  BY DEF WorkInv, JobTypes
<1>1. m \in 0..Len(waiters) /\ m <= n
  BY <1>0 DEF Least
<1>2. slots' = slots + n - m
  BY DEF ReleaseSlots
<1>3. Woken(n) = {waiters[i] : i \in 1..m}
  BY DEF Woken
<1> HIDE DEF m
<1>4. \A j \in Woken(n) : j \in Jobs /\ caller[j] = "admitting"
  BY <1>0, <1>1, <1>3 DEF WorkInv, WaiterInv
<1>5. GrantedBy(n) = Holding \cup Woken(n) /\ Holding \cap Woken(n) = {}
  BY <1>4 DEF GrantedBy, Granted, Holding
<1>6. Cardinality(Woken(n)) = m /\ IsFiniteSet(Woken(n))
  <2> DEFINE f == [i \in 1..m |-> waiters[i]]
  <2>1. f \in Surjection(1..m, Woken(n))
    BY <1>3 DEF Surjection
  <2>2. f \in Injection(1..m, Woken(n))
    <3>1. \A i, k \in 1..m : waiters[i] = waiters[k] => i = k
      BY <1>0, <1>1 DEF WorkInv, WaiterInv
    <3>2. f \in [1..m -> Woken(n)] /\ \A i \in 1..m : f[i] = waiters[i]
      BY <1>3
    <3> HIDE DEF f
    <3>3. QED
      BY <3>1, <3>2 DEF Injection, IsInjective
  <2>3. IsFiniteSet(1..m) /\ Cardinality(1..m) = m
    BY <1>0, <1>1, FS_Interval
  <2> HIDE DEF f
  <2>4. QED
    BY <2>1, <2>2, <2>3, FS_Surjection
<1>7. IsFiniteSet(Holding) /\ Cardinality(Holding) \in Nat
  BY Sizes DEF Holding
<1>8. Cardinality(GrantedBy(n)) = Cardinality(Holding) + m
  <2>1. Cardinality(Holding \cup Woken(n))
           = Cardinality(Holding) + Cardinality(Woken(n)) - Cardinality(Holding \cap Woken(n))
    BY <1>6, <1>7, FS_Union
  <2>2. Cardinality(Holding \cap Woken(n)) = 0
    BY <1>5, FS_EmptySet
  <2>3. m \in Nat
    BY <1>0, <1>1
  <2>4. QED
    BY <1>5, <1>6, <1>7, <2>1, <2>2, <2>3
<1>9. QED
  BY <1>0, <1>1, <1>2, <1>7, <1>8

\* The three sets of calls the counters stand for.
LEMMA CountedSets ==
    /\ Holding \in SUBSET Jobs /\ AllQueued \in SUBSET Jobs /\ InFlight \in SUBSET Jobs
    /\ \A n : GrantedBy(n) \in SUBSET Jobs
BY DEF Holding, AllQueued, InFlight, GrantedBy

\* What a change of one item's phase does to the sets.
LEMMA PhaseSets ==
    ASSUME WorkInv, NEW j \in Jobs, NEW p, phase' = [phase EXCEPT ![j] = p]
    PROVE  /\ AllQueued' = IF p = "queued" THEN AllQueued \cup {j} ELSE AllQueued \ {j}
           /\ InFlight' = IF p \in {"submitted", "completing"} THEN InFlight \cup {j}
                          ELSE InFlight \ {j}
BY DEF WorkInv, JobTypes, AllQueued, InFlight

\* A step that leaves the sets and the counters alone.
LEMMA NothingCounted ==
    ASSUME CountInv, AllQueued' = AllQueued, InFlight' = InFlight, Holding' = Holding,
           UNCHANGED <<slots, pending, active>>
    PROVE  CountInv'
BY DEF CountInv, SlotsConserved

\* run(): a permit is taken with the item, or was granted to its caller before.
LEMMA EnqueueCounts ==
    ASSUME WorkInv, CountInv, NEW j \in Jobs, Enqueue(j),
           \/ caller[j] = "new" /\ slots # 0 /\ slots' = slots - 1
           \/ caller[j] = "granted" /\ slots' = slots
    PROVE  CountInv'
<1>1. phase[j] = "none" /\ caller \in [Jobs -> Callers]
  BY DEF WorkInv, CallInv, JobTypes
<1>2. /\ phase' = [phase EXCEPT ![j] = "queued"] /\ caller' = [caller EXCEPT ![j] = "waiting"]
      /\ pending' = pending + 1 /\ active' = active
  BY DEF Enqueue, poolVars
<1>3. /\ AllQueued' = AllQueued \cup {j} /\ j \notin AllQueued
      /\ InFlight' = InFlight \ {j} /\ j \notin InFlight
  BY <1>1, <1>2, PhaseSets DEF AllQueued, InFlight
<1>4. Holding' = Holding \ {j} /\ (caller[j] = "granted" <=> j \in Holding)
  BY <1>1, <1>2 DEF Holding
<1>5. InFlight' = InFlight
  BY <1>3
<1>6. /\ Cardinality(AllQueued) \in Nat /\ Cardinality(AllQueued') = Cardinality(AllQueued) + 1
      /\ Cardinality(InFlight) \in Nat /\ Cardinality(Holding) \in Nat
  BY <1>3, CountedSets, Sizes
<1>7. CASE caller[j] = "granted"
  <2>1. slots' = slots /\ Cardinality(Holding') = Cardinality(Holding) - 1
    BY <1>4, <1>7, CountedSets, Sizes
  <2>2. QED
    BY <1>2, <1>5, <1>6, <2>1 DEF CountInv, SlotsConserved
<1>8. CASE caller[j] = "new"
  <2>1. slots # 0 /\ slots' = slots - 1 /\ Holding' = Holding
    BY <1>4, <1>8
  <2>2. QED
    BY <1>2, <1>5, <1>6, <2>1 DEF CountInv, SlotsConserved
<1>9. QED
  BY <1>7, <1>8

\* A step that settles a queued item and releases its permit.
LEMMA DequeueCounts ==
    ASSUME WorkInv, CountInv, NEW j \in Jobs, phase[j] = "queued",
           phase' = [phase EXCEPT ![j] = "settled"], ReleaseSlots(1),
           pending' = pending - 1, active' = active, Holding' = GrantedBy(1)
    PROVE  CountInv'
<1>1. /\ AllQueued' = AllQueued \ {j} /\ j \in AllQueued
      /\ InFlight' = InFlight \ {j} /\ j \notin InFlight
  <2>1. j \in AllQueued /\ j \notin InFlight
    BY DEF AllQueued, InFlight
  <2>2. AllQueued' = AllQueued \ {j} /\ InFlight' = InFlight \ {j}
    BY DEF WorkInv, JobTypes, AllQueued, InFlight
  <2>3. QED
    BY <2>1, <2>2
<1>2. InFlight' = InFlight
  BY <1>1
<1>3. slots' \in Nat /\ slots' + Cardinality(GrantedBy(1)) = slots + Cardinality(Holding) + 1
  BY ReleaseCounts DEF CountInv
<1>4. /\ Cardinality(AllQueued) \in Nat /\ Cardinality(AllQueued') = Cardinality(AllQueued) - 1
      /\ Cardinality(InFlight) \in Nat /\ Cardinality(Holding) \in Nat
      /\ Cardinality(GrantedBy(1)) \in Nat
  BY <1>1, CountedSets, Sizes
<1>5. QED
  BY <1>2, <1>3, <1>4 DEF CountInv, SlotsConserved

\* _settle releases the permit of an item in flight.
LEMMA SettleCounts ==
    ASSUME WorkInv, CountInv, NEW j \in Jobs, j \in InFlight, Settle(j), pending' = pending
    PROVE  CountInv'
<1>1. /\ phase' = [phase EXCEPT ![j] = "settled"] /\ ReleaseSlots(1)
      /\ active' = active - 1 /\ caller' = Granted(1)
  BY DEF Settle
<1>2. /\ AllQueued' = AllQueued \ {j} /\ j \notin AllQueued /\ InFlight' = InFlight \ {j}
  BY <1>1, PhaseSets DEF AllQueued, InFlight
<1>3. AllQueued' = AllQueued /\ Holding' = GrantedBy(1)
  BY <1>1, <1>2 DEF Holding, GrantedBy
<1>4. slots' \in Nat /\ slots' + Cardinality(GrantedBy(1)) = slots + Cardinality(Holding) + 1
  BY <1>1, ReleaseCounts DEF CountInv
<1>5. /\ Cardinality(InFlight) \in Nat /\ Cardinality(InFlight') = Cardinality(InFlight) - 1
      /\ Cardinality(AllQueued) \in Nat /\ Cardinality(Holding) \in Nat
      /\ Cardinality(GrantedBy(1)) \in Nat
  BY <1>2, CountedSets, Sizes
<1>6. QED
  BY <1>1, <1>3, <1>4, <1>5 DEF CountInv, SlotsConserved

\* _cancel_pending, for either of its callers.
LEMMA WithdrawCounts ==
    ASSUME WorkInv, CountInv, NEW j \in Jobs, NEW state, Withdraw(j, state), UNCHANGED active,
           state = caller[j] \/ (state = "joining" /\ caller[j] = "waiting")
    PROVE  CountInv'
<1>0. caller \in [Jobs -> Callers] /\ CallInv(j)
  BY DEF WorkInv, JobTypes
<1>1. CASE phase[j] = "queued"
  <2>1. /\ phase' = [phase EXCEPT ![j] = "settled"] /\ ReleaseSlots(1)
        /\ pending' = pending - 1 /\ caller' = [Granted(1) EXCEPT ![j] = state]
    BY <1>1 DEF Withdraw
  <2>2. caller[j] \in {"waiting", "joining"} /\ state \in {"waiting", "joining"}
    BY <1>0, <1>1 DEF CallInv, Callers
  <2>3. Granted(1) \in [Jobs -> Callers] /\ Granted(1)[j] = caller[j]
    BY <2>1, <2>2, ReleaseWakes
  <2>4. Holding' = GrantedBy(1)
    BY <2>1, <2>2, <2>3 DEF Holding, GrantedBy
  <2>5. QED
    BY <1>1, <2>1, <2>4, DequeueCounts
<1>2. CASE phase[j] # "queued"
  <2>1. UNCHANGED <<phase, slots, pending>> /\ caller' = [caller EXCEPT ![j] = state]
    BY <1>2 DEF Withdraw, slotVars, queueVars
  <2>2. Holding' = Holding
    BY <1>0, <2>1 DEF Holding
  <2>3. QED
    BY <2>1, <2>2, NothingCounted DEF AllQueued, InFlight
<1>3. QED
  BY <1>1, <1>2

\* A permit given back by a caller that held it.
LEMMA GiveBackCounts ==
    ASSUME WorkInv, CountInv, NEW j \in Jobs, caller[j] = "granted", GiveBack(j)
    PROVE  CountInv'
<1>1. /\ ReleaseSlots(1) /\ caller' = [Granted(1) EXCEPT ![j] = "returned"]
      /\ UNCHANGED <<phase, pending, active>>
  BY DEF GiveBack, queueVars, poolVars
<1>2. Granted(1) \in [Jobs -> Callers] /\ Granted(1)[j] = "granted"
  BY <1>1, ReleaseWakes
<1>3. Holding' = GrantedBy(1) \ {j} /\ j \in GrantedBy(1)
  BY <1>1, <1>2 DEF Holding, GrantedBy
<1>4. slots' \in Nat /\ slots' + Cardinality(GrantedBy(1)) = slots + Cardinality(Holding) + 1
  BY <1>1, ReleaseCounts DEF CountInv
<1>5. /\ Cardinality(Holding') = Cardinality(GrantedBy(1)) - 1
      /\ Cardinality(InFlight) \in Nat /\ Cardinality(AllQueued) \in Nat
      /\ Cardinality(Holding) \in Nat /\ Cardinality(GrantedBy(1)) \in Nat
  BY <1>3, CountedSets, Sizes
<1>6. AllQueued' = AllQueued /\ InFlight' = InFlight
  BY <1>1 DEF AllQueued, InFlight
<1>7. QED
  BY <1>1, <1>4, <1>5, <1>6 DEF CountInv, SlotsConserved

LEMMA CountStep ==
    ASSUME WorkInv, CountInv, [WorkNext]_workVars
    PROVE  CountInv'
<1>0. caller \in [Jobs -> Callers] /\ phase \in [Jobs -> WorkPhases]
      /\ \A k \in Jobs : CallInv(k) /\ ClaimInv(k)
  BY DEF WorkInv, JobTypes
<1>1. CASE UNCHANGED <<caller, phase, slots, pending, active>>
  BY <1>1, NothingCounted DEF AllQueued, InFlight, Holding
<1>2. ASSUME NEW j \in Jobs, Run(j) PROVE CountInv'
  <2>1. CASE Refuse(j)
    <3>1. /\ caller' = [caller EXCEPT ![j] = "returned"] /\ caller[j] = "new"
          /\ UNCHANGED <<phase, slots, pending, active>>
      BY <1>2, <2>1 DEF Run, Refuse, slotVars, queueVars, poolVars
    <3>2. Holding' = Holding
      BY <1>0, <3>1 DEF Holding
    <3>3. QED
      BY <3>1, <3>2, NothingCounted DEF AllQueued, InFlight
  <2>2. CASE ~SlotsLocked /\ slots' = slots - 1 /\ Enqueue(j)
    BY <1>2, <2>2, EnqueueCounts DEF Run, SlotsLocked
  <2>3. CASE /\ caller' = [caller EXCEPT ![j] = "admitting"]
             /\ UNCHANGED <<phase, slots, queueVars, poolVars>>
    <3>1. caller[j] = "new" /\ UNCHANGED <<phase, slots, pending, active>>
      BY <1>2, <2>3 DEF Run, queueVars, poolVars
    <3>2. Holding' = Holding
      BY <1>0, <2>3, <3>1 DEF Holding
    <3>3. QED
      BY <3>1, <3>2, NothingCounted DEF AllQueued, InFlight
  <2>4. QED
    BY <1>2, <2>1, <2>2, <2>3 DEF Run
<1>3. ASSUME NEW j \in Jobs, AdmissionResumes(j) \/ GrantedCancelled(j) PROVE CountInv'
  <2>1. caller[j] = "granted" /\ (GiveBack(j) \/ (Enqueue(j) /\ slots' = slots))
    BY <1>3 DEF AdmissionResumes, GrantedCancelled, Admitted, slotVars
  <2>2. QED
    BY <2>1, GiveBackCounts, EnqueueCounts
<1>4. ASSUME NEW j \in Jobs, AdmissionCancelled(j) \/ Return(j) PROVE CountInv'
  <2>1. /\ caller' = [caller EXCEPT ![j] = "returned"] /\ caller[j] # "granted"
        /\ UNCHANGED <<phase, slots, pending, active>>
    BY <1>4 DEF AdmissionCancelled, Return, slotVars, queueVars, poolVars
  <2>2. Holding' = Holding
    BY <1>0, <2>1 DEF Holding
  <2>3. QED
    BY <2>1, <2>2, NothingCounted DEF AllQueued, InFlight
<1>5. ASSUME NEW j \in Jobs, CancelPending(j) PROVE CountInv'
  <2>1. CASE caller[j] = "admitting"
    <3>1. /\ caller' = [caller EXCEPT ![j] = "returned"]
          /\ UNCHANGED <<phase, slots, pending, active>>
      BY <1>5, <2>1 DEF CancelPending, queueVars, poolVars
    <3>2. Holding' = Holding
      BY <1>0, <2>1, <3>1 DEF Holding
    <3>3. QED
      BY <3>1, <3>2, NothingCounted DEF AllQueued, InFlight
  <2>2. CASE caller[j] # "admitting"
    <3>1. Withdraw(j, caller[j]) /\ UNCHANGED active
      BY <1>5, <2>2 DEF CancelPending, poolVars
    <3>2. QED
      BY <3>1, WithdrawCounts
  <2>3. QED
    BY <2>1, <2>2
<1>6. ASSUME NEW j \in Jobs, TaskCancelled(j) PROVE CountInv'
  <2>1. Withdraw(j, "joining") /\ UNCHANGED active /\ caller[j] = "waiting"
    BY <1>6 DEF TaskCancelled, poolVars
  <2>2. QED
    BY <2>1, WithdrawCounts
<1>7. ASSUME NEW j \in Jobs, DispatchDrops(RequestOf[j], j) PROVE CountInv'
  <2>1. /\ phase[j] = "queued" /\ phase' = [phase EXCEPT ![j] = "settled"] /\ ReleaseSlots(1)
        /\ pending' = pending - 1 /\ active' = active /\ caller' = Granted(1)
    BY <1>7 DEF DispatchDrops, Selects, Queued, TakeItem, poolVars
  <2>2. Holding' = GrantedBy(1)
    BY <2>1 DEF Holding, GrantedBy
  <2>3. QED
    BY <2>1, <2>2, DequeueCounts
<1>8. ASSUME NEW j \in Jobs, DispatchSubmits(RequestOf[j], j) PROVE CountInv'
  <2>1. /\ phase[j] = "queued" /\ phase' = [phase EXCEPT ![j] = "submitted"]
        /\ pending' = pending - 1 /\ active' = active + 1 /\ UNCHANGED <<caller, slots>>
    BY <1>8 DEF DispatchSubmits, Selects, Queued, TakeItem, slotVars
  <2>2. j \in AllQueued /\ j \notin InFlight /\ Holding' = Holding
    BY <2>1 DEF AllQueued, InFlight, Holding
  <2>3. AllQueued' = AllQueued \ {j} /\ InFlight' = InFlight \cup {j}
    BY <1>0, <2>1 DEF AllQueued, InFlight
  <2>4. /\ Cardinality(AllQueued) \in Nat /\ Cardinality(AllQueued') = Cardinality(AllQueued) - 1
        /\ Cardinality(InFlight) \in Nat /\ Cardinality(InFlight') = Cardinality(InFlight) + 1
        /\ Cardinality(Holding) \in Nat
    BY <2>2, <2>3, CountedSets, Sizes
  <2>5. QED
    BY <2>1, <2>2, <2>4 DEF CountInv, SlotsConserved
<1>9. ASSUME NEW j \in Jobs, SubmitRaised(j) \/ Complete(j) PROVE CountInv'
  <2>1. \/ UNCHANGED <<caller, phase, slots, pending, active>>
        \/ Settle(j) /\ j \in InFlight /\ pending' = pending
    BY <1>0, <1>9 DEF SubmitRaised, Complete, ClaimInv, InFlight, WorkPhases, slotVars, queueVars
  <2>2. QED
    BY <1>1, <2>1, SettleCounts
<1>10. ASSUME NEW j \in Jobs, WorkerTakes(j) \/ WorkerEnds(j) PROVE CountInv'
  <2>1. UNCHANGED <<caller, slots, pending, active>>
    BY <1>10 DEF WorkerTakes, WorkerEnds, jobVars, slotVars, queueVars
  <2>2. AllQueued' = AllQueued /\ InFlight' = InFlight /\ Holding' = Holding
    BY <1>0, <1>10, <2>1 DEF WorkerTakes, WorkerEnds, jobVars, ClaimInv, AllQueued, InFlight, Holding
  <2>3. QED
    BY <2>1, <2>2, NothingCounted
<1>11. CASE CloseAbrupt
  <2> DEFINE n == Cardinality(AllQueued)
  <2>1. /\ phase' = [k \in Jobs |-> IF k \in AllQueued THEN "settled" ELSE phase[k]]
        /\ ReleaseSlots(n) /\ caller' = Granted(n) /\ pending' = 0 /\ active' = active
    BY <1>11 DEF CloseAbrupt, poolVars
  <2>2. AllQueued' = {} /\ InFlight' = InFlight /\ Holding' = GrantedBy(n)
    BY <1>0, <2>1 DEF AllQueued, InFlight, Holding, GrantedBy
  <2>3. /\ n \in Nat /\ Cardinality(AllQueued') = 0 /\ Cardinality(InFlight) \in Nat
        /\ Cardinality(Holding) \in Nat /\ Cardinality(GrantedBy(n)) \in Nat
    BY <2>2, CountedSets, Sizes, FS_EmptySet
  <2>4. slots' \in Nat /\ slots' + Cardinality(GrantedBy(n)) = slots + Cardinality(Holding) + n
    BY <2>1, <2>3, ReleaseCounts DEF CountInv
  <2>5. QED
    BY <2>1, <2>2, <2>3, <2>4 DEF CountInv, SlotsConserved
<1>12. CASE \/ UNCHANGED workVars \/ DispatchEnds \/ CloseWaited \/ CloseGraceful
            \/ \E r \in Requests : CancelRequest(r)
            \/ \E m \in 1..ThreadCapacity : Configure(m)
  BY <1>1, <1>12 DEF workVars, DispatchEnds, CloseWaited, CloseGraceful, CancelRequest, Configure,
     jobVars, slotVars, queueVars, poolVars
<1>13. QED
  BY <1>2, <1>3, <1>4, <1>5, <1>6, <1>7, <1>8, <1>9, <1>10, <1>11, <1>12
     DEF WorkNext, Callbacks, Dispatch, Workers, Outside

-----------------------------------------------------------------------------
(***************************************************************************)
(* The request order.                                                      *)
(***************************************************************************)

\* A request has a place in the order s.
Placed(s, r) == \E i \in 1..Len(s) : s[i] = r

Distinct(s) == \A i, k \in 1..Len(s) : s[i] = s[k] => i = k

\* _RequestOrder without one of its requests (popleft and discard).
LEMMA WithoutFacts ==
    ASSUME order \in Seq(Requests), Distinct(order), NEW r \in Requests
    PROVE  /\ Without(r) \in Seq(Requests) /\ Distinct(Without(r))
           /\ \A x \in Requests : Placed(Without(r), x) <=> x # r /\ Placed(order, x)
<1>0. Len(order) \in Nat /\ DOMAIN order = 1..Len(order)
  OBVIOUS
<1>1. CASE ~Placed(order, r)
  <2>1. Without(r) = order
    BY <1>0, <1>1 DEF Without, Placed
  <2>2. QED
    BY <1>1, <2>1
<1>2. CASE Placed(order, r)
  <2>1. PICK p \in 1..Len(order) : order[p] = r /\ Without(r) = DropAt(order, p)
    BY <1>0, <1>2 DEF Without, Placed
  <2> DEFINE s == Without(r)
             at(i) == IF i < p THEN i ELSE i + 1
  <2>2. /\ s \in Seq(Requests) /\ Len(s) = Len(order) - 1
        /\ \A i \in 1..(Len(order) - 1) : s[i] = order[at(i)]
    BY <2>1, DropAtFacts
  <2> HIDE DEF s
  <2>3. Distinct(s)
    <3>1. SUFFICES ASSUME NEW i \in 1..Len(s), NEW k \in 1..Len(s), s[i] = s[k] PROVE i = k
      BY DEF Distinct
    <3>2. at(i) \in 1..Len(order) /\ at(k) \in 1..Len(order) /\ order[at(i)] = order[at(k)]
      BY <1>0, <2>2, <3>1
    <3>3. at(i) = at(k)
      BY <3>2 DEF Distinct
    <3>4. QED
      BY <1>0, <2>2, <3>3
  <2>4. ASSUME NEW x \in Requests, Placed(s, x) PROVE x # r /\ Placed(order, x)
    <3>1. PICK i \in 1..Len(s) : s[i] = x
      BY <2>4 DEF Placed
    <3>2. at(i) \in 1..Len(order) /\ at(i) # p /\ order[at(i)] = x
      BY <1>0, <2>2, <3>1
    <3> HIDE DEF at
    <3>3. QED
      BY <2>1, <3>2 DEF Placed, Distinct
  <2>5. ASSUME NEW x \in Requests, x # r, Placed(order, x) PROVE Placed(s, x)
    <3>1. PICK k \in 1..Len(order) : order[k] = x
      BY <2>5 DEF Placed
    <3>2. k # p
      BY <2>1, <2>5, <3>1
    <3>3. CASE k < p
      <4>1. k \in 1..Len(s) /\ s[k] = order[k]
        BY <1>0, <2>2, <3>3
      <4>2. QED
        BY <3>1, <4>1 DEF Placed
    <3>4. CASE k > p
      <4>1. k - 1 \in 1..Len(s) /\ at(k - 1) = k
        BY <1>0, <2>2, <3>4
      <4>2. s[k - 1] = x
        BY <2>2, <3>1, <4>1
      <4>3. QED
        BY <4>1, <4>2 DEF Placed
    <3>5. QED
      BY <3>2, <3>3, <3>4
  <2>6. QED
    BY <2>2, <2>3, <2>4, <2>5 DEF s
<1>3. QED
  BY <1>1, <1>2

\* A request that is not in the order goes to its end.
LEMMA AppendedFacts ==
    ASSUME NEW s \in Seq(Requests), Distinct(s), NEW r \in Requests, ~Placed(s, r)
    PROVE  /\ Append(s, r) \in Seq(Requests) /\ Distinct(Append(s, r))
           /\ \A x \in Requests : Placed(Append(s, r), x) <=> x = r \/ Placed(s, x)
<1>1. /\ Append(s, r) \in Seq(Requests) /\ Len(s) \in Nat /\ Len(Append(s, r)) = Len(s) + 1
      /\ \A i \in 1..Len(s) : Append(s, r)[i] = s[i]
      /\ Append(s, r)[Len(s) + 1] = r
  OBVIOUS
<1>2. Distinct(Append(s, r))
  BY <1>1 DEF Distinct, Placed
<1>3. \A x \in Requests : Placed(Append(s, r), x) <=> x = r \/ Placed(s, x)
  BY <1>1 DEF Placed
<1>4. QED
  BY <1>1, <1>2, <1>3

\* OrderInv in these terms.
Ready(r) ==
    /\ (Queued(r) # {}) <=> Placed(order, r)
    /\ (Queued(r) # {}) <=> (lane[r] # "none")
    /\ origin[r] = IF lane[r] = "promoted" THEN "foreground" ELSE lane[r]

OrderFacts == order \in Seq(Requests) /\ Distinct(order) /\ \A r \in Requests : Ready(r)

LEMMA OrderRestated == OrderInv <=> OrderFacts
<1>1. ASSUME order \in Seq(Requests) PROVE OrderIsReady <=> Distinct(order) /\ \A r \in Requests : Ready(r)
  <2>1. DOMAIN order = 1..Len(order)
    BY <1>1
  <2>2. QED
    BY <2>1 DEF OrderIsReady, Distinct, Ready, Placed
<1>2. QED
  BY <1>1 DEF OrderInv, OrderFacts

LEMMA OrderRestatedNext == OrderInv' <=> OrderFacts'
<1>1. ASSUME order' \in Seq(Requests) PROVE OrderIsReady' <=> (Distinct(order) /\ \A r \in Requests : Ready(r))'
  <2>1. DOMAIN order' = 1..Len(order')
    BY <1>1
  <2>2. QED
    BY <2>1 DEF OrderIsReady, Distinct, Ready, Placed
<1>2. QED
  BY <1>1 DEF OrderInv, OrderFacts

\* The queues of the requests after a step that moves one item.
LEMMA QueuedSets ==
    ASSUME WorkInv, NEW j \in Jobs, NEW p, phase' = [phase EXCEPT ![j] = p]
    PROVE  /\ \A x \in Requests \ {RequestOf[j]} : Queued(x)' = Queued(x)
           /\ Queued(RequestOf[j])' = IF p = "queued" THEN Queued(RequestOf[j]) \cup {j}
                                      ELSE Queued(RequestOf[j]) \ {j}
BY DEF WorkInv, JobTypes, Queued

\* Only the request of the item that moves is concerned.
LEMMA OrderKept ==
    ASSUME OrderInv, UNCHANGED <<order, lane, origin>>,
           \A x \in Requests : (Queued(x) = {}) <=> (Queued(x)' = {})
    PROVE  OrderInv'
BY OrderRestated, OrderRestatedNext DEF OrderFacts, Ready

LEMMA OrderUntouched ==
    ASSUME OrderInv, UNCHANGED <<order, lane, origin, phase>>
    PROVE  OrderInv'
BY OrderKept DEF Queued

\* run(): the first item of a request puts it at the end of the order, and a
\* foreground item promotes a watch request where it stands.
LEMMA EnqueueOrder ==
    ASSUME WorkInv, BrokerTypes, OrderInv, NEW j \in Jobs, phase[j] = "none", Enqueue(j)
    PROVE  OrderInv'
<1> DEFINE r == RequestOf[j]
           fresh == Queued(r) = {}
           promote == ~fresh /\ OriginOf[j] = "foreground" /\ origin[r] = "watch"
<1>0. /\ r \in Requests /\ OriginOf[j] \in Origins /\ OrderFacts
      /\ lane \in [Requests -> {"none", "foreground", "watch", "promoted"}]
      /\ origin \in [Requests -> Origins \cup {"none"}]
  BY WorkAssumption, OrderRestated DEF BrokerTypes
<1>1. /\ phase' = [phase EXCEPT ![j] = "queued"]
      /\ order' = IF fresh THEN Append(order, r) ELSE order
      /\ lane' = [lane EXCEPT ![r] = IF fresh THEN OriginOf[j]
                                     ELSE IF promote THEN "promoted" ELSE lane[r]]
      /\ origin' = [origin EXCEPT ![r] = IF fresh \/ promote THEN OriginOf[j] ELSE origin[r]]
  BY DEF Enqueue, PromotedLane
<1>2. /\ \A x \in Requests \ {r} : Queued(x)' = Queued(x)
      /\ Queued(r)' = Queued(r) \cup {j}
  BY <1>1, QueuedSets
<1> HIDE DEF r
<1>3. order' \in Seq(Requests) /\ Distinct(order')
      /\ \A x \in Requests : Placed(order', x) <=> x = r \/ Placed(order, x)
  <2>1. CASE fresh
    BY <1>0, <1>1, <2>1, AppendedFacts DEF OrderFacts, Ready
  <2>2. CASE ~fresh
    BY <1>0, <1>1, <2>2 DEF OrderFacts, Ready
  <2>3. QED
    BY <2>1, <2>2
<1>4. \A x \in Requests \ {r} : Ready(x)'
  BY <1>0, <1>1, <1>2, <1>3 DEF OrderFacts, Ready
<1>5. Ready(r)'
  BY <1>0, <1>1, <1>2, <1>3 DEF OrderFacts, Ready, Origins
<1>6. QED
  BY <1>0, <1>3, <1>4, <1>5, OrderRestatedNext DEF OrderFacts

\* An item leaves its queue: the last one takes the request out of the order,
\* otherwise the request keeps its place or goes to the end.
LEMMA DequeueOrder ==
    ASSUME WorkInv, BrokerTypes, OrderInv, NEW j \in Jobs, phase[j] = "queued",
           NEW p, p # "queued", phase' = [phase EXCEPT ![j] = p],
           NEW r, r = RequestOf[j],
           \/ /\ Queued(r) = {j} /\ order' = Without(r)
              /\ lane' = [lane EXCEPT ![r] = "none"] /\ origin' = [origin EXCEPT ![r] = "none"]
           \/ Queued(r) # {j} /\ UNCHANGED <<order, lane, origin>>
           \/ /\ Queued(r) # {j} /\ order' = Append(Without(r), r)
              /\ lane' = [lane EXCEPT ![r] = origin[r]] /\ UNCHANGED origin
    PROVE  OrderInv'
<1>0. /\ r \in Requests /\ OrderFacts /\ j \in Queued(r)
      /\ lane \in [Requests -> {"none", "foreground", "watch", "promoted"}]
      /\ origin \in [Requests -> Origins \cup {"none"}]
  BY WorkAssumption, OrderRestated DEF BrokerTypes, Queued
<1>1. /\ \A x \in Requests \ {r} : Queued(x)' = Queued(x)
      /\ Queued(r)' = Queued(r) \ {j}
  BY QueuedSets
<1>2. /\ Without(r) \in Seq(Requests) /\ Distinct(Without(r))
      /\ \A x \in Requests : Placed(Without(r), x) <=> x # r /\ Placed(order, x)
  BY <1>0, WithoutFacts DEF OrderFacts
<1>3. CASE /\ Queued(r) = {j} /\ order' = Without(r)
           /\ lane' = [lane EXCEPT ![r] = "none"] /\ origin' = [origin EXCEPT ![r] = "none"]
  <2>1. \A x \in Requests : Ready(x)'
    BY <1>0, <1>1, <1>2, <1>3 DEF OrderFacts, Ready
  <2>2. QED
    BY <1>2, <1>3, <2>1, OrderRestatedNext DEF OrderFacts
<1>4. CASE Queued(r) # {j} /\ UNCHANGED <<order, lane, origin>>
  BY <1>0, <1>1, <1>4, OrderKept
<1>5. CASE /\ Queued(r) # {j} /\ order' = Append(Without(r), r)
           /\ lane' = [lane EXCEPT ![r] = origin[r]] /\ UNCHANGED origin
  <2>1. ~Placed(Without(r), r)
    BY <1>0, <1>2
  <2>2. order' \in Seq(Requests) /\ Distinct(order')
        /\ \A x \in Requests : Placed(order', x) <=> x = r \/ Placed(order, x)
    <3>1. /\ Append(Without(r), r) \in Seq(Requests) /\ Distinct(Append(Without(r), r))
          /\ \A x \in Requests : Placed(Append(Without(r), r), x) <=> x = r \/ Placed(Without(r), x)
      BY <1>0, <1>2, <2>1, AppendedFacts
    <3>2. QED
      BY <1>2, <1>5, <3>1
  <2>3. Queued(r) # {} /\ Queued(r)' # {}
    BY <1>0, <1>1, <1>5
  <2>4. \A x \in Requests \ {r} : Ready(x)'
    BY <1>0, <1>1, <1>5, <2>2 DEF OrderFacts, Ready
  <2>5. Ready(r)'
    BY <1>0, <1>5, <2>2, <2>3 DEF OrderFacts, Ready
  <2>6. QED
    BY <1>0, <2>2, <2>4, <2>5, OrderRestatedNext DEF OrderFacts
<1>6. QED
  BY <1>3, <1>4, <1>5

\* _cancel_pending and its effect on the order.
LEMMA WithdrawOrder ==
    ASSUME WorkInv, BrokerTypes, OrderInv, NEW j \in Jobs, NEW state, Withdraw(j, state)
    PROVE  OrderInv'
<1>1. CASE phase[j] # "queued"
  BY <1>1, OrderUntouched DEF Withdraw, queueVars
<1>2. CASE phase[j] = "queued"
  <2> DEFINE r == RequestOf[j]
  <2>0. /\ r \in Requests
        /\ lane \in [Requests -> {"none", "foreground", "watch", "promoted"}]
        /\ origin \in [Requests -> Origins \cup {"none"}]
    BY WorkAssumption DEF BrokerTypes
  <2>1. /\ phase' = [phase EXCEPT ![j] = "settled"]
        /\ order' = IF Queued(r) = {j} THEN Without(r) ELSE order
        /\ lane' = [lane EXCEPT ![r] = IF Queued(r) = {j} THEN "none" ELSE lane[r]]
        /\ origin' = [origin EXCEPT ![r] = IF Queued(r) = {j} THEN "none" ELSE origin[r]]
    BY <1>2 DEF Withdraw, Discarded
  <2>2. Queued(r) # {j} => UNCHANGED <<order, lane, origin>>
    BY <2>0, <2>1
  <2>3. QED
    BY <1>2, <2>1, <2>2, DequeueOrder
<1>3. QED
  BY <1>1, <1>2

\* _dispatch and its effect on the order.
LEMMA TakeOrder ==
    ASSUME WorkInv, BrokerTypes, OrderInv, NEW j \in Jobs, phase[j] = "queued",
           NEW p, p # "queued", phase' = [phase EXCEPT ![j] = p], TakeItem(RequestOf[j], j)
    PROVE  OrderInv'
<1> DEFINE r == RequestOf[j]
<1>0. r \in Requests /\ origin \in [Requests -> Origins \cup {"none"}]
  BY WorkAssumption DEF BrokerTypes
<1>1. /\ order' = IF Queued(r) # {j} THEN Append(Without(r), r) ELSE Without(r)
      /\ lane' = [lane EXCEPT ![r] = IF Queued(r) # {j} THEN origin[r] ELSE "none"]
      /\ origin' = [origin EXCEPT ![r] = IF Queued(r) # {j} THEN origin[r] ELSE "none"]
  BY DEF TakeItem
<1>2. Queued(r) # {j} => UNCHANGED origin
  BY <1>0, <1>1
<1>3. QED
  BY <1>1, <1>2, DequeueOrder

LEMMA OrderStep ==
    ASSUME WorkInv, BrokerTypes, OrderInv, [WorkNext]_workVars
    PROVE  OrderInv'
<1>0. \A k \in Jobs : CallInv(k) /\ ClaimInv(k)
  BY DEF WorkInv
<1>1. ASSUME NEW j \in Jobs, Run(j) PROVE OrderInv'
  <2>1. CASE Enqueue(j)
    BY <1>0, <1>1, <2>1, EnqueueOrder DEF Run, CallInv
  <2>2. CASE ~Enqueue(j)
    BY <1>1, <2>2, OrderUntouched DEF Run, Refuse, queueVars
  <2>3. QED
    BY <2>1, <2>2
<1>2. ASSUME NEW j \in Jobs, AdmissionResumes(j) \/ GrantedCancelled(j) PROVE OrderInv'
  <2>1. caller[j] = "granted" /\ (GiveBack(j) \/ Enqueue(j))
    BY <1>2 DEF AdmissionResumes, GrantedCancelled, Admitted
  <2>2. CASE Enqueue(j)
    BY <1>0, <2>1, <2>2, EnqueueOrder DEF CallInv
  <2>3. CASE GiveBack(j)
    BY <2>3, OrderUntouched DEF GiveBack, queueVars
  <2>4. QED
    BY <2>1, <2>2, <2>3
<1>3. ASSUME NEW j \in Jobs, CancelPending(j) \/ TaskCancelled(j) PROVE OrderInv'
  <2>1. \/ UNCHANGED <<phase, queueVars>>
        \/ Withdraw(j, caller[j]) \/ Withdraw(j, "joining")
    BY <1>3 DEF CancelPending, TaskCancelled
  <2>2. QED
    BY <2>1, WithdrawOrder, OrderUntouched DEF queueVars
<1>4. ASSUME NEW j \in Jobs, DispatchDrops(RequestOf[j], j) \/ DispatchSubmits(RequestOf[j], j)
      PROVE  OrderInv'
  <2>1. PICK p \in {"settled", "submitted"} : phase' = [phase EXCEPT ![j] = p]
    BY <1>4 DEF DispatchDrops, DispatchSubmits
  <2>2. phase[j] = "queued" /\ TakeItem(RequestOf[j], j) /\ p # "queued"
    BY <1>4, <2>1 DEF DispatchDrops, DispatchSubmits, Selects, Queued
  <2>3. QED
    BY <2>1, <2>2, TakeOrder
<1>5. ASSUME NEW j \in Jobs, \/ SubmitRaised(j) \/ Complete(j) \/ WorkerEnds(j)
      PROVE  OrderInv'
  <2>1. UNCHANGED <<order, lane, origin>>
    BY <1>5 DEF SubmitRaised, Complete, WorkerEnds, queueVars
  <2>2. /\ phase[j] # "queued"
        /\ phase' = phase \/ \E p \in {"settled", "completing"} : phase' = [phase EXCEPT ![j] = p]
    BY <1>0, <1>5 DEF SubmitRaised, Complete, WorkerEnds, Settle, ClaimInv
  <2>3. \A x \in Requests : Queued(x)' = Queued(x)
    BY <2>2 DEF WorkInv, JobTypes, Queued
  <2>4. QED
    BY <2>1, <2>3, OrderKept
<1>6. CASE CloseAbrupt
  <2>1. /\ order' = <<>> /\ lane' = [r \in Requests |-> "none"]
        /\ origin' = [r \in Requests |-> "none"]
        /\ phase' = [k \in Jobs |-> IF k \in AllQueued THEN "settled" ELSE phase[k]]
    BY <1>6 DEF CloseAbrupt
  <2>2. \A x \in Requests : Queued(x)' = {}
    BY <2>1 DEF Queued, AllQueued
  <2>3. order' \in Seq(Requests) /\ Distinct(order') /\ \A x \in Requests : ~Placed(order', x)
    BY <2>1 DEF Distinct, Placed
  <2>4. QED
    BY <2>1, <2>2, <2>3, OrderRestatedNext DEF OrderFacts, Ready
<1>7. CASE \/ UNCHANGED workVars \/ DispatchEnds \/ CloseWaited \/ CloseGraceful
           \/ \E r \in Requests : CancelRequest(r)
           \/ \E m \in 1..ThreadCapacity : Configure(m)
           \/ \E j \in Jobs : AdmissionCancelled(j) \/ Return(j) \/ WorkerTakes(j)
  BY <1>7, OrderUntouched DEF workVars, DispatchEnds, CloseWaited, CloseGraceful, CancelRequest,
     Configure, AdmissionCancelled, Return, WorkerTakes, jobVars, queueVars
<1>8. QED
  BY <1>1, <1>2, <1>3, <1>4, <1>5, <1>6, <1>7 DEF WorkNext, Callbacks, Dispatch, Workers, Outside

-----------------------------------------------------------------------------
(***************************************************************************)
(* Types and the end of the executor.                                      *)
(***************************************************************************)

LEMMA TypesStep ==
    ASSUME WorkInv, BrokerTypes, [WorkNext]_workVars
    PROVE  BrokerTypes'
<1>0. /\ \A j \in Jobs : RequestOf[j] \in Requests /\ OriginOf[j] \in {"foreground", "watch"}
      /\ Origins = {"foreground", "watch"} /\ ThreadCapacity \in Nat
      /\ BrokerTypes
  BY WorkAssumption DEF Origins
<1>1. ASSUME NEW j \in Jobs, Enqueue(j) PROVE BrokerTypes'
  BY <1>0, <1>1 DEF BrokerTypes, Enqueue, PromotedLane, poolVars, closeVars
<1>2. ASSUME NEW j \in Jobs, GiveBack(j) \/ Refuse(j) PROVE BrokerTypes'
  BY <1>0, <1>2 DEF BrokerTypes, GiveBack, Refuse, queueVars, poolVars, tokenVars, closeVars
<1>3. ASSUME NEW j \in Jobs, Run(j) \/ AdmissionResumes(j) \/ GrantedCancelled(j) PROVE BrokerTypes'
  <2>1. CASE Enqueue(j) \/ GiveBack(j) \/ Refuse(j)
    BY <1>1, <1>2, <2>1
  <2>2. CASE UNCHANGED <<phase, seqno, slots, queueVars, poolVars, tokenVars, loop, idle, closeVars>>
    BY <2>2 DEF BrokerTypes, queueVars, poolVars, tokenVars, closeVars
  <2>3. QED
    BY <1>3, <2>1, <2>2 DEF Run, AdmissionResumes, GrantedCancelled, Admitted
<1>4. ASSUME NEW j \in Jobs, \/ AdmissionCancelled(j) \/ Return(j) \/ WorkerTakes(j) \/ WorkerEnds(j)
                            \/ SubmitRaised(j) \/ Complete(j)
      PROVE  BrokerTypes'
  BY <1>4 DEF BrokerTypes, AdmissionCancelled, Return, WorkerTakes, WorkerEnds, SubmitRaised, Complete,
     jobVars, queueVars, poolVars, tokenVars, closeVars
<1>5. ASSUME NEW reqs \in SUBSET Requests, CancelTokens(reqs)
      PROVE  cancelled' \subseteq Requests /\ posted' \subseteq Jobs
  BY <1>0, <1>5 DEF BrokerTypes, CancelTokens, Subscribers
<1>6. ASSUME NEW j \in Jobs, NEW state, Withdraw(j, state)
      PROVE  /\ seqno' \in [Jobs -> Nat] /\ sequence' \in Nat
             /\ lane' \in [Requests -> {"none", "foreground", "watch", "promoted"}]
             /\ origin' \in [Requests -> Origins \cup {"none"}] /\ idle' \in BOOLEAN
  <2>1. CASE phase[j] # "queued"
    BY <1>0, <1>6, <2>1 DEF BrokerTypes, Withdraw, queueVars
  <2>2. CASE phase[j] = "queued"
    <3>1. PICK a, b : /\ lane' = [lane EXCEPT ![RequestOf[j]] = a] /\ a \in {"none", lane[RequestOf[j]]}
                      /\ origin' = [origin EXCEPT ![RequestOf[j]] = b]
                      /\ b \in {"none", origin[RequestOf[j]]}
      BY <1>6, <2>2 DEF Withdraw
    <3>2. seqno' = [seqno EXCEPT ![j] = 0] /\ sequence' = sequence /\ idle' \in BOOLEAN
      BY <1>6, <2>2 DEF Withdraw
    <3>3. QED
      BY <1>0, <3>1, <3>2 DEF BrokerTypes
  <2>3. QED
    BY <2>1, <2>2
<1>7. ASSUME NEW j \in Jobs, CancelPending(j) PROVE BrokerTypes'
  <2>1. /\ UNCHANGED <<capacity, cancelled, loop, closed, closer, shutdown>>
        /\ posted' \subseteq Jobs
    BY <1>0, <1>7 DEF CancelPending, BrokerTypes, poolVars, closeVars
  <2>2. Withdraw(j, caller[j]) \/ UNCHANGED <<seqno, sequence, lane, origin, idle>>
    BY <1>7 DEF CancelPending, queueVars
  <2>3. QED
    BY <1>0, <1>6, <2>1, <2>2 DEF BrokerTypes
<1>8. ASSUME NEW j \in Jobs, TaskCancelled(j) PROVE BrokerTypes'
  <2>1. /\ UNCHANGED <<capacity, loop, closed, closer, shutdown>>
        /\ CancelTokens({RequestOf[j]}) /\ Withdraw(j, "joining")
    BY <1>8 DEF TaskCancelled, poolVars, closeVars
  <2>2. cancelled' \subseteq Requests /\ posted' \subseteq Jobs
    BY <1>0, <1>5, <2>1
  <2>3. QED
    BY <1>0, <1>6, <2>1, <2>2 DEF BrokerTypes
<1>9. ASSUME NEW j \in Jobs, DispatchDrops(RequestOf[j], j) \/ DispatchSubmits(RequestOf[j], j)
      PROVE  BrokerTypes'
  <2> DEFINE r == RequestOf[j]
  <2>1. TakeItem(r, j) /\ UNCHANGED <<capacity, cancelled, posted, loop, idle, closed, closer, shutdown>>
    BY <1>9 DEF DispatchDrops, DispatchSubmits, poolVars, tokenVars, closeVars
  <2>2. PICK a, b : /\ lane' = [lane EXCEPT ![r] = a] /\ a \in {"none", origin[r]}
                    /\ origin' = [origin EXCEPT ![r] = b] /\ b \in {"none", origin[r]}
    BY <2>1 DEF TakeItem
  <2>3. seqno' = [seqno EXCEPT ![j] = 0] /\ sequence' = sequence
    BY <2>1 DEF TakeItem
  <2>4. origin[r] \in {"none", "foreground", "watch"}
    BY <1>0 DEF BrokerTypes
  <2> HIDE DEF r
  <2>5. lane' \in [Requests -> {"none", "foreground", "watch", "promoted"}]
    BY <1>0, <2>2, <2>4 DEF BrokerTypes
  <2>6. origin' \in [Requests -> Origins \cup {"none"}]
    BY <1>0, <2>2, <2>4 DEF BrokerTypes
  <2>7. seqno' \in [Jobs -> Nat]
    BY <2>3 DEF BrokerTypes
  <2>8. QED
    BY <2>1, <2>3, <2>5, <2>6, <2>7 DEF BrokerTypes
<1>10. CASE CloseAbrupt
  <2>1. /\ UNCHANGED <<capacity, sequence, loop, idle, closer>> /\ closed' = TRUE /\ shutdown' = TRUE
        /\ lane' = [r \in Requests |-> "none"] /\ origin' = [r \in Requests |-> "none"]
        /\ seqno' = [j \in Jobs |-> 0] /\ CancelTokens({RequestOf[j] : j \in AllQueued})
    BY <1>10 DEF CloseAbrupt, poolVars
  <2>2. cancelled' \subseteq Requests /\ posted' \subseteq Jobs
    BY <1>0, <1>5, <2>1 DEF AllQueued
  <2>3. QED
    BY <1>0, <2>1, <2>2 DEF BrokerTypes
<1>11. ASSUME NEW r \in Requests, CancelRequest(r) PROVE BrokerTypes'
  <2>1. cancelled' \subseteq Requests /\ posted' \subseteq Jobs
    BY <1>5, <1>11 DEF CancelRequest
  <2>2. QED
    BY <1>11, <2>1 DEF BrokerTypes, CancelRequest, jobVars, queueVars, poolVars, closeVars
<1>12. CASE \/ UNCHANGED workVars \/ DispatchEnds \/ CloseWaited \/ CloseGraceful
            \/ \E m \in 1..ThreadCapacity : Configure(m)
  BY <1>12 DEF BrokerTypes, workVars, DispatchEnds, CloseWaited, CloseGraceful, Configure,
     jobVars, queueVars, poolVars, tokenVars, closeVars
<1>13. QED
  BY <1>3, <1>4, <1>7, <1>8, <1>9, <1>10, <1>11, <1>12
     DEF WorkNext, Callbacks, Dispatch, Workers, Outside

\* The idle event is set only by a step that leaves nothing queued or in
\* flight, and after shutdown nothing is admitted.
LEMMA DrainStep ==
    ASSUME WorkInv, CountInv, DrainInv, [WorkNext]_workVars
    PROVE  DrainInv'
<1>0. phase \in [Jobs -> WorkPhases] /\ \A k \in Jobs : CallInv(k) /\ ClaimInv(k)
  BY DEF WorkInv, JobTypes
<1>1. /\ active = 0 => InFlight = {}
      /\ pending = 0 => AllQueued = {}
  BY CountedSets, Sizes DEF CountInv, SlotsConserved
<1>2. ASSUME NEW j \in Jobs, NEW state, Withdraw(j, state), loop' = loop, UNCHANGED <<active, closeVars>>
      PROVE  DrainInv'
  <2>1. CASE phase[j] # "queued"
    BY <1>2, <2>1 DEF DrainInv, Withdraw, queueVars, closeVars, ShutdownIsDrained, AllQueued, InFlight
  <2>2. CASE phase[j] = "queued"
    <3>1. /\ phase' = [phase EXCEPT ![j] = "settled"] /\ pending' = pending - 1
          /\ idle' = (active = 0 /\ pending = 1) /\ UNCHANGED <<closed, closer, shutdown>>
      BY <1>2, <2>2 DEF Withdraw, closeVars
    <3>2. AllQueued' \subseteq AllQueued /\ InFlight' \subseteq InFlight
      BY <1>0, <3>1 DEF AllQueued, InFlight
    <3>3. idle' => active' = 0 /\ pending' = 0
      <4>1. pending = 1 => pending - 1 = 0
        OBVIOUS
      <4>2. active' = active
        BY <1>2
      <4>3. QED
        BY <3>1, <4>1, <4>2, Zenon
    <3>4. QED
      BY <3>1, <3>2, <3>3 DEF DrainInv, ShutdownIsDrained
  <2>3. QED
    BY <2>1, <2>2
<1>3. ASSUME NEW j \in Jobs, Enqueue(j), ~closed PROVE DrainInv'
  BY <1>3 DEF DrainInv, Enqueue, closeVars, ShutdownIsDrained
<1>4. ASSUME UNCHANGED <<phase, pending, active, loop, idle, closed, closer, shutdown>>
      PROVE  DrainInv'
  BY <1>4 DEF DrainInv, ShutdownIsDrained, AllQueued, InFlight
<1>5. ASSUME NEW j \in Jobs, Run(j) \/ AdmissionResumes(j) \/ GrantedCancelled(j) PROVE DrainInv'
  BY <1>3, <1>4, <1>5 DEF Run, Refuse, AdmissionResumes, GrantedCancelled, Admitted, GiveBack, queueVars,
     poolVars, closeVars
<1>6. ASSUME NEW j \in Jobs, CancelPending(j) \/ TaskCancelled(j) PROVE DrainInv'
  <2>1. \/ /\ Withdraw(j, caller[j]) \/ Withdraw(j, "joining")
           /\ loop' = loop /\ UNCHANGED <<active, closeVars>>
        \/ UNCHANGED <<phase, pending, active, loop, idle, closed, closer, shutdown>>
    BY <1>6 DEF CancelPending, TaskCancelled, poolVars, closeVars, queueVars
  <2>2. QED
    BY <1>2, <1>4, <2>1
<1>7. ASSUME NEW j \in Jobs, DispatchDrops(RequestOf[j], j) \/ DispatchSubmits(RequestOf[j], j)
      PROVE  DrainInv'
  <2>1. j \in AllQueued /\ loop = "dispatch" /\ UNCHANGED <<loop, closed, closer, shutdown>>
    BY <1>7 DEF DispatchDrops, DispatchSubmits, Selects, Queued, AllQueued, closeVars
  <2>2. QED
    BY <2>1 DEF DrainInv, ShutdownIsDrained
<1>8. ASSUME NEW j \in Jobs, SubmitRaised(j) \/ Complete(j) \/ WorkerEnds(j) \/ WorkerTakes(j)
      PROVE  DrainInv'
  <2>1. UNCHANGED <<closed, closer, shutdown, idle, pending>>
    BY <1>8 DEF SubmitRaised, Complete, WorkerEnds, WorkerTakes, closeVars, queueVars
  <2>2. AllQueued' = AllQueued /\ InFlight' \subseteq InFlight
    BY <1>0, <1>8 DEF SubmitRaised, Complete, WorkerEnds, WorkerTakes, Settle, ClaimInv, AllQueued,
       InFlight, jobVars
  <2>3. loop' = "dispatch" \/ UNCHANGED <<loop, active>>
    BY <1>8 DEF SubmitRaised, Complete, WorkerEnds, WorkerTakes
  <2>4. QED
    BY <2>1, <2>2, <2>3 DEF DrainInv, ShutdownIsDrained
<1>9. CASE CloseAbrupt
  <2>1. /\ phase' = [k \in Jobs |-> IF k \in AllQueued THEN "settled" ELSE phase[k]]
        /\ closed' = TRUE /\ shutdown' = TRUE /\ pending' = 0 /\ closer # "done"
        /\ UNCHANGED <<active, loop, idle, closer>>
    BY <1>9 DEF CloseAbrupt, poolVars
  <2>2. AllQueued' = {}
    BY <1>0, <2>1 DEF AllQueued
  <2>3. QED
    BY <2>1, <2>2 DEF DrainInv, ShutdownIsDrained
<1>10. CASE DispatchEnds \/ \E m \in 1..ThreadCapacity : Configure(m)
  <2>1. /\ UNCHANGED <<phase, pending, active, closed, closer, shutdown>>
        /\ loop' = "dispatch" \/ idle' = (active = 0 /\ pending = 0)
    BY <1>10 DEF DispatchEnds, Configure, jobVars, queueVars, poolVars, closeVars
  <2>2. QED
    BY <2>1 DEF DrainInv, ShutdownIsDrained, AllQueued, InFlight
<1>11. CASE CloseGraceful \/ CloseWaited
  <2>0. /\ UNCHANGED <<phase, pending, active, loop, idle>> /\ closer # "done" /\ loop = "ready"
        /\ closer = "waiting" => closed
    BY <1>11 DEF DrainInv, CloseGraceful, CloseWaited, jobVars, queueVars, poolVars
  <2>1. AllQueued' = AllQueued /\ InFlight' = InFlight
    BY <2>0 DEF AllQueued, InFlight
  <2>2. CASE closer' = "waiting" /\ closed' = TRUE /\ shutdown' = shutdown
    BY <2>0, <2>1, <2>2 DEF DrainInv, ShutdownIsDrained
  <2>3. ASSUME closer' = "done", closed' = TRUE, shutdown' = TRUE, active = 0, pending = 0
        PROVE  DrainInv'
    BY <1>1, <2>0, <2>1, <2>3 DEF DrainInv, ShutdownIsDrained
  <2>4. CASE CloseGraceful
    <3>1. ~(active > 0 \/ pending > 0) => active = 0 /\ pending = 0
      BY CountedSets, Sizes DEF CountInv, SlotsConserved
    <3>2. CASE active > 0 \/ pending > 0
      BY <2>2, <2>4, <3>2 DEF CloseGraceful
    <3>3. CASE ~(active > 0 \/ pending > 0)
      BY <2>3, <2>4, <3>1, <3>3 DEF CloseGraceful
    <3>4. QED
      BY <3>2, <3>3
  <2>5. CASE CloseWaited
    <3>1. closer' = "done" /\ shutdown' = TRUE /\ idle /\ closed' = closed /\ closer = "waiting"
      BY <2>5 DEF CloseWaited
    <3>2. active = 0 /\ pending = 0
      BY <2>0, <3>1 DEF DrainInv
    <3>3. closed'
      BY <2>0, <3>1
    <3>4. QED
      BY <1>1, <2>0, <2>1, <3>1, <3>2, <3>3 DEF DrainInv, ShutdownIsDrained
  <2>6. QED
    BY <1>11, <2>4, <2>5
<1>12. CASE \/ UNCHANGED workVars \/ \E r \in Requests : CancelRequest(r)
            \/ \E j \in Jobs : AdmissionCancelled(j) \/ Return(j)
  BY <1>4, <1>12 DEF workVars, CancelRequest, AdmissionCancelled, Return, jobVars, queueVars, poolVars,
     closeVars
<1>13. QED
  BY <1>5, <1>6, <1>7, <1>8, <1>9, <1>10, <1>11, <1>12
     DEF WorkNext, Callbacks, Dispatch, Workers, Outside

-----------------------------------------------------------------------------
(***************************************************************************)
(* The theorems.                                                           *)
(***************************************************************************)

LEMMA BrokerInitial == WorkInit => BrokerInv
<1> SUFFICES ASSUME WorkInit PROVE BrokerInv
  OBVIOUS
<1>1. WorkInv
  BY DEF WorkInit, WorkInv, JobTypes, WaiterInv, CallInv, ClaimInv, Callers, WorkPhases
<1>2. BrokerTypes
  <2>1. /\ seqno \in [Jobs -> Nat] /\ sequence \in Nat
        /\ lane \in [Requests -> {"none", "foreground", "watch", "promoted"}]
        /\ origin \in [Requests -> Origins \cup {"none"}]
    BY DEF WorkInit
  <2>2. capacity \in 1..ThreadCapacity
    BY WorkAssumption DEF WorkInit
  <2>3. QED
    BY <2>1, <2>2 DEF WorkInit, BrokerTypes
<1>3. Holding = {} /\ AllQueued = {} /\ InFlight = {}
  BY DEF WorkInit, Holding, AllQueued, InFlight
<1>4. Cardinality({}) = 0
  BY FS_EmptySet
<1>5. CountInv
  BY <1>3, <1>4, WorkAssumption DEF CountInv, SlotsConserved, WorkInit
<1>6. OrderInv
  BY DEF WorkInit, OrderInv, OrderIsReady, Queued
<1>7. DrainInv
  BY <1>3 DEF WorkInit, DrainInv, ShutdownIsDrained
<1>8. QED
  BY <1>1, <1>2, <1>5, <1>6, <1>7 DEF BrokerInv

LEMMA BrokerStep == BrokerInv /\ [WorkNext]_workVars => BrokerInv'
<1> SUFFICES ASSUME BrokerInv, [WorkNext]_workVars PROVE BrokerInv'
  OBVIOUS
<1>0. WorkInv /\ BrokerTypes /\ CountInv /\ OrderInv /\ DrainInv
  BY DEF BrokerInv
<1>1. WorkInv'
  BY <1>0, WorkStep
<1>2. QED
  BY <1>0, <1>1, TypesStep, CountStep, OrderStep, DrainStep DEF BrokerInv

\* The broker's inductive invariant holds in every reachable state, for any
\* number of calls, requests, threads and permits.
THEOREM BrokerInvariance == WorkSpec => []BrokerInv
  BY BrokerInitial, BrokerStep, PTL DEF WorkSpec

\* Every variable of the broker keeps its type; in particular the semaphore is
\* never released past max_pending_jobs and the job counters never fall below
\* zero (_pending_slots, _pending_jobs, _active).
THEOREM BrokerTypeCorrect == WorkSpec => []WorkTypeOK
<1>1. ASSUME BrokerInv PROVE WorkTypeOK
  <2>1. WorkInv /\ BrokerTypes /\ CountInv /\ OrderInv
    BY <1>1 DEF BrokerInv
  <2>2. /\ Cardinality(Holding) \in Nat /\ Cardinality(AllQueued) \in Nat
        /\ Cardinality(InFlight) \in Nat
    BY CountedSets, Sizes
  <2>3. slots \in 0..MaxPending /\ pending \in Nat /\ active \in Nat
    BY <2>1, <2>2, WorkAssumption DEF CountInv, SlotsConserved
  <2>4. order \in Seq(Requests)
    BY <2>1 DEF OrderInv
  <2>5. JobTypes
    BY <2>1 DEF WorkInv
  <2>6. QED
    BY <2>1, <2>3, <2>4, <2>5 DEF WorkTypeOK, JobTypes, BrokerTypes
<1>2. QED
  BY <1>1, BrokerInvariance, PTL

\* No permit is lost or created, and _pending_jobs and _active count the queued
\* items and the items in flight, on every path an item can take.
THEOREM CountersNeverDrift == WorkSpec => []SlotsConserved
<1>1. BrokerInv => SlotsConserved
  BY DEF BrokerInv, CountInv
<1>2. QED
  BY <1>1, BrokerInvariance, PTL

\* _RequestOrder holds exactly the requests with queued items, each once and in
\* the list of its origin.
THEOREM OrderTheorem == WorkSpec => []OrderIsReady
<1>1. BrokerInv => OrderIsReady
  BY DEF BrokerInv, OrderInv
<1>2. QED
  BY <1>1, BrokerInvariance, PTL

\* Once the executor is shut down no item waits to be submitted to it, and
\* close(graceful=True) returns only when nothing is in flight.
THEOREM ShutdownTheorem == WorkSpec => []ShutdownIsDrained
<1>1. BrokerInv => ShutdownIsDrained
  BY DEF BrokerInv, DrainInv
<1>2. QED
  BY <1>1, BrokerInvariance, PTL

\* Only _dispatch hands a queued item to the executor.
LEMMA OnlyDispatchSubmits ==
    ASSUME WorkInv, WorkNext, NEW j \in Jobs, phase[j] = "queued", phase'[j] = "submitted"
    PROVE  DispatchSubmits(RequestOf[j], j)
<1>0. phase \in [Jobs -> WorkPhases]
  BY DEF WorkInv, JobTypes
<1>1. phase' # phase /\ \A k \in Jobs, p \in {"queued", "settled", "completing"} : phase' # [phase EXCEPT ![k] = p]
  BY <1>0
<1>2. ASSUME NEW k \in Jobs, Enqueue(k) \/ GiveBack(k) \/ Refuse(k) PROVE FALSE
  BY <1>1, <1>2 DEF Enqueue, GiveBack, Refuse
<1>3. ASSUME NEW k \in Jobs, NEW state, Withdraw(k, state) PROVE FALSE
  BY <1>1, <1>3 DEF Withdraw
<1>4. ~Callbacks
  BY <1>1, <1>2, <1>3 DEF Callbacks, AdmissionResumes, Admitted, CancelPending, Return, Complete, Settle
<1>5. ~CloseWaited /\ ~Workers
  BY <1>1 DEF CloseWaited, Workers, WorkerTakes, WorkerEnds, jobVars
<1>6. ~CloseAbrupt
  <2>1. ASSUME CloseAbrupt PROVE FALSE
    BY <1>0, <2>1 DEF CloseAbrupt
  <2>2. QED
    BY <2>1
<1>7. ~Outside
  BY <1>1, <1>2, <1>3, <1>6 DEF Outside, Run, AdmissionCancelled, GrantedCancelled, TaskCancelled,
     CancelRequest, Configure, CloseGraceful, jobVars
<1>8. PICK k \in Jobs : DispatchSubmits(RequestOf[k], k)
  BY <1>1, <1>4, <1>5, <1>7 DEF WorkNext, Dispatch, DispatchEnds, DispatchDrops, SubmitRaised, Settle, jobVars
<1>9. k = j
  <2>1. phase' = [phase EXCEPT ![k] = "submitted"]
    BY <1>8 DEF DispatchSubmits
  <2>2. QED
    BY <1>0, <2>1
<1>10. QED
  BY <1>8, <1>9

\* _dispatch never starts an item of a watch request while a request with
\* foreground work, promoted ones included, has an item waiting.
THEOREM ForegroundTheorem == WorkSpec => ForegroundFirst
<1>1. BrokerInv /\ [WorkNext]_workVars
         => [\A j \in Jobs :
                phase[j] = "queued" /\ phase'[j] = "submitted" /\ origin[RequestOf[j]] = "watch"
                    => \A k \in AllQueued : origin[RequestOf[k]] = "watch"]_workVars
  <2>0. SUFFICES ASSUME BrokerInv, WorkNext, NEW j \in Jobs, phase[j] = "queued", phase'[j] = "submitted",
                        origin[RequestOf[j]] = "watch", NEW k \in AllQueued
                 PROVE  origin[RequestOf[k]] = "watch"
    OBVIOUS
  <2>1. WorkInv /\ OrderIsReady
    BY <2>0 DEF BrokerInv, OrderInv
  <2>2. RequestOf[j] \in Requests /\ RequestOf[k] \in Requests /\ k \in Queued(RequestOf[k])
    BY WorkAssumption DEF AllQueued, Queued
  <2>3. DispatchSubmits(RequestOf[j], j)
    BY <2>0, <2>1, OnlyDispatchSubmits
  <2>4. PICK i \in DOMAIN order : order[i] = RequestOf[j] /\ IsNext(i)
    BY <2>3 DEF DispatchSubmits, Selects
  <2>5. lane[RequestOf[j]] = "watch"
    BY <2>0, <2>1, <2>2 DEF OrderIsReady
  <2>6. \A n \in DOMAIN order : lane[order[n]] = "watch"
    BY <2>4, <2>5 DEF IsNext
  <2>7. PICK n \in DOMAIN order : order[n] = RequestOf[k]
    BY <2>1, <2>2 DEF OrderIsReady
  <2>8. QED
    BY <2>1, <2>2, <2>6, <2>7 DEF OrderIsReady
<1>2. QED
  BY <1>1, BrokerInvariance, PTL DEF WorkSpec, ForegroundFirst

=============================================================================
