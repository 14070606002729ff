------------------------- MODULE JobExecutorProofs -------------------------
(***************************************************************************)
(* Proofs about JobExecutor, for any set of jobs and worker threads, any   *)
(* CPU budget and any queue capacity: the counters agree with the threads  *)
(* and lists they stand for (ExecutorTypeOK), and no job is lost, run      *)
(* twice or deaf to its cancellation (CancelReaches).                      *)
(***************************************************************************)
EXTENDS JobExecutor, FiniteSetTheorems, SequenceTheorems, TLAPS

-----------------------------------------------------------------------------
(* The inductive invariant.                                                *)

PCs == Owning \cup {"test", "falling", "asleep", "exited"}

Threads == [pc : PCs, job : Jobs \cup {None}, baton : BOOLEAN,
            extra : {"no", "held", "returned"}, retry : BOOLEAN]

WorkerTypes == wk \in [Workers -> Threads]

StateTypes ==
    /\ credits \in Int /\ active \in Int /\ parked \in Int
    /\ known \subseteq Jobs /\ token \subseteq Jobs /\ attempt \subseteq Jobs
    /\ flag \subseteq Jobs /\ started \subseteq Jobs
    /\ waiters \subseteq Jobs /\ calls \subseteq Jobs
    /\ mem \in [Jobs -> [listed : BOOLEAN, running : BOOLEAN,
                         admitted : BOOLEAN, revoked : BOOLEAN]]
    /\ main \in [pc : {"serve", "withdraw", "drain", "asleep", "stop", "join", "done"},
                 job : Jobs \cup {None}]
    /\ main.pc = "withdraw" => main.job \in Jobs
    /\ results \in [Jobs -> Seq({"backpressure", "cancelled", "finished"})]
    /\ tries \in [Jobs -> 0 .. MaxRetries]

Owner(w, j) == wk[w].pc \in Owning /\ wk[w].job = j

Once(q) == \A i, k \in DOMAIN q : q[i] = q[k] => i = k

(* The queues hold a job at most once, and not both of them.               *)
QueueInv ==
    /\ fore \in Seq(Jobs) /\ back \in Seq(Jobs)
    /\ Once(fore) /\ Once(back)
    /\ ToSet(fore) \cap ToSet(back) = {}

(* A known job is in a queue, with the arbitrator, in its round of         *)
(* callbacks, or with a thread; in one of them only; and no other job is.  *)
PlaceInv ==
    /\ \A w \in Workers : wk[w].pc \in Owning => wk[w].job \in known
    /\ Queued \subseteq known /\ waiters \subseteq known /\ calls \subseteq known
    /\ waiters \cap calls = {} /\ Queued \cap waiters = {} /\ Queued \cap calls = {}
    /\ \A w \in Workers :
          wk[w].pc \in Owning => wk[w].job \notin Queued \cup waiters \cup calls
    /\ \A v, w \in Workers : \A j \in Jobs : Owner(v, j) /\ Owner(w, j) => v = w
    /\ \A j \in known : \/ j \in Queued \cup waiters \cup calls
                        \/ \E w \in Workers : Owner(w, j)

(* A known job has no result yet, unless its thread has just printed it.   *)
ResultInv ==
    /\ \A j \in Jobs : Len(results[j]) <= 1
    /\ \A j \in known : results[j] # <<>> =>
          \E w \in Workers : Owner(w, j) /\ wk[w].pc \in {"release", "finish"} /\ ~wk[w].retry
    /\ \A w \in Workers : wk[w].pc \in {"begin", "register", "run"} => ~wk[w].retry

(* Only a job that is known and has begun is listed by the arbitrator.     *)
MemInv ==
    /\ \A j \in Jobs : mem[j].listed => j \in known /\ j \in started
    /\ waiters \subseteq started /\ calls \subseteq started
    /\ \A w \in Workers : wk[w].pc \in Owning \ {"begin"} => wk[w].job \in started

(* An attempt that runs can be cancelled, and has been if its job is.      *)
AttemptInv ==
    \A w \in Workers : wk[w].pc = "run" =>
        wk[w].job \in attempt /\ (wk[w].job \in token => wk[w].job \in flag)

Paying == {"begin", "register", "run", "release"}
Extras == {w \in Workers : wk[w].extra = "held"}

(* The counters.                                                           *)
CountInv ==
    /\ active = Cardinality(At(Owning \ {"park"}))
    /\ parked = Cardinality(At({"park"})) + Cardinality(waiters) + Cardinality(calls)
    /\ credits = Cardinality(At(Paying)) + Cardinality(Extras)
    /\ credits <= Capacity
    /\ \A w \in Workers : wk[w].extra = "held" => wk[w].pc = "run"

ExecInv ==
    /\ StateTypes /\ WorkerTypes /\ QueueInv /\ PlaceInv /\ ResultInv /\ MemInv
    /\ AttemptInv /\ CountInv

-----------------------------------------------------------------------------
(* Queues as sets of jobs.                                                 *)

(* A job at the back of a queue.                                           *)
LEMMA AppendFacts ==
    ASSUME NEW S, NEW q \in Seq(S), NEW x \in S, Once(q), x \notin ToSet(q)
    PROVE  /\ Append(q, x) \in Seq(S) /\ Once(Append(q, x))
           /\ ToSet(Append(q, x)) = ToSet(q) \cup {x}
<1> DEFINE r == Append(q, x)
           n == Len(q)
<1>1. /\ n \in Nat /\ r \in Seq(S) /\ Len(r) = n + 1 /\ DOMAIN r = 1 .. (n + 1)
      /\ DOMAIN q = 1 .. n /\ r[n + 1] = x /\ \A i \in 1 .. n : r[i] = q[i]
  OBVIOUS
<1> HIDE DEF r, n
<1>2. \A i \in 1 .. n : q[i] # x
  BY <1>1 DEF ToSet
<1>3. ASSUME NEW i \in 1 .. (n + 1), NEW k \in 1 .. (n + 1), r[i] = r[k]
      PROVE  i = k
  <2>1. \/ i \in 1 .. n /\ k \in 1 .. n
        \/ i = n + 1 /\ k = n + 1
        \/ i \in 1 .. n /\ k = n + 1
        \/ i = n + 1 /\ k \in 1 .. n
    BY <1>1
  <2>2. QED
    BY <1>1, <1>2, <1>3, <2>1 DEF Once
<1>4. Once(r)
  BY <1>1, <1>3 DEF Once
<1>5. ToSet(r) = ToSet(q) \cup {x}
  <2>1. ASSUME NEW y \in ToSet(r) PROVE y \in ToSet(q) \cup {x}
    <3>1. PICK i \in 1 .. (n + 1) : y = r[i]
      BY <1>1 DEF ToSet
    <3>2. i \in 1 .. n \/ i = n + 1
      BY <1>1
    <3>3. QED
      BY <1>1, <3>1, <3>2 DEF ToSet
  <2>2. ASSUME NEW y \in ToSet(q) PROVE y \in ToSet(r)
    <3>1. PICK i \in 1 .. n : y = q[i]
      BY <1>1 DEF ToSet
    <3>2. i \in 1 .. (n + 1) /\ r[i] = y
      BY <1>1, <3>1
    <3>3. QED
      BY <1>1, <3>2 DEF ToSet
  <2>3. x \in ToSet(r)
    <3>1. (n + 1) \in 1 .. (n + 1)
      BY <1>1
    <3>2. QED
      BY <1>1, <3>1 DEF ToSet
  <2>4. QED
    BY <2>1, <2>2, <2>3
<1>6. QED
  BY <1>1, <1>4, <1>5 DEF r

(* A job at the front of a queue.                                          *)
LEMMA ConsFacts ==
    ASSUME NEW S, NEW q \in Seq(S), NEW x \in S, Once(q), x \notin ToSet(q)
    PROVE  /\ (<<x>> \o q) \in Seq(S) /\ Once(<<x>> \o q)
           /\ ToSet(<<x>> \o q) = ToSet(q) \cup {x}
<1> DEFINE r == <<x>> \o q
           n == Len(q)
<1>1. /\ n \in Nat /\ r \in Seq(S) /\ Len(r) = n + 1 /\ DOMAIN r = 1 .. (n + 1)
      /\ DOMAIN q = 1 .. n /\ r[1] = x /\ \A i \in 1 .. n : r[i + 1] = q[i]
  OBVIOUS
<1> HIDE DEF r, n
<1>2. \A i \in 1 .. n : q[i] # x
  BY <1>1 DEF ToSet
<1>3. \A i \in 1 .. (n + 1) : i = 1 \/ (i - 1 \in 1 .. n /\ r[i] = q[i - 1])
  <2>1. ASSUME NEW i \in 1 .. (n + 1), i # 1 PROVE i - 1 \in 1 .. n /\ r[i] = q[i - 1]
    <3>1. i - 1 \in 1 .. n /\ (i - 1) + 1 = i
      BY <1>1, <2>1
    <3>2. QED
      BY <1>1, <3>1
  <2>2. QED
    BY <2>1
<1>4. ASSUME NEW i \in 1 .. (n + 1), NEW k \in 1 .. (n + 1), r[i] = r[k]
      PROVE  i = k
  <2>1. i = 1 /\ k # 1 => FALSE
    BY <1>1, <1>2, <1>3, <1>4
  <2>2. i # 1 /\ k = 1 => FALSE
    BY <1>1, <1>2, <1>3, <1>4
  <2>3. ASSUME i # 1, k # 1 PROVE i - 1 = k - 1
    <3>1. i - 1 \in 1 .. n /\ k - 1 \in 1 .. n /\ q[i - 1] = q[k - 1]
      BY <1>3, <1>4, <2>3
    <3>2. QED
      BY <1>1, <3>1 DEF Once
  <2>4. QED
    BY <1>1, <2>1, <2>2, <2>3
<1>5. Once(r)
  BY <1>1, <1>4 DEF Once
<1>6. ToSet(r) = ToSet(q) \cup {x}
  <2>1. ASSUME NEW y \in ToSet(r) PROVE y \in ToSet(q) \cup {x}
    <3>1. PICK i \in 1 .. (n + 1) : y = r[i]
      BY <1>1 DEF ToSet
    <3>2. QED
      BY <1>1, <1>3, <3>1 DEF ToSet
  <2>2. ASSUME NEW y \in ToSet(q) PROVE y \in ToSet(r)
    <3>1. PICK i \in 1 .. n : y = q[i]
      BY <1>1 DEF ToSet
    <3>2. i + 1 \in 1 .. (n + 1) /\ r[i + 1] = y
      BY <1>1, <3>1
    <3>3. QED
      BY <1>1, <3>2 DEF ToSet
  <2>3. x \in ToSet(r)
    <3>1. 1 \in 1 .. (n + 1)
      BY <1>1
    <3>2. QED
      BY <1>1, <3>1 DEF ToSet
  <2>4. QED
    BY <2>1, <2>2, <2>3
<1>7. QED
  BY <1>1, <1>5, <1>6 DEF r

(* The memory arbitrator's entry of one job changes.                       *)
LEMMA MemRevoked ==
    ASSUME NEW m, NEW j \in Jobs,
           m \in [Jobs -> [listed : BOOLEAN, running : BOOLEAN,
                           admitted : BOOLEAN, revoked : BOOLEAN]]
    PROVE  /\ [m EXCEPT ![j].revoked = TRUE] \in
                 [Jobs -> [listed : BOOLEAN, running : BOOLEAN, admitted : BOOLEAN, revoked : BOOLEAN]]
           /\ \A k \in Jobs : [m EXCEPT ![j].revoked = TRUE][k].listed = m[k].listed
OBVIOUS

LEMMA MemEnded ==
    ASSUME NEW m, NEW j \in Jobs,
           m \in [Jobs -> [listed : BOOLEAN, running : BOOLEAN,
                           admitted : BOOLEAN, revoked : BOOLEAN]]
    PROVE  /\ [m EXCEPT ![j] = Ended(@)] \in
                 [Jobs -> [listed : BOOLEAN, running : BOOLEAN, admitted : BOOLEAN, revoked : BOOLEAN]]
           /\ ~[m EXCEPT ![j] = Ended(@)][j].listed
           /\ \A k \in Jobs : k # j => [m EXCEPT ![j] = Ended(@)][k] = m[k]
BY DEF Ended

LEMMA SuffixFacts ==
    ASSUME NEW S, NEW s \in Seq(S), NEW k \in 1 .. Len(s)
    PROVE  /\ SubSeq(s, k + 1, Len(s)) \in Seq(S)
           /\ Len(SubSeq(s, k + 1, Len(s))) = Len(s) - k
           /\ \A i \in 1 .. (Len(s) - k) : SubSeq(s, k + 1, Len(s))[i] = s[k + i]
<1> DEFINE t == SubSeq(s, k + 1, Len(s))
<1>1. Len(s) \in Nat
  OBVIOUS
<1>2. t \in Seq(S) /\ Len(t) = Len(s) - k
  BY <1>1
<1>3. \A i \in 1 .. (Len(s) - k) : t[i] = s[i + k]
  BY <1>1
<1>4. \A i \in 1 .. (Len(s) - k) : i + k = k + i
  BY <1>1
<1> HIDE DEF t
<1>5. \A i \in 1 .. (Len(s) - k) : t[i] = s[k + i]
  BY <1>3, <1>4, Zenon
<1>6. QED
  BY <1>2, <1>5 DEF t

(* A queue without the entry at one of its places.                         *)
LEMMA RemoveFacts ==
    ASSUME NEW S, NEW q \in Seq(S), NEW p \in DOMAIN q, Once(q)
    PROVE  /\ RemoveAt(q, p) \in Seq(S) /\ Once(RemoveAt(q, p))
           /\ ToSet(RemoveAt(q, p)) = ToSet(q) \ {q[p]}
<1> DEFINE n == Len(q)
           r == RemoveAt(q, p)
           head == SubSeq(q, 1, p - 1)
           tail == SubSeq(q, p + 1, n)
           at(i) == IF i < p THEN i ELSE i + 1
<1>1. n \in Nat /\ DOMAIN q = 1 .. n /\ p \in 1 .. n
  OBVIOUS
<1>2. /\ head \in Seq(S) /\ Len(head) = p - 1
      /\ \A i \in 1 .. (p - 1) : head[i] = q[i]
  BY <1>1
<1>3. /\ tail \in Seq(S) /\ Len(tail) = n - p
      /\ \A i \in 1 .. (n - p) : tail[i] = q[p + i]
  <2>1. Len(q) = n
    OBVIOUS
  <2>2. QED
    BY <1>1, <2>1, SuffixFacts
<1>4. r = head \o tail
  BY DEF RemoveAt
<1> HIDE DEF head, tail, r, n
<1>5. /\ r \in Seq(S) /\ Len(r) = n - 1 /\ DOMAIN r = 1 .. (n - 1)
      /\ \A i \in 1 .. (n - 1) : r[i] = IF i <= p - 1 THEN head[i] ELSE tail[i - (p - 1)]
  <2>1. /\ r \in Seq(S) /\ Len(r) = Len(head) + Len(tail)
        /\ \A i \in 1 .. (Len(head) + Len(tail)) :
              r[i] = IF i <= Len(head) THEN head[i] ELSE tail[i - Len(head)]
    <3>1. head \in Seq(S) /\ tail \in Seq(S)
      BY <1>2, <1>3, Zenon
    <3>2. QED
      BY <1>4, <3>1, ConcatProperties, Zenon
  <2>2. Len(head) + Len(tail) = n - 1
    BY <1>1, <1>2, <1>3
  <2>3. DOMAIN r = 1 .. Len(r)
    BY <2>1
  <2>4. QED
    BY <1>2, <2>1, <2>2, <2>3
<1>6. ASSUME NEW i \in 1 .. (n - 1)
      PROVE  at(i) \in 1 .. n /\ at(i) # p /\ r[i] = q[at(i)]
  <2>1. CASE i < p
    <3>1. i \in 1 .. (p - 1) /\ i <= p - 1 /\ at(i) = i /\ i \in 1 .. n /\ i # p
      BY <1>1, <2>1
    <3>2. r[i] = head[i] /\ head[i] = q[i]
      BY <1>2, <1>5, <3>1, Zenon
    <3>3. QED
      BY <3>1, <3>2, Zenon
  <2>2. CASE ~(i < p)
    <3>1. i - (p - 1) \in 1 .. (n - p) /\ p + (i - (p - 1)) = i + 1
      BY <1>1, <2>2
    <3>2. r[i] = tail[i - (p - 1)]
      BY <1>1, <1>5, <2>2
    <3>3. tail[i - (p - 1)] = q[p + (i - (p - 1))]
      BY <1>3, <3>1, Zenon
    <3>4. r[i] = q[i + 1]
      BY <3>1, <3>2, <3>3, Zenon
    <3>5. at(i) = i + 1 /\ i + 1 \in 1 .. n /\ i + 1 # p
      BY <1>1, <2>2
    <3>6. QED
      BY <3>4, <3>5, Zenon
  <2>3. QED
    BY <2>1, <2>2
<1>7. \A i, k \in 1 .. (n - 1) : at(i) = at(k) => i = k
  BY <1>1
<1>8. Once(r)
  <2>1. ASSUME NEW i \in 1 .. (n - 1), NEW k \in 1 .. (n - 1), r[i] = r[k] PROVE i = k
    <3>1. at(i) = at(k)
      <4> HIDE DEF at
      <4>1. QED
        BY <1>1, <1>6, <2>1 DEF Once
    <3>2. QED
      BY <1>7, <3>1
  <2>2. QED
    BY <1>5, <2>1 DEF Once
<1>9. ToSet(r) = ToSet(q) \ {q[p]}
  <2>1. ASSUME NEW y \in ToSet(r) PROVE y \in ToSet(q) \ {q[p]}
    <3> HIDE DEF at
    <3>1. PICK i \in 1 .. (n - 1) : y = r[i]
      BY <1>5 DEF ToSet
    <3>2. at(i) \in 1 .. n /\ at(i) # p /\ y = q[at(i)]
      BY <1>6, <3>1
    <3>3. QED
      BY <1>1, <3>2 DEF Once, ToSet
  <2>2. ASSUME NEW y \in ToSet(q), y # q[p] PROVE y \in ToSet(r)
    <3>1. PICK i \in 1 .. n : y = q[i]
      BY <1>1 DEF ToSet
    <3>2. i # p
      BY <2>2, <3>1
    <3>3. CASE i < p
      <4>1. i \in 1 .. (n - 1) /\ at(i) = i
        BY <1>1, <3>3
      <4>2. QED
        BY <1>5, <1>6, <3>1, <4>1 DEF ToSet
    <3>4. CASE ~(i < p)
      <4>1. i - 1 \in 1 .. (n - 1) /\ at(i - 1) = i
        BY <1>1, <3>2, <3>4
      <4>2. QED
        BY <1>5, <1>6, <3>1, <4>1 DEF ToSet
    <3>5. QED
      BY <3>3, <3>4
  <2>3. QED
    BY <2>1, <2>2
<1>10. QED
  BY <1>5, <1>8, <1>9 DEF r

(* A queue without its first entry.                                        *)
LEMMA TailFacts ==
    ASSUME NEW S, NEW q \in Seq(S), q # <<>>, Once(q)
    PROVE  /\ Tail(q) \in Seq(S) /\ Once(Tail(q)) /\ Head(q) \in ToSet(q) /\ Head(q) \in S
           /\ ToSet(Tail(q)) = ToSet(q) \ {Head(q)}
<1>1. 1 \in DOMAIN q /\ Head(q) = q[1] /\ Len(q) \in Nat /\ Len(q) >= 1 /\ DOMAIN q = 1 .. Len(q)
  OBVIOUS
<1>2. DOMAIN Tail(q) = 1 .. (Len(q) - 1) /\ Tail(q) \in Seq(S)
      /\ \A i \in 1 .. (Len(q) - 1) : Tail(q)[i] = q[i + 1]
  OBVIOUS
<1> DEFINE r == Tail(q)
           n == Len(q)
<1> HIDE DEF r, n
<1>3. Once(r)
  <2>1. ASSUME NEW i \in 1 .. (n - 1), NEW k \in 1 .. (n - 1), r[i] = r[k] PROVE i = k
    <3>1. i + 1 \in 1 .. n /\ k + 1 \in 1 .. n /\ q[i + 1] = q[k + 1]
      BY <1>1, <1>2, <2>1 DEF r, n
    <3>2. i + 1 = k + 1
      BY <1>1, <3>1 DEF Once, n
    <3>3. QED
      BY <3>2
  <2>2. QED
    BY <1>2, <2>1 DEF Once, r, n
<1>4. ToSet(r) = ToSet(q) \ {Head(q)}
  <2>1. ASSUME NEW y \in ToSet(r) PROVE y \in ToSet(q) \ {Head(q)}
    <3>1. PICK i \in 1 .. (n - 1) : y = r[i]
      BY <1>2 DEF ToSet, r, n
    <3>2. i + 1 \in 1 .. n /\ i + 1 # 1 /\ y = q[i + 1]
      BY <1>1, <1>2, <3>1 DEF r, n
    <3>3. QED
      BY <1>1, <3>2 DEF Once, ToSet, n
  <2>2. ASSUME NEW y \in ToSet(q), y # Head(q) PROVE y \in ToSet(r)
    <3>1. PICK i \in 1 .. n : y = q[i]
      BY <1>1 DEF ToSet, n
    <3>2. i - 1 \in 1 .. (n - 1) /\ (i - 1) + 1 = i
      BY <1>1, <2>2, <3>1 DEF n
    <3>3. r[i - 1] = y
      BY <1>2, <3>1, <3>2 DEF r, n
    <3>4. QED
      BY <1>2, <3>2, <3>3 DEF ToSet, r, n
  <2>3. QED
    BY <2>1, <2>2
<1>5. Head(q) \in ToSet(q) /\ Head(q) \in S
  BY <1>1 DEF ToSet
<1>6. QED
  BY <1>2, <1>3, <1>4, <1>5 DEF r

(* A queue without its entry for a job.                                    *)
LEMMA ErasedFacts ==
    ASSUME NEW S, NEW q \in Seq(S), NEW j, Once(q)
    PROVE  /\ Erased(q, j) \in Seq(S) /\ Once(Erased(q, j))
           /\ ToSet(Erased(q, j)) = ToSet(q) \ {j}
<1>1. CASE j \in ToSet(q)
  <2> DEFINE p == CHOOSE i \in DOMAIN q : q[i] = j
  <2>1. \E i \in DOMAIN q : q[i] = j
    BY <1>1 DEF ToSet
  <2>2. p \in DOMAIN q /\ q[p] = j
    BY <2>1
  <2>3. Erased(q, j) = RemoveAt(q, p)
    BY <1>1 DEF Erased
  <2> HIDE DEF p
  <2>4. QED
    BY <2>2, <2>3, RemoveFacts
<1>2. CASE j \notin ToSet(q)
  BY <1>2 DEF Erased
<1>3. QED
  BY <1>1, <1>2

-----------------------------------------------------------------------------
(* Steps of the threads.                                                   *)

(* A notification leaves a thread alone unless it sleeps, and one that     *)
(* sleeps owns no job before or after it.                                  *)
Woken(ws, r, v) ==
    /\ (ws[v].pc \in Owning \/ r[v].pc \in Owning \/ ws[v].pc # "asleep") => r[v] = ws[v]
    /\ r[v].extra = ws[v].extra

LEMMA NotifiedOneFacts ==
    ASSUME NEW ws \in [Workers -> Threads]
    PROVE  /\ NotifiedOne(ws) \in [Workers -> Threads]
           /\ \A v \in Workers : Woken(ws, NotifiedOne(ws), v)
<1>1. CASE Asleep(ws) = {}
  BY <1>1 DEF NotifiedOne, Woken
<1>2. CASE Asleep(ws) # {}
  <2>1. PICK u : u \in Asleep(ws) /\ NotifiedOne(ws) = [ws EXCEPT ![u].pc = "test"]
    BY <1>2 DEF NotifiedOne
  <2>2. u \in Workers /\ ws[u].pc = "asleep"
    BY <2>1 DEF Asleep
  <2>3. NotifiedOne(ws) \in [Workers -> Threads]
    BY <2>1, <2>2 DEF Threads, PCs
  <2>4. QED
    BY <2>1, <2>2, <2>3 DEF Woken, Threads, PCs, Owning
<1>3. QED
  BY <1>1, <1>2

LEMMA NotifiedAllFacts ==
    ASSUME NEW ws \in [Workers -> Threads]
    PROVE  /\ NotifiedAll(ws) \in [Workers -> Threads]
           /\ \A v \in Workers : Woken(ws, NotifiedAll(ws), v)
BY DEF NotifiedAll, Woken, Threads, PCs, Owning

(* Thread v starts and ends nothing; it may fall asleep or be woken.       *)
Kept(v) ==
    /\ (wk[v].pc \in Owning \/ wk'[v].pc \in Owning) => wk'[v] = wk[v]
    /\ wk'[v].extra = wk[v].extra

(* Thread w moves to t, and nobody else starts or ends anything.           *)
Moves(w, t) ==
    /\ WorkerTypes' /\ wk'[w] = t
    /\ \A v \in Workers : v # w => Kept(v)

Quiet == WorkerTypes' /\ \A v \in Workers : Kept(v)

LEMMA QuietFacts ==
    ASSUME WorkerTypes,
           \/ wk' = wk \/ wk' = NotifiedOne(wk) \/ wk' = NotifiedAll(wk)
    PROVE  Quiet
<1>1. wk \in [Workers -> Threads]
  BY DEF WorkerTypes
<1>2. CASE wk' = wk
  BY <1>1, <1>2 DEF Quiet, WorkerTypes, Kept
<1>3. CASE wk' = NotifiedOne(wk)
  BY <1>1, <1>3, NotifiedOneFacts DEF Quiet, WorkerTypes, Woken, Kept
<1>4. CASE wk' = NotifiedAll(wk)
  BY <1>1, <1>4, NotifiedAllFacts DEF Quiet, WorkerTypes, Woken, Kept
<1>5. QED
  BY <1>2, <1>3, <1>4

LEMMA MovesFacts ==
    ASSUME WorkerTypes, NEW w \in Workers, NEW t \in Threads, t.pc # "asleep",
           NEW ws \in [Workers -> Threads], ws[w] = t,
           \A v \in Workers : v # w => ws[v] = wk[v],
           wk' = ws \/ wk' = NotifiedOne(ws)
    PROVE  Moves(w, t)
<1>1. CASE wk' = ws
  BY <1>1 DEF Moves, WorkerTypes, Kept
<1>2. CASE wk' = NotifiedOne(ws)
  <2>1. /\ wk' \in [Workers -> Threads]
        /\ \A v \in Workers : Woken(ws, wk', v)
    BY <1>2, NotifiedOneFacts
  <2>2. wk'[w] = t
    BY <2>1 DEF Woken
  <2>3. \A v \in Workers : v # w => Kept(v)
    BY <2>1 DEF Woken, Kept
  <2>4. QED
    BY <2>1, <2>2, <2>3 DEF Moves, WorkerTypes
<1>3. QED
  BY <1>1, <1>2

(* Subsets of the threads are finite, and so are sets of jobs.             *)
LEMMA Finite ==
    /\ \A S \in SUBSET Workers : IsFiniteSet(S) /\ Cardinality(S) \in Nat
    /\ \A S \in SUBSET Jobs : IsFiniteSet(S) /\ Cardinality(S) \in Nat
BY ExecutorAssumption, FS_Subset, FS_CardinalityType

(* How one more and one less element count.                                *)
LEMMA CountFacts ==
    ASSUME NEW S, IsFiniteSet(S), NEW x
    PROVE  /\ x \notin S => Cardinality(S \cup {x}) = Cardinality(S) + 1
           /\ x \in S => Cardinality(S \ {x}) = Cardinality(S) - 1
BY FS_AddElement, FS_RemoveElement

LEMMA QuietCounts ==
    ASSUME Quiet, WorkerTypes, NEW S \in SUBSET Owning
    PROVE  At(S)' = At(S) /\ Extras' = Extras
<1>1. \A v \in Workers : wk'[v].pc \in S <=> wk[v].pc \in S
  BY DEF Quiet, Kept
<1>2. \A v \in Workers : wk'[v].extra = wk[v].extra
  BY DEF Quiet, Kept
<1>3. QED
  BY <1>1, <1>2 DEF At, Extras

LEMMA MoveCounts ==
    ASSUME NEW w \in Workers, NEW t \in Threads, Moves(w, t), WorkerTypes,
           NEW S \in SUBSET Owning
    PROVE  /\ Cardinality(At(S)) \in Nat /\ Cardinality(At(S)') \in Nat
           /\ (wk[w].pc \in S /\ t.pc \in S) => Cardinality(At(S)') = Cardinality(At(S))
           /\ (wk[w].pc \notin S /\ t.pc \notin S) => Cardinality(At(S)') = Cardinality(At(S))
           /\ (wk[w].pc \notin S /\ t.pc \in S) => Cardinality(At(S)') = Cardinality(At(S)) + 1
           /\ (wk[w].pc \in S /\ t.pc \notin S) => Cardinality(At(S)') = Cardinality(At(S)) - 1
<1>1. \A v \in Workers : v # w => (wk'[v].pc \in S <=> wk[v].pc \in S)
  BY DEF Moves, Kept
<1>2. wk'[w].pc \in S <=> t.pc \in S
  BY DEF Moves
<1>3. At(S) \subseteq Workers /\ At(S)' \subseteq Workers
  BY DEF At
<1>4. (wk[w].pc \in S /\ t.pc \in S) => At(S)' = At(S)
  BY <1>1, <1>2 DEF At
<1>5. (wk[w].pc \notin S /\ t.pc \notin S) => At(S)' = At(S)
  BY <1>1, <1>2 DEF At
<1>6. (wk[w].pc \notin S /\ t.pc \in S) => At(S)' = At(S) \cup {w} /\ w \notin At(S)
  BY <1>1, <1>2 DEF At
<1>7. (wk[w].pc \in S /\ t.pc \notin S) => At(S)' = At(S) \ {w} /\ w \in At(S)
  BY <1>1, <1>2 DEF At
<1>8. IsFiniteSet(At(S)) /\ Cardinality(At(S)) \in Nat /\ Cardinality(At(S)') \in Nat
  BY <1>3, Finite
<1>9. /\ w \notin At(S) => Cardinality(At(S) \cup {w}) = Cardinality(At(S)) + 1
      /\ w \in At(S) => Cardinality(At(S) \ {w}) = Cardinality(At(S)) - 1
  BY <1>8, CountFacts
<1>10. QED
  BY <1>4, <1>5, <1>6, <1>7, <1>8, <1>9

LEMMA MoveExtras ==
    ASSUME NEW w \in Workers, NEW t \in Threads, Moves(w, t), WorkerTypes
    PROVE  /\ Cardinality(Extras) \in Nat /\ Cardinality(Extras') \in Nat
           /\ (wk[w].extra = "held" <=> t.extra = "held") => Cardinality(Extras') = Cardinality(Extras)
           /\ (wk[w].extra # "held" /\ t.extra = "held") => Cardinality(Extras') = Cardinality(Extras) + 1
           /\ (wk[w].extra = "held" /\ t.extra # "held") => Cardinality(Extras') = Cardinality(Extras) - 1
<1>1. \A v \in Workers : v # w => wk'[v].extra = wk[v].extra
  BY DEF Moves, Kept
<1>2. wk'[w].extra = t.extra
  BY DEF Moves
<1>3. Extras \subseteq Workers /\ Extras' \subseteq Workers
  BY DEF Extras
<1>4. (wk[w].extra = "held" <=> t.extra = "held") => Extras' = Extras
  BY <1>1, <1>2 DEF Extras
<1>5. (wk[w].extra # "held" /\ t.extra = "held") => Extras' = Extras \cup {w} /\ w \notin Extras
  BY <1>1, <1>2 DEF Extras
<1>6. (wk[w].extra = "held" /\ t.extra # "held") => Extras' = Extras \ {w} /\ w \in Extras
  BY <1>1, <1>2 DEF Extras
<1>7. IsFiniteSet(Extras) /\ Cardinality(Extras) \in Nat /\ Cardinality(Extras') \in Nat
  BY <1>3, Finite
<1>8. /\ w \notin Extras => Cardinality(Extras \cup {w}) = Cardinality(Extras) + 1
      /\ w \in Extras => Cardinality(Extras \ {w}) = Cardinality(Extras) - 1
  BY <1>7, CountFacts
<1>9. QED
  BY <1>4, <1>5, <1>6, <1>7, <1>8

-----------------------------------------------------------------------------
(* Queue operations.                                                       *)

LEMMA PushBackFacts ==
    ASSUME QueueInv, NEW j \in Jobs, j \notin Queued, PushBack(j)
    PROVE  QueueInv' /\ Queued' = Queued \cup {j}
<1>1. j \notin ToSet(fore) /\ j \notin ToSet(back)
  BY DEF Queued
<1>2. CASE j \in Fore
  <2>1. fore' = Append(fore, j) /\ back' = back
    BY <1>2 DEF PushBack
  <2>2. fore' \in Seq(Jobs) /\ Once(fore') /\ ToSet(fore') = ToSet(fore) \cup {j}
    BY <1>1, <2>1, AppendFacts DEF QueueInv
  <2>3. QED
    BY <1>1, <2>1, <2>2 DEF QueueInv, Queued
<1>3. CASE j \notin Fore
  <2>1. back' = Append(back, j) /\ fore' = fore
    BY <1>3 DEF PushBack
  <2>2. back' \in Seq(Jobs) /\ Once(back') /\ ToSet(back') = ToSet(back) \cup {j}
    BY <1>1, <2>1, AppendFacts DEF QueueInv
  <2>3. QED
    BY <1>1, <2>1, <2>2 DEF QueueInv, Queued
<1>4. QED
  BY <1>2, <1>3

LEMMA PushFrontFacts ==
    ASSUME QueueInv, NEW j \in Jobs, j \notin Queued, PushFront(j)
    PROVE  QueueInv' /\ Queued' = Queued \cup {j}
<1>1. j \notin ToSet(fore) /\ j \notin ToSet(back)
  BY DEF Queued
<1>2. CASE j \in Fore
  <2>1. fore' = <<j>> \o fore /\ back' = back
    BY <1>2 DEF PushFront
  <2>2. fore' \in Seq(Jobs) /\ Once(fore') /\ ToSet(fore') = ToSet(fore) \cup {j}
    BY <1>1, <2>1, ConsFacts DEF QueueInv
  <2>3. QED
    BY <1>1, <2>1, <2>2 DEF QueueInv, Queued
<1>3. CASE j \notin Fore
  <2>1. back' = <<j>> \o back /\ fore' = fore
    BY <1>3 DEF PushFront
  <2>2. back' \in Seq(Jobs) /\ Once(back') /\ ToSet(back') = ToSet(back) \cup {j}
    BY <1>1, <2>1, ConsFacts DEF QueueInv
  <2>3. QED
    BY <1>1, <2>1, <2>2 DEF QueueInv, Queued
<1>4. QED
  BY <1>2, <1>3

LEMMA SameQueues ==
    ASSUME QueueInv, UNCHANGED <<fore, back>>
    PROVE  QueueInv' /\ Queued' = Queued
BY DEF QueueInv, Queued

-----------------------------------------------------------------------------
(* What a step that starts and ends nothing leaves alone.                  *)

(* The threads own the same jobs.                                          *)
SameOwners ==
    \A v \in Workers :
        /\ wk'[v].pc \in Owning <=> wk[v].pc \in Owning
        /\ wk[v].pc \in Owning => wk'[v].job = wk[v].job

LEMMA QuietOwners ==
    ASSUME Quiet
    PROVE  SameOwners
BY DEF Quiet, Kept, SameOwners

LEMMA MoveOwners ==
    ASSUME NEW w \in Workers, NEW t, Moves(w, t), t.pc \in Owning,
           wk[w].pc \in Owning, t.job = wk[w].job
    PROVE  SameOwners
BY DEF Moves, Kept, SameOwners

LEMMA PlaceFrame ==
    ASSUME PlaceInv, SameOwners, Queued' = Queued, UNCHANGED <<known, waiters, calls>>
    PROVE  PlaceInv'
<1>1. \A v \in Workers : \A j : Owner(v, j)' <=> Owner(v, j)
  BY DEF SameOwners, Owner
<1>2. QED
  BY <1>1 DEF PlaceInv, SameOwners

LEMMA ResultFrame ==
    ASSUME ResultInv, Quiet, UNCHANGED <<known, results>>
    PROVE  ResultInv'
<1>1. /\ \A v \in Workers : wk[v].pc \in Owning => wk'[v] = wk[v]
      /\ \A v \in Workers : wk'[v].pc \in Owning => wk'[v] = wk[v]
  BY DEF Quiet, Kept
<1>2. \A j \in Jobs : Len(results'[j]) <= 1
  BY DEF ResultInv
<1>3. ASSUME NEW j \in known', results'[j] # <<>>
      PROVE  \E v \in Workers : Owner(v, j)' /\ wk'[v].pc \in {"release", "finish"} /\ ~wk'[v].retry
  <2>1. PICK v \in Workers : Owner(v, j) /\ wk[v].pc \in {"release", "finish"} /\ ~wk[v].retry
    BY <1>3 DEF ResultInv
  <2>2. QED
    BY <1>1, <2>1 DEF Owner
<1>4. \A v \in Workers : wk'[v].pc \in {"begin", "register", "run"} => ~wk'[v].retry
  BY <1>1 DEF ResultInv, Owning
<1>5. QED
  BY <1>2, <1>3, <1>4 DEF ResultInv

LEMMA MemFrame ==
    ASSUME MemInv, Quiet, UNCHANGED <<known, started, waiters, calls>>,
           \A j \in Jobs : mem'[j].listed => mem[j].listed
    PROVE  MemInv'
BY DEF MemInv, Quiet, Kept

LEMMA AttemptFrame ==
    ASSUME AttemptInv, Quiet, attempt \subseteq attempt', UNCHANGED token, flag \subseteq flag'
    PROVE  AttemptInv'
BY DEF AttemptInv, Quiet, Kept, Owning

LEMMA CountFrame ==
    ASSUME CountInv, Quiet, WorkerTypes, UNCHANGED <<active, parked, credits, waiters, calls>>
    PROVE  CountInv'
<1>1. /\ At(Owning \ {"park"})' = At(Owning \ {"park"})
      /\ At({"park"})' = At({"park"}) /\ At(Paying)' = At(Paying) /\ Extras' = Extras
  BY QuietCounts DEF Owning, Paying
<1>2. \A v \in Workers : wk'[v].extra = "held" => wk'[v].pc = "run"
  BY DEF CountInv, Quiet, Kept, Owning
<1>3. QED
  BY <1>1, <1>2 DEF CountInv

-----------------------------------------------------------------------------
(* The main thread.                                                        *)

(* Steps that change nothing the invariant speaks of but sleeping threads  *)
(* and the main thread's own place.                                        *)
LEMMA IdleSteps ==
    ASSUME ExecInv, Quiet, StateTypes',
           UNCHANGED <<queueVars, credits, cancelVars, started, memVars, results, tries>>
    PROVE  ExecInv'
<1>1. QueueInv' /\ Queued' = Queued
  BY SameQueues DEF ExecInv, queueVars
<1>2. PlaceInv'
  BY <1>1, QuietOwners, PlaceFrame DEF ExecInv, cancelVars, memVars
<1>3. ResultInv'
  BY ResultFrame DEF ExecInv, cancelVars
<1>4. MemInv'
  BY MemFrame DEF ExecInv, cancelVars, memVars
<1>5. AttemptInv'
  BY AttemptFrame DEF ExecInv, cancelVars
<1>6. CountInv'
  BY CountFrame DEF ExecInv, queueVars, memVars
<1>7. QED
  BY <1>1, <1>2, <1>3, <1>4, <1>5, <1>6 DEF ExecInv, Quiet

LEMMA StillSteps ==
    ASSUME ExecInv,
           \/ Shutdown \/ AwaitDrain \/ Stop \/ Join \/ MemoryChanges
           \/ (\E w \in Workers : Fall(w)) \/ UNCHANGED vars
    PROVE  ExecInv'
<1>1. Quiet
  <2>1. CASE \E w \in Workers : Fall(w)
    <3>1. PICK w \in Workers : Fall(w)
      BY <2>1
    <3>2. wk \in [Workers -> Threads] /\ wk[w].pc = "falling" /\ wk' = [wk EXCEPT ![w].pc = "asleep"]
      BY <3>1 DEF Fall, ExecInv, WorkerTypes
    <3>3. wk' \in [Workers -> Threads]
      BY <3>2 DEF Threads, PCs
    <3>4. \A v \in Workers : Kept(v)
      BY <3>2 DEF Kept, Threads, Owning
    <3>5. QED
      BY <3>3, <3>4 DEF Quiet, WorkerTypes
  <2>2. CASE Stop
    BY <2>2, QuietFacts DEF Stop, ExecInv
  <2>3. CASE Shutdown \/ AwaitDrain \/ Join \/ MemoryChanges \/ UNCHANGED vars
    BY <2>3, QuietFacts DEF Shutdown, AwaitDrain, Join, MemoryChanges, vars, ExecInv
  <2>4. QED
    BY <2>1, <2>2, <2>3
<1>2. UNCHANGED <<queueVars, credits, cancelVars, started, memVars, results, tries>>
  BY DEF Shutdown, AwaitDrain, Stop, Join, MemoryChanges, Fall, vars
<1>3. /\ main' \in [pc : {"serve", "withdraw", "drain", "asleep", "stop", "join", "done"},
                    job : Jobs \cup {None}]
      /\ main'.pc = "withdraw" => main'.job \in Jobs
  BY DEF Shutdown, AwaitDrain, Stop, Join, MemoryChanges, Fall, vars, ExecInv, StateTypes
<1>4. StateTypes'
  BY <1>2, <1>3 DEF ExecInv, StateTypes, queueVars, cancelVars, memVars
<1>5. QED
  BY <1>1, <1>2, <1>4, IdleSteps

LEMMA SubmitStep ==
    ASSUME ExecInv, NEW j \in Jobs, Submit(j)
    PROVE  ExecInv'
<1>1. /\ j \notin known /\ results[j] = <<>>
      /\ UNCHANGED <<active, parked, credits, token, attempt, flag, started, memVars, main, tries>>
  BY DEF Submit
<1>2. CASE Len(fore) + Len(back) + parked >= QueueCapacity
  <2>1. /\ results' = [results EXCEPT ![j] = Append(@, "backpressure")]
        /\ UNCHANGED <<fore, back, known, wk>>
    BY <1>2 DEF Submit
  <2>2. Quiet
    BY <2>1, QuietFacts DEF ExecInv
  <2>3. QueueInv' /\ Queued' = Queued
    BY <2>1, SameQueues DEF ExecInv
  <2>4. /\ results' \in [Jobs -> Seq({"backpressure", "cancelled", "finished"})]
        /\ Len(results'[j]) <= 1 /\ \A k \in Jobs : k # j => results'[k] = results[k]
    <3>1. results \in [Jobs -> Seq({"backpressure", "cancelled", "finished"})]
      BY DEF ExecInv, StateTypes
    <3>2. Append(results[j], "backpressure") \in Seq({"backpressure", "cancelled", "finished"})
          /\ Len(Append(results[j], "backpressure")) = 1
      BY <1>1, <3>1
    <3>3. QED
      BY <2>1, <3>1, <3>2
  <2>5. StateTypes'
    BY <1>1, <2>1, <2>4 DEF ExecInv, StateTypes, memVars
  <2>6. ResultInv'
    <3>1. ASSUME NEW k \in Jobs PROVE Len(results'[k]) <= 1
      <4>1. Len(results[k]) <= 1
        BY DEF ExecInv, ResultInv
      <4>2. CASE k = j
        BY <2>4, <4>2
      <4>3. CASE k # j
        BY <2>4, <4>1, <4>3
      <4>4. QED
        BY <4>2, <4>3
    <3>2. known' = known /\ wk' = wk /\ known \subseteq Jobs
      BY <2>1 DEF ExecInv, StateTypes
    <3>3. \A k \in known : results'[k] = results[k]
      BY <1>1, <2>4, <3>2
    <3>4. QED
      BY <3>1, <3>2, <3>3 DEF ExecInv, ResultInv, Owner
  <2>7. PlaceInv'
    BY <1>1, <2>1, <2>2, <2>3, QuietOwners, PlaceFrame DEF ExecInv, memVars
  <2>8. MemInv' /\ AttemptInv' /\ CountInv'
    BY <1>1, <2>1, <2>2, MemFrame, AttemptFrame, CountFrame DEF ExecInv, memVars
  <2>9. QED
    BY <2>2, <2>3, <2>5, <2>6, <2>7, <2>8 DEF ExecInv, Quiet
<1>3. CASE ~(Len(fore) + Len(back) + parked >= QueueCapacity)
  <2>1. /\ PushBack(j) /\ known' = known \cup {j} /\ wk' = NotifiedOne(wk)
        /\ UNCHANGED results
    BY <1>3 DEF Submit
  <2>2. Quiet
    BY <2>1, QuietFacts DEF ExecInv
  <2>3. j \notin Queued
    BY <1>1 DEF ExecInv, PlaceInv
  <2>4. QueueInv' /\ Queued' = Queued \cup {j}
    BY <2>1, <2>3, PushBackFacts DEF ExecInv
  <2>5. StateTypes'
    BY <1>1, <2>1 DEF ExecInv, StateTypes, memVars
  <2>6. SameOwners
    BY <2>2, QuietOwners
  <2>7. PlaceInv'
    <3>1. \A v \in Workers : \A k : Owner(v, k)' <=> Owner(v, k)
      BY <2>6 DEF SameOwners, Owner
    <3>2. waiters' = waiters /\ calls' = calls
      BY <1>1 DEF memVars
    <3>3. QED
      BY <1>1, <2>1, <2>4, <2>6, <3>1, <3>2 DEF ExecInv, PlaceInv, SameOwners
  <2>8. ResultInv'
    <3>1. /\ \A v \in Workers : wk[v].pc \in Owning => wk'[v] = wk[v]
          /\ \A v \in Workers : wk'[v].pc \in Owning => wk'[v] = wk[v]
      BY <2>2 DEF Quiet, Kept
    <3>2. ASSUME NEW k \in known', results'[k] # <<>>
          PROVE  \E v \in Workers : Owner(v, k)' /\ wk'[v].pc \in {"release", "finish"} /\ ~wk'[v].retry
      <4>1. k \in known /\ results[k] # <<>>
        BY <1>1, <2>1, <3>2
      <4>2. PICK v \in Workers : Owner(v, k) /\ wk[v].pc \in {"release", "finish"} /\ ~wk[v].retry
        BY <4>1 DEF ExecInv, ResultInv
      <4>3. QED
        BY <3>1, <4>2 DEF Owner
    <3>3. \A v \in Workers : wk'[v].pc \in {"begin", "register", "run"} => ~wk'[v].retry
      BY <3>1 DEF ExecInv, ResultInv, Owning
    <3>4. QED
      BY <2>1, <3>2, <3>3 DEF ExecInv, ResultInv
  <2>9. MemInv'
    BY <1>1, <2>1, <2>2 DEF ExecInv, MemInv, memVars, Quiet, Kept
  <2>10. AttemptInv' /\ CountInv'
    BY <1>1, <2>1, <2>2, AttemptFrame, CountFrame DEF ExecInv, memVars
  <2>11. QED
    BY <2>2, <2>4, <2>5, <2>7, <2>8, <2>9, <2>10 DEF ExecInv, Quiet
<1>4. QED
  BY <1>2, <1>3

(* A cancel finds the attempt of a running job registered.                 *)
LEMMA CancelStep ==
    ASSUME ExecInv, NEW j \in Jobs, Cancel(j)
    PROVE  ExecInv'
<1>1. /\ token' = token \cup {j}
      /\ flag' = IF j \in attempt THEN flag \cup {j} ELSE flag
      /\ main' = [pc |-> "withdraw", job |-> j]
      /\ UNCHANGED <<queueVars, credits, known, attempt, started, memVars, wk, results, tries>>
  BY DEF Cancel
<1>2. Quiet
  BY <1>1, QuietFacts DEF ExecInv
<1>3. QueueInv' /\ Queued' = Queued
  BY <1>1, SameQueues DEF ExecInv, queueVars
<1>4. StateTypes'
  BY <1>1 DEF ExecInv, StateTypes, queueVars, memVars
<1>5. PlaceInv'
  BY <1>1, <1>2, <1>3, QuietOwners, PlaceFrame DEF ExecInv, memVars
<1>6. ResultInv' /\ MemInv' /\ CountInv'
  BY <1>1, <1>2, ResultFrame, MemFrame, CountFrame DEF ExecInv, memVars, queueVars
<1>7. AttemptInv'
  <2>1. flag \subseteq flag' /\ (j \in attempt => j \in flag')
    BY <1>1
  <2>2. ASSUME NEW w \in Workers, wk[w].pc = "run"
        PROVE  wk[w].job \in attempt /\ (wk[w].job \in token' => wk[w].job \in flag')
    BY <1>1, <2>1, <2>2 DEF ExecInv, AttemptInv
  <2>3. wk' = wk /\ attempt' = attempt
    BY <1>1
  <2>4. QED
    BY <2>2, <2>3 DEF AttemptInv
<1>8. QED
  BY <1>2, <1>3, <1>4, <1>5, <1>6, <1>7 DEF ExecInv, Quiet

(* The canceller takes a queued job away: it is in no other place, so      *)
(* nobody prints another result for it.                                    *)
LEMMA WithdrawStep ==
    ASSUME ExecInv, Withdraw
    PROVE  ExecInv'
<1> DEFINE j == main.job
<1>1. /\ j \in Jobs /\ main' = [pc |-> "serve", job |-> None]
      /\ UNCHANGED <<active, parked, credits, token, attempt, flag, started, waiters, calls, tries>>
  BY DEF Withdraw, ExecInv, StateTypes
<1>2. CASE j \notin Queued
  <2>1. wk' = NotifiedAll(wk) /\ UNCHANGED <<fore, back, mem, known, results>>
    BY <1>2 DEF Withdraw
  <2>2. Quiet
    BY <2>1, QuietFacts DEF ExecInv
  <2>3. StateTypes'
    BY <1>1, <2>1 DEF ExecInv, StateTypes
  <2>4. QED
    BY <1>1, <2>1, <2>2, <2>3, IdleSteps DEF queueVars, cancelVars, memVars
<1>3. CASE j \in Queued
  <2>1. /\ fore' = Erased(fore, j) /\ back' = Erased(back, j)
        /\ mem' = IF j \in started THEN [mem EXCEPT ![j] = Ended(@)] ELSE mem
        /\ known' = known \ {j}
        /\ results' = [results EXCEPT ![j] = Append(@, "cancelled")]
        /\ wk' = wk
    BY <1>3 DEF Withdraw
  <2> HIDE DEF j
  <2>2. Quiet
    BY <2>1, QuietFacts DEF ExecInv
  <2>3. QueueInv' /\ Queued' = Queued \ {j}
    <3>1. /\ fore' \in Seq(Jobs) /\ Once(fore') /\ ToSet(fore') = ToSet(fore) \ {j}
          /\ back' \in Seq(Jobs) /\ Once(back') /\ ToSet(back') = ToSet(back) \ {j}
      BY <2>1, ErasedFacts DEF ExecInv, QueueInv
    <3>2. QED
      BY <3>1 DEF ExecInv, QueueInv, Queued
  <2>4. /\ j \in known /\ j \notin waiters /\ j \notin calls
        /\ \A w \in Workers : ~Owner(w, j)
    BY <1>3 DEF ExecInv, PlaceInv, Owner
  <2>5. results[j] = <<>>
    BY <2>4 DEF ExecInv, ResultInv
  <2>6. /\ results' \in [Jobs -> Seq({"backpressure", "cancelled", "finished"})]
        /\ Len(results'[j]) <= 1 /\ \A k \in Jobs : k # j => results'[k] = results[k]
    <3>1. results \in [Jobs -> Seq({"backpressure", "cancelled", "finished"})]
      BY DEF ExecInv, StateTypes
    <3>2. Append(results[j], "cancelled") \in Seq({"backpressure", "cancelled", "finished"})
          /\ Len(Append(results[j], "cancelled")) = 1
      BY <2>5, <3>1
    <3>3. QED
      BY <1>1, <2>1, <3>1, <3>2
  <2>7. /\ mem' \in [Jobs -> [listed : BOOLEAN, running : BOOLEAN,
                              admitted : BOOLEAN, revoked : BOOLEAN]]
        /\ ~mem'[j].listed /\ \A k \in Jobs : k # j => mem'[k] = mem[k]
    <3>1. mem \in [Jobs -> [listed : BOOLEAN, running : BOOLEAN,
                            admitted : BOOLEAN, revoked : BOOLEAN]]
          /\ (j \notin started => ~mem[j].listed)
      BY <1>1 DEF ExecInv, StateTypes, MemInv
    <3>2. QED
      BY <1>1, <2>1, <3>1, MemEnded
  <2>8. StateTypes'
    BY <1>1, <2>1, <2>6, <2>7 DEF ExecInv, StateTypes
  <2>9. PlaceInv'
    <3>1. \A v \in Workers : \A k : Owner(v, k)' <=> Owner(v, k)
      BY <2>1 DEF Owner
    <3>2. \A v \in Workers : wk[v].pc \in Owning => wk[v].job # j
      BY <2>4 DEF Owner
    <3>3. QED
      BY <1>1, <2>1, <2>3, <2>4, <3>1, <3>2 DEF ExecInv, PlaceInv
  <2>10. ResultInv'
    <3>1. known \subseteq Jobs
      BY DEF ExecInv, StateTypes
    <3>2. \A k \in known' : results'[k] = results[k] /\ k \in known
      BY <2>1, <2>6, <3>1
    <3>3. ASSUME NEW k \in Jobs PROVE Len(results'[k]) <= 1
      <4>1. Len(results[k]) <= 1
        BY DEF ExecInv, ResultInv
      <4>2. CASE k = j
        BY <2>6, <4>2
      <4>3. CASE k # j
        BY <2>6, <4>1, <4>3
      <4>4. QED
        BY <4>2, <4>3
    <3>4. QED
      BY <2>1, <3>2, <3>3 DEF ExecInv, ResultInv, Owner
  <2>11. MemInv'
    <3>1. \A k \in Jobs : mem'[k].listed => k # j /\ mem[k].listed
      BY <2>7
    <3>2. \A k \in Jobs : mem'[k].listed => k \in known' /\ k \in started'
      BY <1>1, <2>1, <3>1 DEF ExecInv, MemInv
    <3>3. QED
      BY <1>1, <2>1, <3>2 DEF ExecInv, MemInv
  <2>12. AttemptInv' /\ CountInv'
    BY <1>1, <2>1, <2>2, AttemptFrame, CountFrame DEF ExecInv
  <2>13. QED
    BY <2>2, <2>3, <2>8, <2>9, <2>10, <2>11, <2>12 DEF ExecInv, Quiet
<1>4. QED
  BY <1>2, <1>3

-----------------------------------------------------------------------------
(* What a thread leaves alone while it goes on with its job.               *)

LEMMA ResultMove ==
    ASSUME ResultInv, NEW w \in Workers, NEW t, Moves(w, t), UNCHANGED <<known, results>>,
           t.pc \in Owning, t.job = wk[w].job,
           (wk[w].pc \in {"release", "finish"} /\ ~wk[w].retry)
               => (t.pc \in {"release", "finish"} /\ ~t.retry),
           t.pc \in {"begin", "register", "run"} => ~t.retry
    PROVE  ResultInv'
<1>1. /\ \A v \in Workers : v # w /\ wk[v].pc \in Owning => wk'[v] = wk[v]
      /\ \A v \in Workers : v # w /\ wk'[v].pc \in Owning => wk'[v] = wk[v]
      /\ wk'[w] = t
  BY DEF Moves, Kept
<1>2. \A j \in Jobs : Len(results'[j]) <= 1
  BY DEF ResultInv
<1>3. ASSUME NEW j \in known', results'[j] # <<>>
      PROVE  \E v \in Workers : Owner(v, j)' /\ wk'[v].pc \in {"release", "finish"} /\ ~wk'[v].retry
  <2>1. PICK v \in Workers : Owner(v, j) /\ wk[v].pc \in {"release", "finish"} /\ ~wk[v].retry
    BY <1>3 DEF ResultInv
  <2>2. CASE v = w
    BY <1>1, <2>1, <2>2 DEF Owner
  <2>3. CASE v # w
    BY <1>1, <2>1, <2>3 DEF Owner
  <2>4. QED
    BY <2>2, <2>3
<1>4. \A v \in Workers : wk'[v].pc \in {"begin", "register", "run"} => ~wk'[v].retry
  BY <1>1 DEF ResultInv, Owning
<1>5. QED
  BY <1>2, <1>3, <1>4 DEF ResultInv

LEMMA MemMove ==
    ASSUME MemInv, NEW w \in Workers, NEW t, Moves(w, t),
           UNCHANGED <<known, started, waiters, calls>>,
           t.job = wk[w].job, wk[w].pc \in Owning \ {"begin"},
           \A j \in Jobs : mem'[j].listed => mem[j].listed
    PROVE  MemInv'
BY DEF MemInv, Moves, Kept

LEMMA AttemptMove ==
    ASSUME AttemptInv, NEW w \in Workers, NEW t, Moves(w, t), UNCHANGED <<attempt, token>>,
           flag \subseteq flag', t.pc = "run" => wk[w].pc = "run" /\ t.job = wk[w].job
    PROVE  AttemptInv'
BY DEF AttemptInv, Moves, Kept, Owning

(* The counters, when a thread moves: what each place it leaves or enters  *)
(* adds and takes.                                                         *)
LEMMA CountMove ==
    ASSUME CountInv, WorkerTypes, NEW w \in Workers, NEW t \in Threads, Moves(w, t),
           t.extra = "held" => t.pc = "run"
    PROVE  /\ \A v \in Workers : wk'[v].extra = "held" => wk'[v].pc = "run"
           /\ Cardinality(At(Owning \ {"park"})) \in Nat /\ Cardinality(At({"park"})) \in Nat
           /\ Cardinality(At(Paying)) \in Nat /\ Cardinality(Extras) \in Nat
<1>1. \A v \in Workers : wk'[v].extra = "held" => wk'[v].pc = "run"
  BY DEF CountInv, Moves, Kept, Owning
<1>2. /\ Cardinality(At(Owning \ {"park"})) \in Nat /\ Cardinality(At({"park"})) \in Nat
      /\ Cardinality(At(Paying)) \in Nat /\ Cardinality(Extras) \in Nat
  BY Finite DEF At, Extras
<1>3. QED
  BY <1>1, <1>2

(* Moves between two places that count alike.                              *)
LEMMA CountSame ==
    ASSUME CountInv, WorkerTypes, NEW w \in Workers, NEW t \in Threads, Moves(w, t),
           UNCHANGED <<active, parked, credits, waiters, calls>>,
           wk[w].pc \in Paying, t.pc \in Paying,
           wk[w].extra = "held" <=> t.extra = "held",
           t.extra = "held" => t.pc = "run"
    PROVE  CountInv'
<1>1. /\ Cardinality(At(Owning \ {"park"})') = Cardinality(At(Owning \ {"park"}))
      /\ Cardinality(At({"park"})') = Cardinality(At({"park"}))
      /\ Cardinality(At(Paying)') = Cardinality(At(Paying))
  BY MoveCounts DEF Owning, Paying
<1>2. Cardinality(Extras') = Cardinality(Extras)
  BY MoveExtras
<1>3. \A v \in Workers : wk'[v].extra = "held" => wk'[v].pc = "run"
  BY CountMove
<1>4. QED
  BY <1>1, <1>2, <1>3 DEF CountInv

-----------------------------------------------------------------------------
(* A worker thread.                                                        *)

LEMMA TestStep ==
    ASSUME ExecInv, NEW w \in Workers, Test(w)
    PROVE  ExecInv'
<1>1. wk[w].pc = "test" /\ wk \in [Workers -> Threads]
      /\ UNCHANGED <<parked, cancelVars, started, memVars, main, results, tries>>
  BY DEF Test, ExecInv, WorkerTypes
<1>2. CASE ~(Queued # {} /\ credits < Capacity)
  <2>1. /\ UNCHANGED <<fore, back, active, credits>>
        /\ wk' = [wk EXCEPT ![w].pc = "exited"] \/ wk' = [wk EXCEPT ![w].pc = "falling"]
    BY <1>2 DEF Test
  <2>2. wk' \in [Workers -> Threads]
    BY <1>1, <2>1 DEF Threads, PCs
  <2>3. \A v \in Workers : Kept(v)
    BY <1>1, <2>1 DEF Kept, Threads, Owning
  <2>4. Quiet
    BY <2>2, <2>3 DEF Quiet, WorkerTypes
  <2>5. StateTypes'
    BY <1>1, <2>1 DEF ExecInv, StateTypes, cancelVars, memVars
  <2>6. QED
    BY <1>1, <2>1, <2>4, <2>5, IdleSteps DEF queueVars
<1>3. CASE Queued # {} /\ credits < Capacity
  <2> DEFINE j == IF fore # <<>> THEN Head(fore) ELSE Head(back)
             b == Len(fore) + Len(back) > 1 /\ credits + 1 < Capacity
             t == [Thread("begin", j) EXCEPT !.baton = b]
  <2>1. /\ credits' = credits + 1 /\ active' = active + 1
        /\ IF fore # <<>> THEN fore' = Tail(fore) /\ UNCHANGED back
           ELSE back' = Tail(back) /\ UNCHANGED fore
        /\ wk' = [wk EXCEPT ![w] = t]
    BY <1>3 DEF Test
  <2>2. b \in BOOLEAN
    OBVIOUS
  <2>3. QueueInv' /\ j \in Jobs /\ j \in Queued /\ Queued' = Queued \ {j}
    <3>0. QueueInv
      BY DEF ExecInv
    <3>1. CASE fore # <<>>
      <4>1. j = Head(fore) /\ fore' = Tail(fore) /\ back' = back
        BY <2>1, <3>1
      <4>2. /\ fore' \in Seq(Jobs) /\ Once(fore') /\ j \in ToSet(fore) /\ j \in Jobs
            /\ ToSet(fore') = ToSet(fore) \ {j}
        BY <3>0, <3>1, <4>1, TailFacts DEF QueueInv
      <4> HIDE DEF j
      <4>3. QED
        BY <3>0, <4>1, <4>2 DEF QueueInv, Queued
    <3>2. CASE fore = <<>>
      <4>1. j = Head(back) /\ back' = Tail(back) /\ fore' = fore
        BY <2>1, <3>2
      <4>2. back # <<>>
        BY <1>3, <3>2 DEF Queued, ToSet
      <4>3. /\ back' \in Seq(Jobs) /\ Once(back') /\ j \in ToSet(back) /\ j \in Jobs
            /\ ToSet(back') = ToSet(back) \ {j}
        BY <3>0, <4>1, <4>2, TailFacts DEF QueueInv
      <4> HIDE DEF j
      <4>4. QED
        BY <3>0, <4>1, <4>3 DEF QueueInv, Queued
    <3>3. QED
      BY <3>1, <3>2
  <2> HIDE DEF j, b
  <2>4. /\ t \in Threads /\ t.pc = "begin" /\ t.job = j /\ t.extra = "no" /\ t.retry = FALSE
    BY <2>2, <2>3 DEF Thread, Threads, PCs, Owning
  <2> HIDE DEF t
  <2>5. Moves(w, t)
    <3>1. /\ wk' \in [Workers -> Threads] /\ wk'[w] = t
          /\ \A v \in Workers : v # w => wk'[v] = wk[v]
      BY <1>1, <2>1, <2>4
    <3>2. QED
      BY <3>1, <2>4, MovesFacts DEF ExecInv
  <2>6. /\ \A v \in Workers : v # w /\ wk[v].pc \in Owning => wk'[v] = wk[v]
        /\ \A v \in Workers : v # w /\ wk'[v].pc \in Owning => wk'[v] = wk[v]
        /\ wk'[w] = t /\ wk[w].pc \notin Owning
    BY <1>1, <2>5 DEF Moves, Kept, Owning
  <2>7. /\ j \in known /\ j \notin waiters /\ j \notin calls
        /\ \A v \in Workers : ~Owner(v, j)
    BY <2>3 DEF ExecInv, PlaceInv, Owner
  <2>8. StateTypes'
    BY <1>1, <2>1 DEF ExecInv, StateTypes, cancelVars, memVars
  <2>9. PlaceInv'
    <3>1. \A v \in Workers : \A k : v # w => (Owner(v, k)' <=> Owner(v, k))
      BY <2>6 DEF Owner
    <3>2. \A k : Owner(w, k)' <=> k = j
      BY <2>4, <2>6 DEF Owner, Owning
    <3>3. \A k : ~Owner(w, k)
      BY <2>6 DEF Owner
    <3>4. UNCHANGED <<known, waiters, calls>>
      BY <1>1 DEF cancelVars, memVars
    <3>5. \A v \in Workers : \A k : wk'[v].pc \in Owning /\ wk'[v].job = k => Owner(v, k)'
      BY DEF Owner
    <3>6. \A v \in Workers : \A k : Owner(v, k) => k \in known /\ k \notin Queued \cup waiters \cup calls
      BY DEF ExecInv, PlaceInv, Owner
    <3>7. \A v \in Workers : \A k : Owner(v, k)' => k \in known' /\ k \notin (Queued \cup waiters \cup calls)'
      BY <2>3, <2>7, <3>1, <3>2, <3>4, <3>6
    <3>8. \A v, u \in Workers : \A k \in Jobs : Owner(v, k)' /\ Owner(u, k)' => v = u
      BY <2>7, <3>1, <3>2 DEF ExecInv, PlaceInv
    <3>9. \A k \in known' : \/ k \in (Queued \cup waiters \cup calls)'
                            \/ \E v \in Workers : Owner(v, k)'
      <4>1. ASSUME NEW k \in known, k # j
            PROVE  k \in (Queued \cup waiters \cup calls)' \/ \E v \in Workers : Owner(v, k)'
        <5>1. k \in Queued \cup waiters \cup calls \/ \E v \in Workers : Owner(v, k)
          BY DEF ExecInv, PlaceInv
        <5>2. QED
          BY <2>3, <3>1, <3>3, <3>4, <4>1, <5>1
      <4>2. QED
        BY <3>2, <3>4, <4>1
    <3>10. QED
      BY <2>3, <3>4, <3>5, <3>7, <3>8, <3>9 DEF ExecInv, PlaceInv
  <2>10. ResultInv'
    <3>1. UNCHANGED <<known, results>>
      BY <1>1 DEF cancelVars
    <3>2. ASSUME NEW k \in known', results'[k] # <<>>
          PROVE  \E v \in Workers : Owner(v, k)' /\ wk'[v].pc \in {"release", "finish"} /\ ~wk'[v].retry
      <4>1. PICK v \in Workers : Owner(v, k) /\ wk[v].pc \in {"release", "finish"} /\ ~wk[v].retry
        BY <3>1, <3>2 DEF ExecInv, ResultInv
      <4>2. v # w
        BY <2>6, <4>1 DEF Owner
      <4>3. QED
        BY <2>6, <4>1, <4>2 DEF Owner
    <3>3. \A v \in Workers : wk'[v].pc \in {"begin", "register", "run"} => ~wk'[v].retry
      BY <2>4, <2>6 DEF ExecInv, ResultInv, Owning
    <3>4. QED
      BY <3>1, <3>2, <3>3 DEF ExecInv, ResultInv
  <2>11. MemInv'
    <3>1. UNCHANGED <<known, started, mem, waiters, calls>>
      BY <1>1 DEF cancelVars, memVars
    <3>2. \A v \in Workers : wk'[v].pc \in Owning \ {"begin"} => wk'[v].job \in started
      BY <2>4, <2>6 DEF ExecInv, MemInv
    <3>3. QED
      BY <3>1, <3>2 DEF ExecInv, MemInv
  <2>12. AttemptInv'
    <3>1. AttemptInv /\ UNCHANGED <<attempt, token, flag>>
      BY <1>1 DEF ExecInv, cancelVars
    <3>2. QED
      BY <2>4, <2>5, <3>1, AttemptMove
  <2>13. CountInv'
    <3>0. CountInv /\ WorkerTypes /\ wk[w].extra # "held"
      BY <1>1 DEF ExecInv, CountInv
    <3>1. /\ Cardinality(At(Owning \ {"park"})') = Cardinality(At(Owning \ {"park"})) + 1
          /\ Cardinality(At({"park"})') = Cardinality(At({"park"}))
          /\ Cardinality(At(Paying)') = Cardinality(At(Paying)) + 1
      BY <1>1, <2>4, <2>5, <3>0, MoveCounts DEF Owning, Paying
    <3>2. Cardinality(Extras') = Cardinality(Extras)
      BY <2>4, <2>5, <3>0, MoveExtras
    <3>3. /\ \A v \in Workers : wk'[v].extra = "held" => wk'[v].pc = "run"
          /\ Cardinality(At(Paying)) \in Nat /\ Cardinality(Extras) \in Nat
      BY <2>4, <2>5, <3>0, CountMove
    <3>4. UNCHANGED <<parked, waiters, calls>> /\ Capacity \in Nat /\ credits \in Int
      BY <1>1, ExecutorAssumption DEF memVars, ExecInv, StateTypes
    <3>5. credits' <= Capacity
      BY <1>3, <2>1, <3>4
    <3>6. QED
      BY <2>1, <3>0, <3>1, <3>2, <3>3, <3>4, <3>5 DEF CountInv
  <2>14. QED
    BY <2>3, <2>5, <2>8, <2>9, <2>10, <2>11, <2>12, <2>13 DEF ExecInv, Moves
<1>4. QED
  BY <1>2, <1>3

(* A thread that goes on with its job: the queues and places stay.         *)
LEMMA GoesOn ==
    ASSUME ExecInv, NEW w \in Workers, NEW t, Moves(w, t), wk[w].pc \in Owning,
           t.pc \in Owning, t.job = wk[w].job, UNCHANGED <<fore, back, known, waiters, calls>>
    PROVE  QueueInv' /\ PlaceInv'
<1>1. QueueInv' /\ Queued' = Queued
  BY SameQueues DEF ExecInv
<1>2. PlaceInv'
  BY <1>1, MoveOwners, PlaceFrame DEF ExecInv
<1>3. QED
  BY <1>1, <1>2

(* Begin forgets the flag of the last attempt; nobody else runs the job.   *)
LEMMA BeginStep ==
    ASSUME ExecInv, NEW w \in Workers, Begin(w)
    PROVE  ExecInv'
<1> DEFINE j == wk[w].job
           ws == [wk EXCEPT ![w].pc = "register", ![w].baton = FALSE]
           t == [wk[w] EXCEPT !.pc = "register", !.baton = FALSE]
<1>1. /\ wk[w].pc = "begin" /\ wk \in [Workers -> Threads]
      /\ wk' = ws \/ wk' = NotifiedOne(ws)
      /\ started' = started \cup {j}
      /\ mem' = [mem EXCEPT ![j].listed = TRUE, ![j].running = TRUE, ![j].revoked = FALSE]
      /\ flag' = flag \ {j}
      /\ UNCHANGED <<queueVars, credits, known, token, attempt, waiters, calls, main, results, tries>>
  BY DEF Begin, ExecInv, WorkerTypes
<1>2. j \in known /\ j \in Jobs /\ ~wk[w].retry
  BY <1>1 DEF ExecInv, PlaceInv, StateTypes, ResultInv, Owning
<1>3. /\ t \in Threads /\ t.pc = "register" /\ t.job = j /\ ~t.retry
      /\ t.extra = wk[w].extra
  BY <1>1, <1>2 DEF Threads, PCs, Owning
<1>4. Moves(w, t)
  <2>1. /\ ws \in [Workers -> Threads] /\ ws[w] = t
        /\ \A v \in Workers : v # w => ws[v] = wk[v]
    BY <1>1 DEF Threads, PCs, Owning
  <2> HIDE DEF ws, t
  <2>2. QED
    BY <1>1, <1>3, <2>1, MovesFacts DEF ExecInv
<1> HIDE DEF t, j
<1>5. QueueInv' /\ PlaceInv'
  BY <1>1, <1>3, <1>4, GoesOn DEF queueVars, Owning, j
<1>6. /\ mem' \in [Jobs -> [listed : BOOLEAN, running : BOOLEAN,
                            admitted : BOOLEAN, revoked : BOOLEAN]]
      /\ \A k \in Jobs : k # j => mem'[k] = mem[k]
  <2>1. mem \in [Jobs -> [listed : BOOLEAN, running : BOOLEAN,
                          admitted : BOOLEAN, revoked : BOOLEAN]]
    BY DEF ExecInv, StateTypes
  <2>2. mem' = [mem EXCEPT ![j] =
                   [mem[j] EXCEPT !.listed = TRUE, !.running = TRUE, !.revoked = FALSE]]
    BY <1>1, <1>2, <2>1
  <2>3. [mem[j] EXCEPT !.listed = TRUE, !.running = TRUE, !.revoked = FALSE]
           \in [listed : BOOLEAN, running : BOOLEAN, admitted : BOOLEAN, revoked : BOOLEAN]
    BY <1>2, <2>1
  <2>4. QED
    BY <1>2, <2>1, <2>2, <2>3
<1>7. StateTypes'
  BY <1>1, <1>2, <1>6 DEF ExecInv, StateTypes, queueVars
<1>8. ResultInv'
  BY <1>1, <1>3, <1>4, ResultMove DEF ExecInv, Owning, j
<1>9. MemInv'
  <2>1. \A k \in Jobs : mem'[k].listed => k \in known' /\ k \in started'
    BY <1>1, <1>2, <1>6 DEF ExecInv, MemInv
  <2>2. \A v \in Workers : wk'[v].pc \in Owning \ {"begin"} => wk'[v].job \in started'
    BY <1>1, <1>3, <1>4 DEF ExecInv, MemInv, Moves, Kept
  <2>3. waiters' \subseteq started' /\ calls' \subseteq started'
    BY <1>1 DEF ExecInv, MemInv
  <2>4. QED
    BY <2>1, <2>2, <2>3 DEF MemInv
<1>10. AttemptInv'
  <2>1. ASSUME NEW v \in Workers, wk'[v].pc = "run"
        PROVE  wk'[v].job \in attempt' /\ (wk'[v].job \in token' => wk'[v].job \in flag')
    <3>1. v # w /\ wk'[v] = wk[v]
      BY <1>3, <1>4, <2>1 DEF Moves, Kept, Owning
    <3>2. wk[v].job # j
      <4>1. Owner(v, wk[v].job) /\ Owner(w, j)
        BY <1>1, <2>1, <3>1 DEF Owner, Owning, j
      <4>2. QED
        BY <1>2, <3>1, <4>1 DEF ExecInv, PlaceInv
    <3>3. QED
      BY <1>1, <2>1, <3>1, <3>2 DEF ExecInv, AttemptInv
  <2>2. QED
    BY <2>1 DEF AttemptInv
<1>11. CountInv'
  <2>1. t.extra # "held" /\ wk[w].extra # "held"
    BY <1>1, <1>3 DEF ExecInv, CountInv
  <2>2. QED
    BY <1>1, <1>3, <1>4, <2>1, CountSame DEF ExecInv, Paying, queueVars
<1>12. QED
  BY <1>4, <1>5, <1>7, <1>8, <1>9, <1>10, <1>11 DEF ExecInv, Moves

(* Registration looks at the token again.                                  *)
LEMMA RegisterStep ==
    ASSUME ExecInv, NEW w \in Workers, Register(w)
    PROVE  ExecInv'
<1> DEFINE j == wk[w].job
           t == [wk[w] EXCEPT !.pc = "run"]
<1>1. /\ wk[w].pc = "register" /\ wk \in [Workers -> Threads]
      /\ wk' = [wk EXCEPT ![w].pc = "run"]
      /\ attempt' = IF j \in known THEN attempt \cup {j} ELSE attempt
      /\ flag' = IF j \in token THEN flag \cup {j} ELSE flag
      /\ UNCHANGED <<queueVars, credits, known, token, started, memVars, main, results, tries>>
  BY DEF Register, ExecInv, WorkerTypes
<1>2. j \in known /\ j \in Jobs /\ ~wk[w].retry
  BY <1>1 DEF ExecInv, PlaceInv, StateTypes, ResultInv, Owning
<1>3. /\ t \in Threads /\ t.pc = "run" /\ t.job = j /\ ~t.retry
      /\ t.extra = wk[w].extra
  BY <1>1, <1>2 DEF Threads, PCs, Owning
<1>4. Moves(w, t)
  <2>1. /\ wk' \in [Workers -> Threads] /\ wk'[w] = t
        /\ \A v \in Workers : v # w => wk'[v] = wk[v]
    BY <1>1 DEF Threads, PCs, Owning
  <2> HIDE DEF t
  <2>2. QED
    BY <1>1, <1>3, <2>1, MovesFacts DEF ExecInv
<1> HIDE DEF t, j
<1>5. QueueInv' /\ PlaceInv'
  BY <1>1, <1>3, <1>4, GoesOn DEF queueVars, memVars, Owning, j
<1>6. attempt \subseteq attempt' /\ j \in attempt' /\ flag \subseteq flag' /\ (j \in token => j \in flag')
  BY <1>1, <1>2
<1>7. StateTypes'
  BY <1>1, <1>2 DEF ExecInv, StateTypes, queueVars, memVars
<1>8. ResultInv'
  BY <1>1, <1>3, <1>4, ResultMove DEF ExecInv, Owning, j
<1>9. MemInv'
  BY <1>1, <1>3, <1>4, MemMove DEF ExecInv, Owning, memVars, j
<1>10. AttemptInv'
  <2>1. ASSUME NEW v \in Workers, wk'[v].pc = "run"
        PROVE  wk'[v].job \in attempt' /\ (wk'[v].job \in token' => wk'[v].job \in flag')
    <3>1. CASE v = w
      BY <1>1, <1>3, <1>4, <1>6, <3>1 DEF Moves
    <3>2. CASE v # w
      <4>1. wk'[v] = wk[v]
        BY <1>4, <2>1, <3>2 DEF Moves, Kept, Owning
      <4>2. QED
        BY <1>1, <1>6, <2>1, <4>1 DEF ExecInv, AttemptInv
    <3>3. QED
      BY <3>1, <3>2
  <2>2. QED
    BY <2>1 DEF AttemptInv
<1>11. CountInv'
  <2>1. t.extra # "held" /\ wk[w].extra # "held"
    BY <1>1, <1>3 DEF ExecInv, CountInv
  <2>2. QED
    BY <1>1, <1>3, <1>4, <2>1, CountSame DEF ExecInv, Paying, queueVars, memVars
<1>12. QED
  BY <1>4, <1>5, <1>7, <1>8, <1>9, <1>10, <1>11 DEF ExecInv, Moves

LEMMA BorrowStep ==
    ASSUME ExecInv, NEW w \in Workers, Borrow(w)
    PROVE  ExecInv'
<1> DEFINE t == [wk[w] EXCEPT !.extra = "held"]
<1>1. /\ wk[w].pc = "run" /\ wk[w].extra = "no" /\ credits < Capacity
      /\ wk \in [Workers -> Threads] /\ credits' = credits + 1
      /\ wk' = [wk EXCEPT ![w].extra = "held"]
      /\ UNCHANGED <<queueVars, cancelVars, started, memVars, main, results, tries>>
  BY DEF Borrow, ExecInv, WorkerTypes
<1>2. ~wk[w].retry
  BY <1>1 DEF ExecInv, ResultInv
<1>3. t \in Threads /\ t.pc = "run" /\ t.job = wk[w].job /\ ~t.retry /\ t.extra = "held"
  BY <1>1, <1>2 DEF Threads
<1>4. Moves(w, t)
  <2>1. /\ wk' \in [Workers -> Threads] /\ wk'[w] = t
        /\ \A v \in Workers : v # w => wk'[v] = wk[v]
    BY <1>1 DEF Threads
  <2> HIDE DEF t
  <2>2. QED
    BY <1>1, <1>3, <2>1, MovesFacts DEF ExecInv
<1> HIDE DEF t
<1>5. QueueInv' /\ PlaceInv'
  BY <1>1, <1>3, <1>4, GoesOn DEF queueVars, cancelVars, memVars, Owning
<1>6. StateTypes'
  BY <1>1 DEF ExecInv, StateTypes, queueVars, cancelVars, memVars
<1>7. ResultInv'
  BY <1>1, <1>3, <1>4, ResultMove DEF ExecInv, Owning, cancelVars
<1>8. MemInv'
  BY <1>1, <1>3, <1>4, MemMove DEF ExecInv, Owning, memVars, cancelVars
<1>9. AttemptInv'
  BY <1>1, <1>3, <1>4, AttemptMove DEF ExecInv, cancelVars
<1>10. CountInv'
  <2>0. CountInv /\ WorkerTypes
    BY DEF ExecInv
  <2>1. /\ Cardinality(At(Owning \ {"park"})') = Cardinality(At(Owning \ {"park"}))
        /\ Cardinality(At({"park"})') = Cardinality(At({"park"}))
        /\ Cardinality(At(Paying)') = Cardinality(At(Paying))
    BY <1>1, <1>3, <1>4, <2>0, MoveCounts DEF Owning, Paying
  <2>2. Cardinality(Extras') = Cardinality(Extras) + 1
    BY <1>1, <1>3, <1>4, <2>0, MoveExtras
  <2>3. /\ \A v \in Workers : wk'[v].extra = "held" => wk'[v].pc = "run"
        /\ Cardinality(At(Paying)) \in Nat /\ Cardinality(Extras) \in Nat
    BY <1>3, <1>4, <2>0, CountMove
  <2>4. UNCHANGED <<active, parked, waiters, calls>> /\ Capacity \in Nat /\ credits \in Int
    BY <1>1, ExecutorAssumption DEF memVars, queueVars, ExecInv, StateTypes
  <2>5. credits' <= Capacity
    BY <1>1, <2>4
  <2>6. QED
    BY <1>1, <2>0, <2>1, <2>2, <2>3, <2>4, <2>5 DEF CountInv
<1>11. QED
  BY <1>4, <1>5, <1>6, <1>7, <1>8, <1>9, <1>10 DEF ExecInv, Moves

LEMMA GiveBackStep ==
    ASSUME ExecInv, NEW w \in Workers, GiveBack(w)
    PROVE  ExecInv'
<1> DEFINE t == [wk[w] EXCEPT !.extra = "returned"]
           ws == [wk EXCEPT ![w].extra = "returned"]
<1>1. /\ wk[w].pc = "run" /\ wk[w].extra = "held"
      /\ wk \in [Workers -> Threads] /\ credits' = credits - 1
      /\ wk' = ws \/ wk' = NotifiedOne(ws)
      /\ UNCHANGED <<queueVars, cancelVars, started, memVars, main, results, tries>>
  BY DEF GiveBack, ReleaseCredit, ExecInv, WorkerTypes
<1>2. ~wk[w].retry
  BY <1>1 DEF ExecInv, ResultInv
<1>3. t \in Threads /\ t.pc = "run" /\ t.job = wk[w].job /\ ~t.retry /\ t.extra = "returned"
  BY <1>1, <1>2 DEF Threads
<1>4. Moves(w, t)
  <2>1. /\ ws \in [Workers -> Threads] /\ ws[w] = t
        /\ \A v \in Workers : v # w => ws[v] = wk[v]
    BY <1>1 DEF Threads
  <2> HIDE DEF t, ws
  <2>2. QED
    BY <1>1, <1>3, <2>1, MovesFacts DEF ExecInv
<1> HIDE DEF t, ws
<1>5. QueueInv' /\ PlaceInv'
  BY <1>1, <1>3, <1>4, GoesOn DEF queueVars, cancelVars, memVars, Owning
<1>6. StateTypes'
  BY <1>1 DEF ExecInv, StateTypes, queueVars, cancelVars, memVars
<1>7. ResultInv'
  BY <1>1, <1>3, <1>4, ResultMove DEF ExecInv, Owning, cancelVars
<1>8. MemInv'
  BY <1>1, <1>3, <1>4, MemMove DEF ExecInv, Owning, memVars, cancelVars
<1>9. AttemptInv'
  BY <1>1, <1>3, <1>4, AttemptMove DEF ExecInv, cancelVars
<1>10. CountInv'
  <2>0. CountInv /\ WorkerTypes
    BY DEF ExecInv
  <2>1. /\ Cardinality(At(Owning \ {"park"})') = Cardinality(At(Owning \ {"park"}))
        /\ Cardinality(At({"park"})') = Cardinality(At({"park"}))
        /\ Cardinality(At(Paying)') = Cardinality(At(Paying))
    BY <1>1, <1>3, <1>4, <2>0, MoveCounts DEF Owning, Paying
  <2>2. Cardinality(Extras') = Cardinality(Extras) - 1
    BY <1>1, <1>3, <1>4, <2>0, MoveExtras
  <2>3. /\ \A v \in Workers : wk'[v].extra = "held" => wk'[v].pc = "run"
        /\ Cardinality(At(Paying)) \in Nat /\ Cardinality(Extras) \in Nat
    BY <1>3, <1>4, <2>0, CountMove
  <2>4. UNCHANGED <<active, parked, waiters, calls>> /\ Capacity \in Nat /\ credits \in Int
    BY <1>1, ExecutorAssumption DEF memVars, queueVars, ExecInv, StateTypes
  <2>5. credits' <= Capacity
    BY <1>1, <2>0, <2>4 DEF CountInv
  <2>6. QED
    BY <1>1, <2>0, <2>1, <2>2, <2>3, <2>4, <2>5 DEF CountInv
<1>11. QED
  BY <1>4, <1>5, <1>6, <1>7, <1>8, <1>9, <1>10 DEF ExecInv, Moves

(* The attempt prints its result: the job had none, for it is in no other  *)
(* place and its thread has not printed one.                               *)
LEMMA RunEndsStep ==
    ASSUME ExecInv, NEW w \in Workers, NEW line \in {"cancelled", "finished"},
           wk[w].pc = "run", wk[w].extra # "held", RunEnds(w, line),
           UNCHANGED <<queueVars, credits, known, token, attempt, started, waiters, calls, main>>
    PROVE  ExecInv'
<1> DEFINE j == wk[w].job
           t == [wk[w] EXCEPT !.pc = "release"]
<1>1. /\ wk \in [Workers -> Threads] /\ wk' = [wk EXCEPT ![w].pc = "release"]
      /\ results' = [results EXCEPT ![j] = Append(@, line)]
      /\ UNCHANGED <<flag, mem, tries>>
  BY DEF RunEnds, ExecInv, WorkerTypes
<1>2. j \in known /\ j \in Jobs /\ ~wk[w].retry /\ Owner(w, j)
  BY DEF ExecInv, PlaceInv, StateTypes, ResultInv, Owning, Owner
<1>3. /\ t \in Threads /\ t.pc = "release" /\ t.job = j /\ ~t.retry /\ t.extra = wk[w].extra
  BY <1>1, <1>2 DEF Threads, PCs, Owning
<1>4. Moves(w, t)
  <2>1. /\ wk' \in [Workers -> Threads] /\ wk'[w] = t
        /\ \A v \in Workers : v # w => wk'[v] = wk[v]
    BY <1>1 DEF Threads, PCs, Owning
  <2> HIDE DEF t
  <2>2. QED
    BY <1>1, <1>3, <2>1, MovesFacts DEF ExecInv
<1> HIDE DEF t, j
<1>5. QueueInv' /\ PlaceInv'
  BY <1>1, <1>3, <1>4, GoesOn DEF queueVars, Owning, j
<1>6. results[j] = <<>>
  <2>1. \A v \in Workers : Owner(v, j) => wk[v].pc = "run"
    BY <1>2 DEF ExecInv, PlaceInv
  <2>2. QED
    BY <1>2, <2>1 DEF ExecInv, ResultInv
<1>7. /\ results' \in [Jobs -> Seq({"backpressure", "cancelled", "finished"})]
      /\ Len(results'[j]) <= 1 /\ \A k \in Jobs : k # j => results'[k] = results[k]
  <2>1. results \in [Jobs -> Seq({"backpressure", "cancelled", "finished"})]
    BY DEF ExecInv, StateTypes
  <2>2. Append(results[j], line) \in Seq({"backpressure", "cancelled", "finished"})
        /\ Len(Append(results[j], line)) = 1
    BY <1>6, <2>1
  <2>3. QED
    BY <1>1, <1>2, <2>1, <2>2
<1>8. StateTypes'
  BY <1>1, <1>7 DEF ExecInv, StateTypes, queueVars
<1>9. ResultInv'
  <2>1. ASSUME NEW k \in Jobs PROVE Len(results'[k]) <= 1
    <3>1. Len(results[k]) <= 1
      BY DEF ExecInv, ResultInv
    <3>2. CASE k = j
      BY <1>7, <3>2
    <3>3. CASE k # j
      BY <1>7, <3>1, <3>3
    <3>4. QED
      BY <3>2, <3>3
  <2>2. /\ \A v \in Workers : v # w /\ wk[v].pc \in Owning => wk'[v] = wk[v]
        /\ \A v \in Workers : v # w /\ wk'[v].pc \in Owning => wk'[v] = wk[v]
        /\ wk'[w] = t
    BY <1>4 DEF Moves, Kept
  <2>3. ASSUME NEW k \in known', results'[k] # <<>>
        PROVE  \E v \in Workers : Owner(v, k)' /\ wk'[v].pc \in {"release", "finish"} /\ ~wk'[v].retry
    <3>1. CASE k = j
      BY <1>3, <2>2, <3>1 DEF Owner, Owning
    <3>2. CASE k # j
      <4>1. k \in known /\ k \in Jobs /\ results[k] # <<>>
        BY <1>7, <2>3, <3>2 DEF ExecInv, StateTypes
      <4>2. PICK v \in Workers : Owner(v, k) /\ wk[v].pc \in {"release", "finish"} /\ ~wk[v].retry
        BY <4>1 DEF ExecInv, ResultInv
      <4>3. v # w
        BY <4>2
      <4>4. QED
        BY <2>2, <4>2, <4>3 DEF Owner
    <3>3. QED
      BY <3>1, <3>2
  <2>4. \A v \in Workers : wk'[v].pc \in {"begin", "register", "run"} => ~wk'[v].retry
    BY <1>3, <2>2 DEF ExecInv, ResultInv, Owning
  <2>5. QED
    BY <2>1, <2>3, <2>4 DEF ResultInv
<1>10. MemInv'
  BY <1>1, <1>3, <1>4, MemMove DEF ExecInv, Owning, j
<1>11. AttemptInv'
  BY <1>1, <1>3, <1>4, AttemptMove DEF ExecInv
<1>12. CountInv'
  BY <1>1, <1>3, <1>4, CountSame DEF ExecInv, Paying, queueVars
<1>13. QED
  BY <1>4, <1>5, <1>8, <1>9, <1>10, <1>11, <1>12 DEF ExecInv, Moves

LEMMA RunWithdrawnStep ==
    ASSUME ExecInv, NEW w \in Workers, wk[w].pc = "run", wk[w].extra # "held", RunWithdrawn(w),
           tries' \in [Jobs -> 0 .. MaxRetries],
           UNCHANGED <<queueVars, credits, known, token, attempt, started, waiters, calls, main>>
    PROVE  ExecInv'
<1> DEFINE j == wk[w].job
           t == [wk[w] EXCEPT !.pc = "release", !.retry = TRUE]
<1>1. /\ wk \in [Workers -> Threads]
      /\ wk' = [wk EXCEPT ![w].pc = "release", ![w].retry = TRUE]
      /\ flag' = flag \cup {j} /\ mem' = [mem EXCEPT ![j].revoked = TRUE]
      /\ UNCHANGED results
  BY DEF RunWithdrawn, ExecInv, WorkerTypes
<1>2. j \in known /\ j \in Jobs
  BY DEF ExecInv, PlaceInv, StateTypes, Owning
<1>3. /\ t \in Threads /\ t.pc = "release" /\ t.job = j /\ t.extra = wk[w].extra
  <2>1. wk[w] \in Threads
    BY <1>1
  <2>2. QED
    BY <2>1 DEF Threads, PCs, Owning
<1>4. Moves(w, t)
  <2>1. /\ wk' \in [Workers -> Threads] /\ wk'[w] = t
        /\ \A v \in Workers : v # w => wk'[v] = wk[v]
    <3>1. wk \in [Workers -> Threads] /\ wk' = [wk EXCEPT ![w] = t]
      BY <1>1
    <3> HIDE DEF t
    <3>2. QED
      BY <1>3, <3>1
  <2> HIDE DEF t
  <2>2. QED
    BY <1>1, <1>3, <2>1, MovesFacts DEF ExecInv
<1> HIDE DEF t, j
<1>5. QueueInv' /\ PlaceInv'
  BY <1>1, <1>3, <1>4, GoesOn DEF queueVars, Owning, j
<1>6. /\ mem' \in [Jobs -> [listed : BOOLEAN, running : BOOLEAN,
                            admitted : BOOLEAN, revoked : BOOLEAN]]
      /\ \A k \in Jobs : mem'[k].listed = mem[k].listed
  <2>1. /\ mem \in [Jobs -> [listed : BOOLEAN, running : BOOLEAN,
                             admitted : BOOLEAN, revoked : BOOLEAN]]
        /\ mem' = [mem EXCEPT ![j].revoked = TRUE]
    BY <1>1 DEF ExecInv, StateTypes
  <2>2. QED
    BY <1>2, <2>1, MemRevoked
<1>7. StateTypes'
  BY <1>1, <1>2, <1>6 DEF ExecInv, StateTypes, queueVars
<1>8. ResultInv'
  BY <1>1, <1>3, <1>4, ResultMove DEF ExecInv, Owning, j
<1>9. MemInv'
  BY <1>1, <1>3, <1>4, <1>6, MemMove DEF ExecInv, Owning, j
<1>10. AttemptInv'
  BY <1>1, <1>3, <1>4, AttemptMove DEF ExecInv
<1>11. CountInv'
  BY <1>1, <1>3, <1>4, CountSame DEF ExecInv, Paying, queueVars
<1>12. QED
  BY <1>4, <1>5, <1>7, <1>8, <1>9, <1>10, <1>11 DEF ExecInv, Moves

LEMMA RunStep ==
    ASSUME ExecInv, NEW w \in Workers, Run(w)
    PROVE  ExecInv'
<1>1. /\ wk[w].pc = "run" /\ wk[w].extra # "held"
      /\ UNCHANGED <<queueVars, credits, known, token, attempt, started, waiters, calls, main>>
  BY DEF Run
<1>2. CASE RunEnds(w, "cancelled") \/ RunEnds(w, "finished")
  BY <1>1, <1>2, RunEndsStep
<1>3. CASE RunWithdrawn(w) /\ UNCHANGED tries
  BY <1>1, <1>3, RunWithdrawnStep DEF ExecInv, StateTypes
<1>4. CASE /\ tries[wk[w].job] < MaxRetries /\ RunWithdrawn(w)
           /\ tries' = [tries EXCEPT ![wk[w].job] = @ + 1]
  <2>1. wk[w].job \in Jobs /\ MaxRetries \in Nat /\ tries \in [Jobs -> 0 .. MaxRetries]
    BY <1>1, ExecutorAssumption DEF ExecInv, PlaceInv, StateTypes, Owning
  <2>2. tries' \in [Jobs -> 0 .. MaxRetries]
    BY <1>4, <2>1
  <2>3. QED
    BY <1>1, <1>4, <2>2, RunWithdrawnStep
<1>5. QED
  BY <1>2, <1>3, <1>4 DEF Run

LEMMA ReleaseStep ==
    ASSUME ExecInv, NEW w \in Workers, Release(w)
    PROVE  ExecInv'
<1> DEFINE next == IF wk[w].retry THEN "leave" ELSE "finish"
           t == [wk[w] EXCEPT !.pc = next]
           ws == [wk EXCEPT ![w].pc = next]
<1>1. /\ wk[w].pc = "release" /\ wk \in [Workers -> Threads] /\ credits' = credits - 1
      /\ wk' = ws \/ wk' = NotifiedOne(ws)
      /\ UNCHANGED <<queueVars, cancelVars, started, memVars, main, results, tries>>
  BY DEF Release, ReleaseCredit, ExecInv, WorkerTypes
<1>2. /\ next \in {"leave", "finish"} /\ (~wk[w].retry => next = "finish")
      /\ wk[w].extra # "held"
  BY <1>1 DEF ExecInv, CountInv
<1> HIDE DEF next
<1>3. /\ t \in Threads /\ t.pc = next /\ t.job = wk[w].job /\ t.extra = wk[w].extra
      /\ t.retry = wk[w].retry
  BY <1>1, <1>2 DEF Threads, PCs, Owning
<1>4. Moves(w, t)
  <2>1. /\ ws \in [Workers -> Threads] /\ ws[w] = t
        /\ \A v \in Workers : v # w => ws[v] = wk[v]
    BY <1>1, <1>2 DEF Threads, PCs, Owning
  <2> HIDE DEF t, ws
  <2>2. QED
    BY <1>1, <1>2, <1>3, <2>1, MovesFacts DEF ExecInv
<1> HIDE DEF t, ws
<1>5. QueueInv' /\ PlaceInv'
  BY <1>1, <1>2, <1>3, <1>4, GoesOn DEF queueVars, cancelVars, memVars, Owning
<1>6. StateTypes'
  BY <1>1 DEF ExecInv, StateTypes, queueVars, cancelVars, memVars
<1>7. ResultInv'
  BY <1>1, <1>2, <1>3, <1>4, ResultMove DEF ExecInv, Owning, cancelVars
<1>8. MemInv'
  BY <1>1, <1>3, <1>4, MemMove DEF ExecInv, Owning, memVars, cancelVars
<1>9. AttemptInv'
  BY <1>1, <1>2, <1>3, <1>4, AttemptMove DEF ExecInv, cancelVars
<1>10. CountInv'
  <2>0. CountInv /\ WorkerTypes
    BY DEF ExecInv
  <2>1. /\ Cardinality(At(Owning \ {"park"})') = Cardinality(At(Owning \ {"park"}))
        /\ Cardinality(At({"park"})') = Cardinality(At({"park"}))
        /\ Cardinality(At(Paying)') = Cardinality(At(Paying)) - 1
    BY <1>1, <1>2, <1>3, <1>4, <2>0, MoveCounts DEF Owning, Paying
  <2>2. Cardinality(Extras') = Cardinality(Extras)
    BY <1>2, <1>3, <1>4, <2>0, MoveExtras
  <2>3. /\ \A v \in Workers : wk'[v].extra = "held" => wk'[v].pc = "run"
        /\ Cardinality(At(Paying)) \in Nat /\ Cardinality(Extras) \in Nat
    BY <1>2, <1>3, <1>4, <2>0, CountMove
  <2>4. UNCHANGED <<active, parked, waiters, calls>> /\ Capacity \in Nat /\ credits \in Int
    BY <1>1, ExecutorAssumption DEF memVars, queueVars, ExecInv, StateTypes
  <2>5. credits' <= Capacity
    BY <1>1, <2>0, <2>4 DEF CountInv
  <2>6. QED
    BY <1>1, <2>0, <2>1, <2>2, <2>3, <2>4, <2>5 DEF CountInv
<1>11. QED
  BY <1>4, <1>5, <1>6, <1>7, <1>8, <1>9, <1>10 DEF ExecInv, Moves

LEMMA LeaveStep ==
    ASSUME ExecInv, NEW w \in Workers, Leave(w)
    PROVE  ExecInv'
<1> DEFINE j == wk[w].job
           t == [wk[w] EXCEPT !.pc = "park"]
<1>1. /\ wk[w].pc = "leave" /\ wk \in [Workers -> Threads]
      /\ mem' = [mem EXCEPT ![j] = Ended(@)]
      /\ active' = active - 1 /\ parked' = parked + 1
      /\ wk' = [wk EXCEPT ![w].pc = "park"]
      /\ UNCHANGED <<fore, back, credits, cancelVars, started, waiters, calls, main, results, tries>>
  BY DEF Leave, ExecInv, WorkerTypes
<1>2. j \in Jobs /\ wk[w].extra # "held"
  BY <1>1 DEF ExecInv, PlaceInv, StateTypes, CountInv, Owning
<1>3. /\ t \in Threads /\ t.pc = "park" /\ t.job = j /\ t.extra = wk[w].extra
  BY <1>1 DEF Threads, PCs, Owning
<1>4. Moves(w, t)
  <2>1. /\ wk' \in [Workers -> Threads] /\ wk'[w] = t
        /\ \A v \in Workers : v # w => wk'[v] = wk[v]
    BY <1>1 DEF Threads, PCs, Owning
  <2> HIDE DEF t
  <2>2. QED
    BY <1>1, <1>3, <2>1, MovesFacts DEF ExecInv
<1> HIDE DEF t, j
<1>5. QueueInv' /\ PlaceInv'
  BY <1>1, <1>3, <1>4, GoesOn DEF cancelVars, Owning, j
<1>6. /\ mem' \in [Jobs -> [listed : BOOLEAN, running : BOOLEAN,
                            admitted : BOOLEAN, revoked : BOOLEAN]]
      /\ \A k \in Jobs : mem'[k].listed => mem[k].listed
  <2>1. /\ mem \in [Jobs -> [listed : BOOLEAN, running : BOOLEAN,
                             admitted : BOOLEAN, revoked : BOOLEAN]]
        /\ mem' = [mem EXCEPT ![j] = Ended(@)]
    BY <1>1 DEF ExecInv, StateTypes
  <2>2. /\ mem' \in [Jobs -> [listed : BOOLEAN, running : BOOLEAN,
                              admitted : BOOLEAN, revoked : BOOLEAN]]
        /\ ~mem'[j].listed /\ \A k \in Jobs : k # j => mem'[k] = mem[k]
    BY <1>2, <2>1, MemEnded
  <2>3. QED
    BY <2>2, Zenon
<1>7. StateTypes'
  <2>1. /\ active' = active - 1 /\ parked' = parked + 1 /\ active \in Int /\ parked \in Int
        /\ UNCHANGED <<fore, back, credits, known, token, attempt, flag, started, waiters,
                       calls, main, results, tries>>
    BY <1>1 DEF ExecInv, StateTypes, cancelVars
  <2>2. StateTypes /\ active' \in Int /\ parked' \in Int
    BY <2>1 DEF ExecInv
  <2>3. QED
    BY <1>6, <2>1, <2>2 DEF StateTypes
<1>8. ResultInv'
  BY <1>1, <1>3, <1>4, ResultMove DEF ExecInv, Owning, cancelVars, j
<1>9. MemInv'
  BY <1>1, <1>3, <1>4, <1>6, MemMove DEF ExecInv, Owning, cancelVars, j
<1>10. AttemptInv'
  BY <1>1, <1>3, <1>4, AttemptMove DEF ExecInv, cancelVars
<1>11. CountInv'
  <2>0. CountInv /\ WorkerTypes
    BY DEF ExecInv
  <2>1. /\ Cardinality(At(Owning \ {"park"})') = Cardinality(At(Owning \ {"park"})) - 1
        /\ Cardinality(At({"park"})') = Cardinality(At({"park"})) + 1
        /\ Cardinality(At(Paying)') = Cardinality(At(Paying))
    BY <1>1, <1>3, <1>4, <2>0, MoveCounts DEF Owning, Paying
  <2>2. Cardinality(Extras') = Cardinality(Extras)
    BY <1>3, <1>4, <2>0, MoveExtras
  <2>3. /\ \A v \in Workers : wk'[v].extra = "held" => wk'[v].pc = "run"
        /\ Cardinality(At({"park"})) \in Nat
    BY <1>2, <1>3, <1>4, <2>0, CountMove
  <2>4. Cardinality(waiters) \in Nat /\ Cardinality(calls) \in Nat
    BY Finite DEF ExecInv, StateTypes
  <2>5. QED
    BY <1>1, <2>0, <2>1, <2>2, <2>3, <2>4 DEF CountInv
<1>12. QED
  BY <1>4, <1>5, <1>7, <1>8, <1>9, <1>10, <1>11 DEF ExecInv, Moves

(* A thread that gives up its job.                                         *)
LEMMA LetsGo ==
    ASSUME ExecInv, NEW w \in Workers, wk[w].pc \in Owning,
           wk' = [wk EXCEPT ![w] = Thread("test", None)]
    PROVE  /\ Moves(w, Thread("test", None)) /\ Thread("test", None) \in Threads
           /\ \A v \in Workers : v # w /\ wk[v].pc \in Owning => wk'[v] = wk[v]
           /\ \A v \in Workers : wk'[v].pc \in Owning => v # w /\ wk'[v] = wk[v]
           /\ \A v \in Workers : \A k \in Jobs :
                 Owner(v, k)' <=> Owner(v, k) /\ k # wk[w].job
<1> DEFINE t == Thread("test", None)
<1>1. t \in Threads /\ t.pc = "test"
  BY DEF Thread, Threads, PCs
<1>2. wk \in [Workers -> Threads]
  BY DEF ExecInv, WorkerTypes
<1> HIDE DEF t
<1>3. /\ wk' \in [Workers -> Threads] /\ wk'[w] = t
      /\ \A v \in Workers : v # w => wk'[v] = wk[v]
  BY <1>1, <1>2 DEF t
<1>4. Moves(w, t)
  BY <1>1, <1>3, MovesFacts DEF ExecInv
<1>5. \A v \in Workers : v # w /\ wk[v].pc \in Owning => wk'[v] = wk[v]
  BY <1>3
<1>6. \A v \in Workers : wk'[v].pc \in Owning => v # w /\ wk'[v] = wk[v]
  BY <1>1, <1>3 DEF Owning
<1>7. \A v \in Workers : \A k \in Jobs : Owner(v, k)' <=> Owner(v, k) /\ k # wk[w].job
  <2>1. \A v \in Workers : \A k \in Jobs :
           Owner(v, k) /\ v # w => k # wk[w].job
    BY DEF ExecInv, PlaceInv, Owner
  <2>2. \A v \in Workers : \A k \in Jobs : Owner(v, k)' <=> Owner(v, k) /\ v # w
    BY <1>5, <1>6 DEF Owner
  <2>3. \A k \in Jobs : Owner(w, k) => k = wk[w].job
    BY DEF Owner
  <2>4. QED
    BY <2>1, <2>2, <2>3
<1>8. QED
  BY <1>1, <1>4, <1>5, <1>6, <1>7 DEF t

(* What giving up a job means for the counters.                            *)
LEMMA LetsGoCounts ==
    ASSUME ExecInv, NEW w \in Workers, wk[w].pc \in {"park", "finish"},
           wk' = [wk EXCEPT ![w] = Thread("test", None)]
    PROVE  /\ wk[w].pc = "finish" =>
                 /\ Cardinality(At(Owning \ {"park"})') = Cardinality(At(Owning \ {"park"})) - 1
                 /\ Cardinality(At({"park"})') = Cardinality(At({"park"}))
           /\ wk[w].pc = "park" =>
                 /\ Cardinality(At(Owning \ {"park"})') = Cardinality(At(Owning \ {"park"}))
                 /\ Cardinality(At({"park"})') = Cardinality(At({"park"})) - 1
           /\ Cardinality(At(Paying)') = Cardinality(At(Paying))
           /\ Cardinality(Extras') = Cardinality(Extras)
           /\ \A v \in Workers : wk'[v].extra = "held" => wk'[v].pc = "run"
           /\ Cardinality(At(Owning \ {"park"})) \in Nat /\ Cardinality(At({"park"})) \in Nat
<1> DEFINE t == Thread("test", None)
<1>0. CountInv /\ WorkerTypes /\ wk[w].extra # "held"
  BY DEF ExecInv, CountInv
<1>1. t \in Threads /\ t.pc = "test" /\ t.extra = "no" /\ Moves(w, t)
  BY LetsGo DEF Thread, Owning
<1> HIDE DEF t
<1>2. CASE wk[w].pc = "park"
  <2>1. /\ Cardinality(At(Owning \ {"park"})') = Cardinality(At(Owning \ {"park"}))
        /\ Cardinality(At({"park"})') = Cardinality(At({"park"})) - 1
        /\ Cardinality(At(Paying)') = Cardinality(At(Paying))
    BY <1>0, <1>1, <1>2, MoveCounts DEF Owning, Paying
  <2>2. Cardinality(Extras') = Cardinality(Extras)
    BY <1>0, <1>1, MoveExtras
  <2>3. /\ \A v \in Workers : wk'[v].extra = "held" => wk'[v].pc = "run"
        /\ Cardinality(At(Owning \ {"park"})) \in Nat /\ Cardinality(At({"park"})) \in Nat
    BY <1>0, <1>1, CountMove
  <2>4. QED
    BY <1>2, <2>1, <2>2, <2>3
<1>3. CASE wk[w].pc = "finish"
  <2>1. /\ Cardinality(At(Owning \ {"park"})') = Cardinality(At(Owning \ {"park"})) - 1
        /\ Cardinality(At({"park"})') = Cardinality(At({"park"}))
        /\ Cardinality(At(Paying)') = Cardinality(At(Paying))
    BY <1>0, <1>1, <1>3, MoveCounts DEF Owning, Paying
  <2>2. Cardinality(Extras') = Cardinality(Extras)
    BY <1>0, <1>1, MoveExtras
  <2>3. /\ \A v \in Workers : wk'[v].extra = "held" => wk'[v].pc = "run"
        /\ Cardinality(At(Owning \ {"park"})) \in Nat /\ Cardinality(At({"park"})) \in Nat
    BY <1>0, <1>1, CountMove
  <2>4. QED
    BY <1>3, <2>1, <2>2, <2>3
<1>4. QED
  BY <1>2, <1>3

LEMMA ParkStep ==
    ASSUME ExecInv, NEW w \in Workers, Park(w)
    PROVE  ExecInv'
<1> DEFINE j == wk[w].job
<1>1. /\ wk[w].pc = "park" /\ waiters' = waiters \cup {j}
      /\ wk' = [wk EXCEPT ![w] = Thread("test", None)]
      /\ UNCHANGED <<queueVars, credits, cancelVars, started, mem, calls, main, results, tries>>
  BY DEF Park
<1>2. /\ wk[w].pc \in Owning /\ j \in known /\ j \in Jobs /\ j \in started /\ Owner(w, j)
      /\ j \notin Queued /\ j \notin waiters /\ j \notin calls
  BY <1>1 DEF ExecInv, PlaceInv, StateTypes, MemInv, Owning, Owner
<1>3. /\ WorkerTypes'
      /\ \A v \in Workers : v # w /\ wk[v].pc \in Owning => wk'[v] = wk[v]
      /\ \A v \in Workers : wk'[v].pc \in Owning => v # w /\ wk'[v] = wk[v]
      /\ \A v \in Workers : \A k \in Jobs : Owner(v, k)' <=> Owner(v, k) /\ k # j
  BY <1>1, <1>2, LetsGo DEF Moves
<1> HIDE DEF j
<1>4. QueueInv' /\ Queued' = Queued
  BY <1>1, SameQueues DEF ExecInv, queueVars
<1>5. StateTypes'
  BY <1>1, <1>2 DEF ExecInv, StateTypes, queueVars, cancelVars
<1>6. UNCHANGED <<known, token, attempt, flag>> /\ known \subseteq Jobs
  BY <1>1 DEF cancelVars, ExecInv, StateTypes
<1>7. PlaceInv'
  <2>1. ASSUME NEW v \in Workers, wk'[v].pc \in Owning
        PROVE  wk'[v].job \in known /\ wk'[v].job \notin Queued \cup waiters' \cup calls
    <3>1. v # w /\ wk'[v] = wk[v]
      BY <1>3, <2>1
    <3>2. wk[v].job \in known /\ wk[v].job \notin Queued \cup waiters \cup calls
      BY <2>1, <3>1 DEF ExecInv, PlaceInv
    <3>3. wk[v].job # j
      BY <1>2, <2>1, <3>1 DEF ExecInv, PlaceInv, Owner
    <3>4. QED
      BY <1>1, <3>1, <3>2, <3>3
  <2>2. \A v, u \in Workers : \A k \in Jobs : Owner(v, k)' /\ Owner(u, k)' => v = u
    BY <1>3 DEF ExecInv, PlaceInv
  <2>3. ASSUME NEW k \in known
        PROVE  k \in Queued \cup waiters' \cup calls \/ \E v \in Workers : Owner(v, k)'
    <3>1. k \in Queued \cup waiters \cup calls \/ \E v \in Workers : Owner(v, k)
      BY DEF ExecInv, PlaceInv
    <3>2. QED
      BY <1>1, <1>3, <1>6, <3>1
  <2>4. QED
    BY <1>1, <1>2, <1>4, <1>6, <2>1, <2>2, <2>3 DEF ExecInv, PlaceInv
<1>8. ResultInv'
  <2>1. results[j] = <<>>
    <3>1. \A v \in Workers : Owner(v, j) => wk[v].pc = "park"
      BY <1>1, <1>2 DEF ExecInv, PlaceInv
    <3>2. QED
      BY <1>2, <3>1 DEF ExecInv, ResultInv
  <2>2. ASSUME NEW k \in known', results'[k] # <<>>
        PROVE  \E v \in Workers : Owner(v, k)' /\ wk'[v].pc \in {"release", "finish"} /\ ~wk'[v].retry
    <3>1. k \in known /\ results[k] # <<>> /\ k # j
      BY <1>1, <1>6, <2>1, <2>2
    <3>2. PICK v \in Workers : Owner(v, k) /\ wk[v].pc \in {"release", "finish"} /\ ~wk[v].retry
      BY <3>1 DEF ExecInv, ResultInv
    <3>3. wk'[v] = wk[v]
      BY <1>1, <1>3, <3>2 DEF Owner
    <3>4. QED
      BY <3>2, <3>3 DEF Owner
  <2>3. \A v \in Workers : wk'[v].pc \in {"begin", "register", "run"} => ~wk'[v].retry
    BY <1>3 DEF ExecInv, ResultInv, Owning
  <2>4. QED
    BY <1>1, <2>2, <2>3 DEF ExecInv, ResultInv
<1>9. MemInv'
  BY <1>1, <1>2, <1>3, <1>6 DEF ExecInv, MemInv
<1>10. AttemptInv'
  BY <1>3, <1>6 DEF ExecInv, AttemptInv, Owning
<1>11. CountInv'
  <2>1. CountInv
    BY DEF ExecInv
  <2>2. /\ Cardinality(At(Owning \ {"park"})') = Cardinality(At(Owning \ {"park"}))
        /\ Cardinality(At({"park"})') = Cardinality(At({"park"})) - 1
        /\ Cardinality(At(Paying)') = Cardinality(At(Paying))
        /\ Cardinality(Extras') = Cardinality(Extras)
        /\ \A v \in Workers : wk'[v].extra = "held" => wk'[v].pc = "run"
        /\ Cardinality(At(Owning \ {"park"})) \in Nat /\ Cardinality(At({"park"})) \in Nat
    BY <1>1, LetsGoCounts
  <2>3. waiters \subseteq Jobs /\ IsFiniteSet(waiters) /\ Cardinality(waiters) \in Nat
        /\ Cardinality(calls) \in Nat
    BY Finite DEF ExecInv, StateTypes
  <2>4. Cardinality(waiters') = Cardinality(waiters) + 1
    BY <1>1, <1>2, <2>3, CountFacts
  <2>5. UNCHANGED <<active, parked, credits, calls>>
    BY <1>1 DEF queueVars
  <2>6. QED
    BY <2>1, <2>2, <2>3, <2>4, <2>5 DEF CountInv
<1>12. QED
  BY <1>3, <1>4, <1>5, <1>7, <1>8, <1>9, <1>10, <1>11 DEF ExecInv

LEMMA FinishStep ==
    ASSUME ExecInv, NEW w \in Workers, Finish(w)
    PROVE  ExecInv'
<1> DEFINE j == wk[w].job
<1>1. /\ wk[w].pc = "finish" /\ mem' = [mem EXCEPT ![j] = Ended(@)]
      /\ active' = active - 1 /\ known' = known \ {j}
      /\ main' = [main EXCEPT !.pc = IF @ = "asleep" /\ Drained(fore, back, active', parked)
                                     THEN "drain" ELSE @]
      /\ wk' = [wk EXCEPT ![w] = Thread("test", None)]
      /\ UNCHANGED <<fore, back, parked, credits, token, attempt, flag, started, waiters,
                     calls, results, tries>>
  BY DEF Finish
<1>2. /\ wk[w].pc \in Owning /\ j \in known /\ j \in Jobs /\ Owner(w, j)
      /\ j \notin Queued /\ j \notin waiters /\ j \notin calls
  BY <1>1 DEF ExecInv, PlaceInv, StateTypes, Owning, Owner
<1>3. /\ WorkerTypes'
      /\ \A v \in Workers : v # w /\ wk[v].pc \in Owning => wk'[v] = wk[v]
      /\ \A v \in Workers : wk'[v].pc \in Owning => v # w /\ wk'[v] = wk[v]
      /\ \A v \in Workers : \A k \in Jobs : Owner(v, k)' <=> Owner(v, k) /\ k # j
  BY <1>1, <1>2, LetsGo DEF Moves
<1> HIDE DEF j
<1>4. QueueInv' /\ Queued' = Queued
  BY <1>1, SameQueues DEF ExecInv
<1>5. /\ mem' \in [Jobs -> [listed : BOOLEAN, running : BOOLEAN,
                            admitted : BOOLEAN, revoked : BOOLEAN]]
      /\ ~mem'[j].listed /\ \A k \in Jobs : k # j => mem'[k] = mem[k]
  <2>1. /\ mem \in [Jobs -> [listed : BOOLEAN, running : BOOLEAN,
                             admitted : BOOLEAN, revoked : BOOLEAN]]
        /\ mem' = [mem EXCEPT ![j] = Ended(@)]
    BY <1>1 DEF ExecInv, StateTypes
  <2>2. QED
    BY <1>2, <2>1, MemEnded
<1>6. /\ main' \in [pc : {"serve", "withdraw", "drain", "asleep", "stop", "join", "done"},
                    job : Jobs \cup {None}]
      /\ main'.pc = "withdraw" => main'.job \in Jobs
  BY <1>1 DEF ExecInv, StateTypes
<1>7. StateTypes'
  BY <1>1, <1>5, <1>6 DEF ExecInv, StateTypes
<1>8. PlaceInv'
  <2>1. ASSUME NEW v \in Workers, wk'[v].pc \in Owning
        PROVE  wk'[v].job \in known' /\ wk'[v].job \notin Queued \cup waiters \cup calls
    <3>1. v # w /\ wk'[v] = wk[v]
      BY <1>3, <2>1
    <3>2. wk[v].job \in known /\ wk[v].job \notin Queued \cup waiters \cup calls
      BY <2>1, <3>1 DEF ExecInv, PlaceInv
    <3>3. wk[v].job # j
      BY <1>2, <2>1, <3>1 DEF ExecInv, PlaceInv, Owner
    <3>4. QED
      BY <1>1, <3>1, <3>2, <3>3
  <2>2. \A v, u \in Workers : \A k \in Jobs : Owner(v, k)' /\ Owner(u, k)' => v = u
    BY <1>3 DEF ExecInv, PlaceInv
  <2>3. ASSUME NEW k \in known'
        PROVE  k \in Queued \cup waiters \cup calls \/ \E v \in Workers : Owner(v, k)'
    <3>1. k \in known /\ k # j /\ k \in Jobs
      BY <1>1 DEF ExecInv, StateTypes
    <3>2. k \in Queued \cup waiters \cup calls \/ \E v \in Workers : Owner(v, k)
      BY <3>1 DEF ExecInv, PlaceInv
    <3>3. QED
      BY <1>3, <3>1, <3>2
  <2>4. QED
    BY <1>1, <1>2, <1>4, <2>1, <2>2, <2>3 DEF ExecInv, PlaceInv
<1>9. ResultInv'
  <2>1. ASSUME NEW k \in known', results'[k] # <<>>
        PROVE  \E v \in Workers : Owner(v, k)' /\ wk'[v].pc \in {"release", "finish"} /\ ~wk'[v].retry
    <3>1. k \in known /\ results[k] # <<>> /\ k # j
      BY <1>1, <2>1
    <3>2. PICK v \in Workers : Owner(v, k) /\ wk[v].pc \in {"release", "finish"} /\ ~wk[v].retry
      BY <3>1 DEF ExecInv, ResultInv
    <3>3. wk'[v] = wk[v]
      BY <1>3, <3>1, <3>2 DEF Owner, j
    <3>4. QED
      BY <3>2, <3>3 DEF Owner
  <2>2. \A v \in Workers : wk'[v].pc \in {"begin", "register", "run"} => ~wk'[v].retry
    BY <1>3 DEF ExecInv, ResultInv, Owning
  <2>3. QED
    BY <1>1, <2>1, <2>2 DEF ExecInv, ResultInv
<1>10. MemInv'
  <2>1. \A k \in Jobs : mem'[k].listed => k \in known' /\ k \in started'
    BY <1>1, <1>5 DEF ExecInv, MemInv
  <2>2. QED
    BY <1>1, <1>3, <2>1 DEF ExecInv, MemInv
<1>11. AttemptInv'
  BY <1>1, <1>3 DEF ExecInv, AttemptInv, Owning
<1>12. CountInv'
  <2>1. CountInv
    BY DEF ExecInv
  <2>2. /\ Cardinality(At(Owning \ {"park"})') = Cardinality(At(Owning \ {"park"})) - 1
        /\ Cardinality(At({"park"})') = Cardinality(At({"park"}))
        /\ Cardinality(At(Paying)') = Cardinality(At(Paying))
        /\ Cardinality(Extras') = Cardinality(Extras)
        /\ \A v \in Workers : wk'[v].extra = "held" => wk'[v].pc = "run"
        /\ Cardinality(At(Owning \ {"park"})) \in Nat /\ Cardinality(At({"park"})) \in Nat
    BY <1>1, LetsGoCounts
  <2>3. QED
    BY <1>1, <2>1, <2>2 DEF CountInv
<1>13. QED
  BY <1>3, <1>4, <1>7, <1>8, <1>9, <1>10, <1>11, <1>12 DEF ExecInv

-----------------------------------------------------------------------------
(* The arbitrator.                                                         *)

LEMMA RevokeStep ==
    ASSUME ExecInv, NEW j \in Jobs, Revoke(j)
    PROVE  ExecInv'
<1>1. /\ tries[j] < MaxRetries
      /\ mem' = [mem EXCEPT ![j].revoked = TRUE] /\ flag' = flag \cup {j}
      /\ tries' = [tries EXCEPT ![j] = @ + 1]
      /\ UNCHANGED <<queueVars, credits, known, token, attempt, started, waiters, calls,
                     wk, main, results>>
  BY DEF Revoke
<1>2. Quiet
  BY <1>1, QuietFacts DEF ExecInv
<1>3. QueueInv' /\ Queued' = Queued
  BY <1>1, SameQueues DEF ExecInv, queueVars
<1>4. /\ mem' \in [Jobs -> [listed : BOOLEAN, running : BOOLEAN,
                            admitted : BOOLEAN, revoked : BOOLEAN]]
      /\ \A k \in Jobs : mem'[k].listed = mem[k].listed
  <2>1. mem \in [Jobs -> [listed : BOOLEAN, running : BOOLEAN,
                          admitted : BOOLEAN, revoked : BOOLEAN]]
    BY DEF ExecInv, StateTypes
  <2>2. QED
    BY <1>1, <2>1
<1>5. tries' \in [Jobs -> 0 .. MaxRetries]
  <2>1. MaxRetries \in Nat /\ tries \in [Jobs -> 0 .. MaxRetries]
    BY ExecutorAssumption DEF ExecInv, StateTypes
  <2>2. QED
    BY <1>1, <2>1
<1>6. StateTypes'
  BY <1>1, <1>4, <1>5 DEF ExecInv, StateTypes, queueVars
<1>7. PlaceInv'
  BY <1>1, <1>2, <1>3, QuietOwners, PlaceFrame DEF ExecInv
<1>8. ResultInv' /\ MemInv' /\ AttemptInv' /\ CountInv'
  BY <1>1, <1>2, <1>4, ResultFrame, MemFrame, AttemptFrame, CountFrame DEF ExecInv, queueVars
<1>9. QED
  BY <1>2, <1>3, <1>6, <1>7, <1>8 DEF ExecInv, Quiet

LEMMA GrantStep ==
    ASSUME ExecInv, Grant
    PROVE  ExecInv'
<1>1. PICK fit \in SUBSET (waiters \ Cancelled) :
          /\ mem' = [j \in Jobs |-> IF j \in fit
                        THEN [mem[j] EXCEPT !.listed = TRUE, !.admitted = TRUE] ELSE mem[j]]
          /\ calls' = Cancelled \cup fit
          /\ waiters' = waiters \ (Cancelled \cup fit)
  BY Zenon DEF Grant
<1>2. /\ calls = {}
      /\ UNCHANGED <<queueVars, credits, cancelVars, started, wk, main, results, tries>>
  BY Zenon DEF Grant
<1> DEFINE X == Cancelled \cup fit
<1>3. X \subseteq waiters /\ waiters' = waiters \ X /\ calls' = X /\ fit \subseteq X
  <2>1. calls' = Cancelled \cup fit /\ waiters' = waiters \ (Cancelled \cup fit)
    BY <1>1, Zenon
  <2>2. QED
    BY <2>1, Zenon DEF Cancelled
<1> HIDE DEF X
<1>4. Quiet
  BY <1>2, QuietFacts DEF ExecInv
<1>5. QueueInv' /\ Queued' = Queued
  BY <1>2, SameQueues DEF ExecInv, queueVars
<1>6. /\ mem' \in [Jobs -> [listed : BOOLEAN, running : BOOLEAN,
                            admitted : BOOLEAN, revoked : BOOLEAN]]
      /\ \A k \in Jobs : mem'[k].listed => mem[k].listed \/ k \in fit
  <2>1. /\ mem \in [Jobs -> [listed : BOOLEAN, running : BOOLEAN,
                             admitted : BOOLEAN, revoked : BOOLEAN]]
        /\ mem' = [k \in Jobs |-> IF k \in fit
                     THEN [mem[k] EXCEPT !.listed = TRUE, !.admitted = TRUE] ELSE mem[k]]
    <3>1. ExecInv
      OBVIOUS
    <3>2. QED
      BY <1>1, <3>1, Zenon DEF ExecInv, StateTypes
  <2>2. ASSUME NEW k \in Jobs
        PROVE  /\ mem'[k] \in [listed : BOOLEAN, running : BOOLEAN,
                               admitted : BOOLEAN, revoked : BOOLEAN]
               /\ mem'[k].listed => mem[k].listed \/ k \in fit
    <3>1. mem[k] \in [listed : BOOLEAN, running : BOOLEAN, admitted : BOOLEAN, revoked : BOOLEAN]
      BY <2>1, Zenon
    <3>2. CASE k \in fit
      <4>1. mem'[k] = [mem[k] EXCEPT !.listed = TRUE, !.admitted = TRUE]
        BY <2>1, <3>2, Zenon
      <4>2. QED
        BY <3>1, <3>2, <4>1
    <3>3. CASE k \notin fit
      <4>1. mem'[k] = mem[k]
        BY <2>1, <3>3, Zenon
      <4>2. QED
        BY <3>1, <4>1, Zenon
    <3>4. QED
      BY <3>2, <3>3, Zenon
  <2>3. QED
    <3>1. DOMAIN mem' = Jobs /\ mem' = [k \in Jobs |-> mem'[k]]
      BY <2>1, Zenon
    <3>2. QED
      BY <2>2, <3>1
<1>7. StateTypes'
  BY <1>2, <1>3, <1>6 DEF ExecInv, StateTypes, queueVars, cancelVars
<1>8. UNCHANGED <<known, token, attempt, flag>>
  BY <1>2 DEF cancelVars
<1>9. PlaceInv'
  <2>1. \A v \in Workers : \A k : Owner(v, k)' <=> Owner(v, k)
    BY <1>2 DEF Owner
  <2>2. \A k : k \in waiters' \cup calls' <=> k \in waiters \cup calls
    BY <1>2, <1>3
  <2>3. waiters' \cap calls' = {}
    BY <1>3
  <2>4. QED
    BY <1>2, <1>5, <1>8, <2>1, <2>2, <2>3 DEF ExecInv, PlaceInv
<1>10. ResultInv' /\ AttemptInv'
  BY <1>2, <1>4, <1>8, ResultFrame, AttemptFrame DEF ExecInv
<1>11. MemInv'
  <2>1. \A k \in Jobs : mem'[k].listed => k \in known /\ k \in started
    BY <1>3, <1>6 DEF ExecInv, MemInv, PlaceInv
  <2>2. QED
    BY <1>2, <1>3, <1>8, <2>1 DEF ExecInv, MemInv
<1>12. CountInv'
  <2>1. waiters \subseteq Jobs /\ IsFiniteSet(waiters) /\ Cardinality(waiters) \in Nat
        /\ X \subseteq Jobs /\ IsFiniteSet(X) /\ Cardinality(X) \in Nat
    BY <1>3, Finite DEF ExecInv, StateTypes
  <2>2. Cardinality(waiters \ X) = Cardinality(waiters) - Cardinality(X)
    <3>1. waiters \cap X = X
      BY <1>3
    <3>2. Cardinality(waiters \ X) = Cardinality(waiters) - Cardinality(waiters \cap X)
      BY <2>1, FS_Difference, Zenon
    <3>3. QED
      BY <3>1, <3>2, Zenon
  <2>3. Cardinality(calls) = 0
    BY <1>2, FS_EmptySet
  <2>4. Cardinality(waiters') + Cardinality(calls') = Cardinality(waiters) + Cardinality(calls)
        /\ Cardinality(waiters') \in Int /\ Cardinality(calls') \in Int
    BY <1>3, <2>1, <2>2, <2>3
  <2>5. /\ At(Owning \ {"park"})' = At(Owning \ {"park"})
        /\ At({"park"})' = At({"park"}) /\ At(Paying)' = At(Paying) /\ Extras' = Extras
    BY <1>4, QuietCounts DEF Owning, Paying, ExecInv
  <2>6. Cardinality(At({"park"})) \in Nat /\ Cardinality(waiters) \in Nat
    BY <2>1, Finite DEF At
  <2>7. UNCHANGED <<active, parked, credits, wk>> /\ CountInv
    BY <1>2 DEF queueVars, ExecInv
  <2>8. QED
    BY <2>3, <2>4, <2>5, <2>6, <2>7 DEF CountInv
<1>13. QED
  BY <1>4, <1>5, <1>7, <1>9, <1>10, <1>11, <1>12 DEF ExecInv, Quiet

LEMMA ReadyStep ==
    ASSUME ExecInv, NEW j \in Jobs, Ready(j)
    PROVE  ExecInv'
<1>1. /\ j \in calls /\ calls' = calls \ {j} /\ parked' = parked - 1
      /\ PushFront(j) /\ wk' = NotifiedOne(wk)
      /\ UNCHANGED <<active, credits, cancelVars, started, mem, waiters, main, results, tries>>
  BY DEF Ready
<1>2. Quiet
  BY <1>1, QuietFacts DEF ExecInv
<1>3. j \in known /\ j \notin Queued /\ j \notin waiters /\ \A v \in Workers : ~Owner(v, j)
  BY <1>1 DEF ExecInv, PlaceInv, Owner
<1>4. QueueInv' /\ Queued' = Queued \cup {j}
  BY <1>1, <1>3, PushFrontFacts DEF ExecInv
<1>5. StateTypes'
  BY <1>1 DEF ExecInv, StateTypes, cancelVars
<1>6. UNCHANGED <<known, token, attempt, flag>>
  BY <1>1 DEF cancelVars
<1>7. PlaceInv'
  <2>1. SameOwners
    BY <1>2, QuietOwners
  <2>2. \A v \in Workers : \A k : Owner(v, k)' <=> Owner(v, k)
    BY <2>1 DEF SameOwners, Owner
  <2>3. \A k : k \in Queued' \cup waiters' \cup calls' <=> k \in Queued \cup waiters \cup calls
    BY <1>1, <1>4
  <2>4. QED
    BY <1>1, <1>3, <1>4, <1>6, <2>1, <2>2, <2>3 DEF ExecInv, PlaceInv, SameOwners
<1>8. ResultInv' /\ AttemptInv'
  BY <1>1, <1>2, <1>6, ResultFrame, AttemptFrame DEF ExecInv
<1>9. MemInv'
  BY <1>1, <1>2, <1>6 DEF ExecInv, MemInv, Quiet, Kept
<1>10. CountInv'
  <2>1. /\ calls \subseteq Jobs /\ IsFiniteSet(calls) /\ Cardinality(calls) \in Nat
        /\ Cardinality(waiters) \in Nat /\ Cardinality(At({"park"})) \in Nat
    BY Finite DEF ExecInv, StateTypes, At
  <2>2. Cardinality(calls') = Cardinality(calls) - 1
    BY <1>1, <2>1, CountFacts
  <2>3. /\ At(Owning \ {"park"})' = At(Owning \ {"park"})
        /\ At({"park"})' = At({"park"}) /\ At(Paying)' = At(Paying) /\ Extras' = Extras
    BY <1>2, QuietCounts DEF Owning, Paying, ExecInv
  <2>4. \A v \in Workers : wk'[v].extra = "held" => wk'[v].pc = "run"
    BY <1>2 DEF ExecInv, CountInv, Quiet, Kept, Owning
  <2>5. QED
    BY <1>1, <2>1, <2>2, <2>3, <2>4 DEF ExecInv, CountInv
<1>11. QED
  BY <1>2, <1>4, <1>5, <1>7, <1>8, <1>9, <1>10 DEF ExecInv, Quiet

-----------------------------------------------------------------------------
(* The theorems.                                                           *)

LEMMA ExecInit ==
    ASSUME Init
    PROVE  ExecInv
<1> DEFINE t == Thread("test", None)
<1>1. t \in Threads /\ t.pc = "test" /\ t.extra = "no" /\ t.retry = FALSE
  BY DEF Thread, Threads, PCs
<1>2. /\ wk \in [Workers -> Threads]
      /\ \A w \in Workers : wk[w].pc = "test" /\ wk[w].extra = "no"
  <2>1. wk = [w \in Workers |-> t]
    BY DEF Init
  <2> HIDE DEF t
  <2>2. QED
    BY <1>1, <2>1
<1>3. QueueInv /\ Queued = {}
  BY DEF Init, QueueInv, Queued, Once, ToSet
<1>4. StateTypes
  <2>1. mem \in [Jobs -> [listed : BOOLEAN, running : BOOLEAN,
                          admitted : BOOLEAN, revoked : BOOLEAN]]
    BY DEF Init, Idle
  <2>2. results \in [Jobs -> Seq({"backpressure", "cancelled", "finished"})]
    BY DEF Init
  <2>3. tries \in [Jobs -> 0 .. MaxRetries]
    BY ExecutorAssumption DEF Init
  <2>4. QED
    BY <2>1, <2>2, <2>3 DEF Init, StateTypes
<1>5. PlaceInv
  BY <1>2, <1>3 DEF Init, PlaceInv, Owner, Owning
<1>6. ResultInv
  BY <1>2 DEF Init, ResultInv
<1>7. MemInv
  BY <1>2 DEF Init, MemInv, Idle, Owning
<1>8. AttemptInv
  BY <1>2 DEF AttemptInv
<1>9. CountInv
  <2>1. At(Owning \ {"park"}) = {} /\ At({"park"}) = {} /\ At(Paying) = {} /\ Extras = {}
    BY <1>2 DEF At, Extras, Owning, Paying
  <2>2. Cardinality({}) = 0 /\ 0 <= Capacity
    BY FS_EmptySet, ExecutorAssumption
  <2>3. /\ active = 0 /\ parked = 0 /\ credits = 0 /\ waiters = {} /\ calls = {}
        /\ \A w \in Workers : wk[w].extra = "held" => wk[w].pc = "run"
    BY <1>2 DEF Init
  <2>4. /\ Cardinality(At(Owning \ {"park"})) = 0 /\ Cardinality(At({"park"})) = 0
        /\ Cardinality(At(Paying)) = 0 /\ Cardinality(Extras) = 0
        /\ Cardinality(waiters) = 0 /\ Cardinality(calls) = 0
    BY <2>1, <2>2, <2>3, Zenon
  <2>5. QED
    BY <2>2, <2>3, <2>4 DEF CountInv
<1>10. QED
  BY <1>2, <1>3, <1>4, <1>5, <1>6, <1>7, <1>8, <1>9 DEF ExecInv, WorkerTypes

LEMMA ExecStep ==
    ASSUME ExecInv, [Next]_vars
    PROVE  ExecInv'
<1>1. ASSUME NEW j \in Jobs, Submit(j) \/ Cancel(j) \/ Revoke(j) \/ Ready(j) PROVE ExecInv'
  BY <1>1, SubmitStep, CancelStep, RevokeStep, ReadyStep
<1>2. CASE Shutdown \/ AwaitDrain \/ Stop \/ Join \/ MemoryChanges \/ AllDone \/ UNCHANGED vars
  BY <1>2, StillSteps DEF AllDone
<1>3. CASE Withdraw
  BY <1>3, WithdrawStep
<1>4. CASE Grant
  BY <1>4, GrantStep
<1>5. ASSUME NEW w \in Workers, Borrow(w) \/ WorkerStep(w) PROVE ExecInv'
  <2>1. CASE Borrow(w)
    BY <2>1, BorrowStep
  <2>2. CASE Test(w) \/ Begin(w) \/ Register(w) \/ GiveBack(w)
    BY <2>2, TestStep, BeginStep, RegisterStep, GiveBackStep
  <2>3. CASE Fall(w)
    BY <2>3, StillSteps
  <2>4. CASE Run(w) \/ Release(w) \/ Leave(w)
    BY <2>4, RunStep, ReleaseStep, LeaveStep
  <2>5. CASE Park(w) \/ Finish(w)
    BY <2>5, ParkStep, FinishStep
  <2>6. QED
    BY <1>5, <2>1, <2>2, <2>3, <2>4, <2>5 DEF WorkerStep
<1>6. QED
  BY <1>1, <1>2, <1>3, <1>4, <1>5 DEF Next, MainStep

(* The invariant of the executor holds in every state.                     *)
THEOREM ExecutorInvariance == Spec => []ExecInv
<1>1. Init => ExecInv
  BY ExecInit
<1>2. ExecInv /\ [Next]_vars => ExecInv'
  BY ExecStep
<1>3. QED
  BY <1>1, <1>2, PTL DEF Spec

(* active_jobs_, parked_jobs_ and the reserved CPU credits never drift     *)
(* from the threads and lists they count, the budget is never exceeded,    *)
(* and no job gets two result lines, for any number of jobs and threads.   *)
THEOREM ExecutorCounts == Spec => []ExecutorTypeOK
<1>1. ExecInv => ExecutorTypeOK
  <2>1. SUFFICES ASSUME ExecInv PROVE ExecutorTypeOK
    OBVIOUS
  <2>2. token \subseteq Jobs /\ known \subseteq Jobs /\ flag \subseteq Jobs
    BY <2>1 DEF ExecInv, StateTypes
  <2>3. \A j \in Jobs : Len(results[j]) <= 1 /\ tries[j] \in 0 .. MaxRetries
    BY <2>1 DEF ExecInv, StateTypes, ResultInv
  <2>4. QED
    BY <2>1, <2>2, <2>3 DEF ExecInv, CountInv, ExecutorTypeOK, Paying, Extras
<1>2. QED
  BY <1>1, ExecutorInvariance, PTL

(* A sequence without repetition has a job at one place or at none.        *)
LEMMA OneEntry ==
    ASSUME NEW q, Once(q), NEW j
    PROVE  /\ j \in ToSet(q) => Cardinality({i \in DOMAIN q : q[i] = j}) = 1
           /\ j \notin ToSet(q) => Cardinality({i \in DOMAIN q : q[i] = j}) = 0
<1> DEFINE P == {i \in DOMAIN q : q[i] = j}
<1>1. ASSUME j \in ToSet(q) PROVE Cardinality(P) = 1
  <2>1. PICK i \in DOMAIN q : q[i] = j
    BY <1>1 DEF ToSet
  <2>2. P = {i}
    BY <2>1 DEF Once
  <2>3. QED
    BY <2>2, FS_Singleton
<1>2. ASSUME j \notin ToSet(q) PROVE Cardinality(P) = 0
  <2>1. P = {}
    BY <1>2 DEF ToSet
  <2>2. QED
    BY <2>1, FS_EmptySet
<1>3. QED
  BY <1>1, <1>2

(* A known job is in one place, any other in none.                         *)
LEMMA PlaceCount ==
    ASSUME ExecInv, NEW j \in Jobs
    PROVE  /\ j \in known => Places(j) = 1
           /\ j \notin known => Places(j) = 0
<1> DEFINE F == Cardinality({i \in DOMAIN fore : fore[i] = j})
           B == Cardinality({i \in DOMAIN back : back[i] = j})
           W == IF j \in waiters THEN 1 ELSE 0
           C == IF j \in calls THEN 1 ELSE 0
           H == {w \in At(Owning) : wk[w].job = j}
<1>1. /\ j \in ToSet(fore) => F = 1
      /\ j \notin ToSet(fore) => F = 0
      /\ j \in ToSet(back) => B = 1
      /\ j \notin ToSet(back) => B = 0
  BY OneEntry DEF ExecInv, QueueInv
<1>2. H = {w \in Workers : Owner(w, j)}
  BY DEF At, Owner
<1>3. ASSUME \E w \in Workers : Owner(w, j) PROVE Cardinality(H) = 1
  <2>1. PICK w \in Workers : Owner(w, j)
    BY <1>3
  <2>2. H = {w}
    BY <1>2, <2>1 DEF ExecInv, PlaceInv
  <2>3. QED
    BY <2>2, FS_Singleton
<1>4. ASSUME ~\E w \in Workers : Owner(w, j) PROVE Cardinality(H) = 0
  <2>1. H = {}
    BY <1>2, <1>4
  <2>2. QED
    BY <2>1, FS_EmptySet
<1>5. Places(j) = F + B + W + C + Cardinality(H)
  BY DEF Places
<1>6. /\ j \in waiters => W = 1
      /\ j \notin waiters => W = 0
      /\ j \in calls => C = 1
      /\ j \notin calls => C = 0
  OBVIOUS
<1> HIDE DEF F, B, W, C, H
<1>7. \A w \in Workers : Owner(w, j) =>
          j \in known /\ j \notin Queued /\ j \notin waiters /\ j \notin calls
  BY DEF ExecInv, PlaceInv, Owner
<1>8. /\ j \in Queued => j \notin waiters /\ j \notin calls
      /\ j \in waiters => j \notin calls
      /\ (j \in Queued \/ j \in waiters \/ j \in calls) => j \in known
      /\ j \in Queued <=> (j \in ToSet(fore) \/ j \in ToSet(back))
      /\ ~(j \in ToSet(fore) /\ j \in ToSet(back))
  BY DEF ExecInv, PlaceInv, QueueInv, Queued
<1>9. ASSUME j \in known PROVE Places(j) = 1
  <2>1. \/ j \in Queued \/ j \in waiters \/ j \in calls
        \/ \E w \in Workers : Owner(w, j)
    BY <1>9 DEF ExecInv, PlaceInv
  <2>2. CASE \E w \in Workers : Owner(w, j)
    BY <1>1, <1>3, <1>5, <1>6, <1>7, <1>8, <2>2
  <2>3. CASE ~\E w \in Workers : Owner(w, j)
    BY <1>1, <1>4, <1>5, <1>6, <1>8, <2>1, <2>3
  <2>4. QED
    BY <2>2, <2>3
<1>10. ASSUME j \notin known PROVE Places(j) = 0
  <2>1. ~\E w \in Workers : Owner(w, j)
    BY <1>7, <1>10
  <2>2. QED
    BY <1>1, <1>4, <1>5, <1>6, <1>8, <1>10, <2>1
<1>11. QED
  BY <1>9, <1>10

(* An accepted cancel reaches the attempt that runs, whichever of the      *)
(* reset in begin, the registration and the cancel came first; and every   *)
(* accepted job is in exactly one of the queues, the threads and the       *)
(* arbitrator's lists until it leaves the executor, whatever the number of *)
(* jobs and threads.                                                       *)
THEOREM NoJobLost == Spec => []CancelReaches
<1>1. ExecInv => CancelReaches
  <2>1. SUFFICES ASSUME ExecInv, NEW j \in Jobs
                 PROVE  /\ (j \in token /\ \E w \in At({"run"}) : wk[w].job = j) => j \in flag
                        /\ (j \in known /\ results[j] = <<>>) => Places(j) = 1
                        /\ j \notin known => Places(j) = 0 /\ mem[j].listed = FALSE
    BY DEF CancelReaches
  <2>2. (j \in token /\ \E w \in At({"run"}) : wk[w].job = j) => j \in flag
    BY <2>1 DEF ExecInv, AttemptInv, At
  <2>3. j \notin known => mem[j].listed = FALSE
    BY <2>1 DEF ExecInv, MemInv, StateTypes
  <2>4. QED
    BY <2>1, <2>2, <2>3, PlaceCount
<1>2. QED
  BY <1>1, ExecutorInvariance, PTL

=============================================================================
