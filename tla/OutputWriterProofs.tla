------------------------- MODULE OutputWriterProofs -------------------------
(***************************************************************************)
(* Proofs about OutputWriter, for any number of jobs, files, buffers and   *)
(* writer threads, any sizes and budgets: every accepted byte is counted   *)
(* out once and written at most once, at its place; a file is closed after *)
(* its last buffer; no parked item is forgotten; the unsigned counters     *)
(* never wrap.                                                             *)
(***************************************************************************)
EXTENDS OutputWriter, FiniteSetTheorems, TLAPS

-----------------------------------------------------------------------------
(* The inductive invariant.                                                *)

Items == Buffers \cup Files

Writing == {"reserve", "commit", "close"}
Serves == {"open", "submit", "settle", "defer", "copen", "csettle"}

GateRecords == [phase : {"ready", "blocked", "probing"}, episode : Nat,
                owner : Items \cup {NoToken}, emitted : BOOLEAN, jobs : {{}}]

Decoders == [pc : Writing \cup {"next", "finish", "wait", "done"},
             file : Files \cup {None}, left : Nat, chunk : Nat, fresh : BOOLEAN]

FileStates == [stage : Buffers \cup {None}, next : Nat, inflight : Int,
               outstanding : Int, active : Int, accepted : Nat,
               handle : BOOLEAN, tried : BOOLEAN, created : BOOLEAN,
               failed : BOOLEAN, closing : BOOLEAN, queued : BOOLEAN,
               closed : BOOLEAN]

BufferStates == [at : {"free", "stage", "queue", "held", "io", "retry"},
                 file : Files \cup {None}, size : Nat, offset : Nat, done : Nat]

Threads == [pc : Serves \cup {"idle", "ack", "scan"}, item : Items \cup {None},
            result : {"ok", "space", "permanent", "terminal"}, again : BOOLEAN]

Types ==
    /\ gate \in GateRecords
    /\ vol \in {"free", "full", "gone"} /\ events \in 0 .. MaxEvents
    /\ token \subseteq Jobs /\ waking \subseteq token /\ err \subseteq Jobs
    /\ pending \in [Jobs -> Int] /\ inflight \in [Jobs -> Int]
    /\ prod \in [Jobs -> Decoders] /\ file \in [Files -> FileStates]
    /\ buf \in [Buffers -> BufferStates] /\ wk \in [Workers -> Threads]
    /\ lease \subseteq Items
    /\ posted \in BOOLEAN /\ packet \in BOOLEAN
    /\ meter \in [accepted : Int, written : Int, discarded : Int, pending : Int]

(* A queue holds an item once.                                             *)
Once(q) == \A i, k \in DOMAIN q : q[i] = q[k] => i = k

(* A buffer is where its state says, an item is in one queue or with one   *)
(* thread, and only a file that is to be closed and is not yet closed is.  *)
PlaceInv ==
    /\ workQ \in Seq(Items) /\ retryQ \in Seq(Items)
    /\ Once(workQ) /\ Once(retryQ) /\ ToSet(workQ) \cap ToSet(retryQ) = {}
    /\ \A b \in Buffers : /\ b \in ToSet(workQ) <=> buf[b].at = "queue"
                          /\ b \in ToSet(retryQ) <=> buf[b].at = "retry"
    /\ \A w \in Workers :
          /\ wk[w].pc \in Serves <=> wk[w].item # None
          /\ wk[w].pc \in {"open", "submit", "settle"} => wk[w].item \in Buffers
          /\ wk[w].pc \in {"copen", "csettle"} => wk[w].item \in Files
          /\ wk[w].item \in Buffers => buf[wk[w].item].at = "held"
          /\ wk[w].item \notin ToSet(workQ) \cup ToSet(retryQ)
    /\ \A v, w \in Workers : wk[v].item = wk[w].item /\ wk[w].item # None => v = w

(* The items whose close has been queued and is not over.                  *)
Closing == ToSet(workQ) \cup ToSet(retryQ) \cup {wk[w].item : w \in Workers}

CloseInv ==
    \A f \in Files :
        /\ f \in Closing => file[f].queued /\ ~file[f].closed
        /\ file[f].queued => file[f].closing /\ file[f].outstanding = 0
        /\ file[f].closed => file[f].queued /\ ~file[f].handle

(* The retry packet.                                                       *)
WakeInv ==
    /\ posted => packet \/ \E w \in Workers : wk[w].pc = "ack"
    /\ \A w \in Workers : wk[w].pc = "idle" => ~wk[w].again
    /\ NoLostWake

(* The decoder's file is the one it writes to.                             *)
On(j, f) == prod[j].pc \in Writing /\ prod[j].file = f

(* Staging: a file's buffer and a buffer's file agree, and a buffer with   *)
(* nothing in it has just been taken by the decoder that is copying.       *)
StageInv ==
    /\ \A f \in Files : file[f].stage # None =>
          /\ buf[file[f].stage].at = "stage" /\ buf[file[f].stage].file = f
          /\ On(JobOf[f], f)
    /\ \A b \in Buffers :
          /\ buf[b].at = "free" => buf[b] = FreeBuffer
          /\ buf[b].at # "free" => buf[b].file \in Files
          /\ buf[b].at = "stage" => file[buf[b].file].stage = b
          /\ buf[b].at \in {"stage", "queue"} => buf[b].done = 0
          /\ buf[b].done <= buf[b].size /\ buf[b].size <= BufferSize
          /\ buf[b].at # "free" /\ buf[b].size = 0 =>
                /\ buf[b].at = "stage"
                /\ prod[JobOf[buf[b].file]].pc = "commit" /\ prod[JobOf[buf[b].file]].fresh

(* The decoder: where it is in its file, and the chunk it has reserved.    *)
DecoderInv ==
    /\ \A j \in Jobs :
          /\ prod[j].pc \in Writing =>
                /\ prod[j].file \in Files /\ JobOf[prod[j].file] = j
                /\ ~file[prod[j].file].closing
                /\ file[prod[j].file].accepted + prod[j].left = Size[prod[j].file]
          /\ prod[j].pc = "reserve" => prod[j].left > 0
          /\ prod[j].pc = "commit" =>
                /\ file[prod[j].file].stage # None
                /\ prod[j].chunk > 0 /\ prod[j].chunk <= prod[j].left
                /\ buf[file[prod[j].file].stage].size + prod[j].chunk <= BufferSize
                /\ prod[j].fresh <=> buf[file[prod[j].file].stage].size = 0
          /\ prod[j].pc # "commit" => prod[j].chunk = 0
          /\ prod[j].pc = "done" => pending[j] = 0
    /\ \A f \in Files :
          /\ file[f].accepted <= Size[f]
          /\ ~file[f].closing /\ ~On(JobOf[f], f) => file[f].accepted = 0
          /\ file[f].next <= file[f].accepted
          /\ file[f].stage = None /\ (~file[f].closing \/ JobOf[f] \notin err) =>
                file[f].next = file[f].accepted
          /\ file[f].stage # None =>
                file[f].next + buf[file[f].stage].size = file[f].accepted

(* The buffers that hold data of a file or a job, the buffers of a file    *)
(* that are with the system, and the files of a job that are being closed. *)
Filled(f) == {b \in Buffers : buf[b].file = f /\ buf[b].size > 0}
InIO(f) == {b \in Buffers : buf[b].file = f /\ buf[b].at = "io"}
Holding(j) == {b \in Buffers : buf[b].file \in Files /\ JobOf[buf[b].file] = j /\ buf[b].size > 0}
Ending(j) == {f \in Files : JobOf[f] = j /\ file[f].closing /\ ~file[f].closed}

CountInv ==
    /\ \A f \in Files : /\ file[f].outstanding = Cardinality(Filled(f))
                        /\ file[f].active = Cardinality(InIO(f))
    /\ \A j \in Jobs : pending[j] = Cardinality(Holding(j)) + Cardinality(Ending(j))

(* The number of units when buffer b has n[b] of them.                     *)
Area(n) == Cardinality({p \in Buffers \X (1 .. BufferSize) : p[2] <= n[p[1]]})

OfFile(f) == [b \in Buffers |-> IF buf[b].file = f THEN buf[b].size ELSE 0]
OfJob(j) ==
    [b \in Buffers |-> IF buf[b].file \in Files /\ JobOf[buf[b].file] = j
                       THEN buf[b].size ELSE 0]
Left == [b \in Buffers |-> buf[b].size - buf[b].done]

(* What the decoder has reserved for the file.                             *)
Reserved(f) == IF prod[JobOf[f]].file = f THEN prod[JobOf[f]].chunk ELSE 0

AreaInv ==
    /\ \A f \in Files : /\ file[f].inflight = Area(OfFile(f)) + Reserved(f)
                        /\ file[f].inflight <= FileBudget
    /\ \A j \in Jobs : /\ inflight[j] = Area(OfJob(j)) + prod[j].chunk
                       /\ inflight[j] <= JobBudget
    /\ meter.pending = Area(Left)
    /\ meter.accepted \in Nat /\ meter.written \in Nat /\ meter.discarded \in Nat

(* A buffer that has its place in the file, and the units of it that are   *)
(* not on the disk.                                                        *)
Live(b) == buf[b].at \in {"queue", "held", "io", "retry"}
Missing(b, u) == buf[b].offset + buf[b].done <= u /\ u < buf[b].offset + buf[b].size

(* Places do not overlap, a unit without a confirmed write is not on the   *)
(* disk, and unless the job has failed a unit not on the disk is missing   *)
(* from a buffer that is still on its way.                                 *)
DiskInv ==
    /\ disk \in [Files -> UNION {[Units(f) -> Nat] : f \in Files}]
    /\ \A f \in Files : /\ disk[f] \in [Units(f) -> 0 .. 1]
                        /\ \A u \in Units(f) : u >= file[f].next => disk[f][u] = 0
    /\ \A b \in Buffers : Live(b) =>
          /\ buf[b].offset + buf[b].size <= file[buf[b].file].next
          /\ \A u \in Units(buf[b].file) : Missing(b, u) => disk[buf[b].file][u] = 0
    /\ \A b, c \in Buffers : Live(b) /\ Live(c) /\ buf[b].file = buf[c].file /\ b # c =>
          \/ buf[b].offset + buf[b].size <= buf[c].offset
          \/ buf[c].offset + buf[c].size <= buf[b].offset
    /\ \A f \in Files : JobOf[f] \notin err =>
          \A u \in Units(f) : u < file[f].next /\ disk[f][u] = 0 =>
              \E b \in Buffers : Live(b) /\ buf[b].file = f /\ Missing(b, u)

(* What a thread or a file has failed at, its job knows.                   *)
ErrInv ==
    /\ \A f \in Files :
          /\ file[f].failed => JobOf[f] \in err
          /\ file[f].handle => file[f].created
          /\ file[f].tried => file[f].created \/ file[f].failed
          /\ file[f].closed => file[f].created \/ JobOf[f] \in err
    /\ \A w \in Workers :
          /\ wk[w].pc = "settle" /\ wk[w].result = "ok" =>
                buf[wk[w].item].done = buf[wk[w].item].size
          /\ wk[w].pc = "settle" /\ wk[w].result \in {"permanent", "terminal"} =>
                JobOf[buf[wk[w].item].file] \in err
          /\ wk[w].pc = "csettle" /\ wk[w].result = "ok" =>
                file[wk[w].item].created \/ file[wk[w].item].failed

WriterInv ==
    /\ Types
    /\ PlaceInv
    /\ CloseInv
    /\ WakeInv
    /\ StageInv
    /\ DecoderInv
    /\ CountInv
    /\ AreaInv
    /\ DiskInv
    /\ ErrInv

-----------------------------------------------------------------------------
(* Queues as sets of items.                                                *)

(* An item at the back of a queue.                                         *)
LEMMA AppendFacts ==
    ASSUME NEW S, NEW q \in Seq(S), NEW x \in S, Once(q), x \notin ToSet(q)
    PROVE  /\ Append(q, x) \in Seq(S) /\ Once(Append(q, x))
           /\ ToSet(Append(q, x)) = ToSet(q) \cup {x}
<1> DEFINE r == Append(q, x)
           n == Len(q)
<1>1. /\ n \in Nat /\ r \in Seq(S) /\ Len(r) = n + 1 /\ DOMAIN r = 1 .. (n + 1)
      /\ DOMAIN q = 1 .. n /\ r[n + 1] = x /\ \A i \in 1 .. n : r[i] = q[i]
  OBVIOUS
<1> HIDE DEF r, n
<1>2. \A i \in 1 .. n : q[i] # x
  BY <1>1 DEF ToSet
<1>3. ASSUME NEW i \in 1 .. (n + 1), NEW k \in 1 .. (n + 1), r[i] = r[k]
      PROVE  i = k
  <2>1. \/ i \in 1 .. n /\ k \in 1 .. n
        \/ i = n + 1 /\ k = n + 1
        \/ i \in 1 .. n /\ k = n + 1
        \/ i = n + 1 /\ k \in 1 .. n
    BY <1>1
  <2>2. QED
    BY <1>1, <1>2, <1>3, <2>1 DEF Once
<1>4. Once(r)
  BY <1>1, <1>3 DEF Once
<1>5. ToSet(r) = ToSet(q) \cup {x}
  <2>1. ASSUME NEW y \in ToSet(r) PROVE y \in ToSet(q) \cup {x}
    <3>1. PICK i \in 1 .. (n + 1) : y = r[i]
      BY <1>1 DEF ToSet
    <3>2. i \in 1 .. n \/ i = n + 1
      BY <1>1
    <3>3. QED
      BY <1>1, <3>1, <3>2 DEF ToSet
  <2>2. ASSUME NEW y \in ToSet(q) PROVE y \in ToSet(r)
    <3>1. PICK i \in 1 .. n : y = q[i]
      BY <1>1 DEF ToSet
    <3>2. i \in 1 .. (n + 1) /\ r[i] = y
      BY <1>1, <3>1
    <3>3. QED
      BY <1>1, <3>2 DEF ToSet
  <2>3. x \in ToSet(r)
    <3>1. (n + 1) \in 1 .. (n + 1)
      BY <1>1
    <3>2. QED
      BY <1>1, <3>1 DEF ToSet
  <2>4. QED
    BY <2>1, <2>2, <2>3
<1>6. QED
  BY <1>1, <1>4, <1>5 DEF r

(* A queue without the entry at one of its places.                         *)
LEMMA RemoveFacts ==
    ASSUME NEW S, NEW q \in Seq(S), NEW p \in DOMAIN q, Once(q)
    PROVE  /\ RemoveAt(q, p) \in Seq(S) /\ Once(RemoveAt(q, p))
           /\ ToSet(RemoveAt(q, p)) = ToSet(q) \ {q[p]}
<1> DEFINE n == Len(q)
           r == RemoveAt(q, p)
           head == SubSeq(q, 1, p - 1)
           tail == SubSeq(q, p + 1, n)
           at(i) == IF i < p THEN i ELSE i + 1
<1>1. n \in Nat /\ DOMAIN q = 1 .. n /\ p \in 1 .. n
  OBVIOUS
<1>2. /\ head \in Seq(S) /\ Len(head) = p - 1
      /\ \A i \in 1 .. (p - 1) : head[i] = q[i]
  BY <1>1
<1>3. /\ tail \in Seq(S) /\ Len(tail) = n - p
      /\ \A i \in 1 .. (n - p) : tail[i] = q[p + i]
  BY <1>1, SMTT(60)
<1>4. r = head \o tail
  BY DEF RemoveAt
<1> HIDE DEF head, tail, r, n
<1>5. /\ r \in Seq(S) /\ Len(r) = n - 1 /\ DOMAIN r = 1 .. (n - 1)
      /\ \A i \in 1 .. (n - 1) : r[i] = IF i <= p - 1 THEN head[i] ELSE tail[i - (p - 1)]
  <2>1. /\ r \in Seq(S) /\ Len(r) = Len(head) + Len(tail)
        /\ \A i \in 1 .. (Len(head) + Len(tail)) :
              r[i] = IF i <= Len(head) THEN head[i] ELSE tail[i - Len(head)]
    BY <1>2, <1>3, <1>4, SMTT(60)
  <2>2. Len(head) + Len(tail) = n - 1
    BY <1>1, <1>2, <1>3
  <2>3. DOMAIN r = 1 .. Len(r)
    BY <2>1
  <2>4. QED
    BY <1>2, <2>1, <2>2, <2>3
<1>6. ASSUME NEW i \in 1 .. (n - 1)
      PROVE  at(i) \in 1 .. n /\ at(i) # p /\ r[i] = q[at(i)]
  <2>1. CASE i < p
    BY <1>1, <1>2, <1>5, <2>1
  <2>2. CASE ~(i < p)
    <3>1. i - (p - 1) \in 1 .. (n - p) /\ p + (i - (p - 1)) = i + 1
      BY <1>1, <2>2
    <3>2. r[i] = tail[i - (p - 1)]
      BY <1>1, <1>5, <2>2
    <3>3. QED
      BY <1>1, <1>3, <2>2, <3>1, <3>2, SMTT(60)
  <2>3. QED
    BY <2>1, <2>2
<1>7. \A i, k \in 1 .. (n - 1) : at(i) = at(k) => i = k
  BY <1>1
<1>8. Once(r)
  <2>1. ASSUME NEW i \in 1 .. (n - 1), NEW k \in 1 .. (n - 1), r[i] = r[k] PROVE i = k
    <3>1. at(i) = at(k)
      <4> HIDE DEF at
      <4>1. QED
        BY <1>1, <1>6, <2>1 DEF Once
    <3>2. QED
      BY <1>7, <3>1
  <2>2. QED
    BY <1>5, <2>1 DEF Once
<1>9. ToSet(r) = ToSet(q) \ {q[p]}
  <2>1. ASSUME NEW y \in ToSet(r) PROVE y \in ToSet(q) \ {q[p]}
    <3> HIDE DEF at
    <3>1. PICK i \in 1 .. (n - 1) : y = r[i]
      BY <1>5 DEF ToSet
    <3>2. at(i) \in 1 .. n /\ at(i) # p /\ y = q[at(i)]
      BY <1>6, <3>1
    <3>3. QED
      BY <1>1, <3>2 DEF Once, ToSet
  <2>2. ASSUME NEW y \in ToSet(q), y # q[p] PROVE y \in ToSet(r)
    <3>1. PICK i \in 1 .. n : y = q[i]
      BY <1>1 DEF ToSet
    <3>2. i # p
      BY <2>2, <3>1
    <3>3. CASE i < p
      <4>1. i \in 1 .. (n - 1) /\ at(i) = i
        BY <1>1, <3>3
      <4>2. QED
        BY <1>5, <1>6, <3>1, <4>1 DEF ToSet
    <3>4. CASE ~(i < p)
      <4>1. i - 1 \in 1 .. (n - 1) /\ at(i - 1) = i
        BY <1>1, <3>2, <3>4
      <4>2. QED
        BY <1>5, <1>6, <3>1, <4>1 DEF ToSet
    <3>5. QED
      BY <3>3, <3>4
  <2>3. QED
    BY <2>1, <2>2
<1>10. QED
  BY <1>5, <1>8, <1>9 DEF r

(* A queue without its first entry.                                        *)
LEMMA TailFacts ==
    ASSUME NEW S, NEW q \in Seq(S), q # <<>>, Once(q)
    PROVE  /\ Tail(q) \in Seq(S) /\ Once(Tail(q)) /\ Head(q) \in ToSet(q) /\ Head(q) \in S
           /\ ToSet(Tail(q)) = ToSet(q) \ {Head(q)}
<1>1. 1 \in DOMAIN q /\ Head(q) = q[1] /\ Len(q) \in Nat /\ Len(q) >= 1 /\ DOMAIN q = 1 .. Len(q)
  OBVIOUS
<1>2. DOMAIN Tail(q) = 1 .. (Len(q) - 1) /\ Tail(q) \in Seq(S)
      /\ \A i \in 1 .. (Len(q) - 1) : Tail(q)[i] = q[i + 1]
  OBVIOUS
<1> DEFINE r == Tail(q)
           n == Len(q)
<1> HIDE DEF r, n
<1>3. Once(r)
  <2>1. ASSUME NEW i \in 1 .. (n - 1), NEW k \in 1 .. (n - 1), r[i] = r[k] PROVE i = k
    <3>1. i + 1 \in 1 .. n /\ k + 1 \in 1 .. n /\ q[i + 1] = q[k + 1]
      BY <1>1, <1>2, <2>1 DEF r, n
    <3>2. i + 1 = k + 1
      BY <1>1, <3>1 DEF Once, n
    <3>3. QED
      BY <3>2
  <2>2. QED
    BY <1>2, <2>1 DEF Once, r, n
<1>4. ToSet(r) = ToSet(q) \ {Head(q)}
  <2>1. ASSUME NEW y \in ToSet(r) PROVE y \in ToSet(q) \ {Head(q)}
    <3>1. PICK i \in 1 .. (n - 1) : y = r[i]
      BY <1>2 DEF ToSet, r, n
    <3>2. i + 1 \in 1 .. n /\ i + 1 # 1 /\ y = q[i + 1]
      BY <1>1, <1>2, <3>1 DEF r, n
    <3>3. QED
      BY <1>1, <3>2 DEF Once, ToSet, n
  <2>2. ASSUME NEW y \in ToSet(q), y # Head(q) PROVE y \in ToSet(r)
    <3>1. PICK i \in 1 .. n : y = q[i]
      BY <1>1 DEF ToSet, n
    <3>2. i - 1 \in 1 .. (n - 1) /\ (i - 1) + 1 = i
      BY <1>1, <2>2, <3>1 DEF n
    <3>3. r[i - 1] = y
      BY <1>2, <3>1, <3>2 DEF r, n
    <3>4. QED
      BY <1>2, <3>2, <3>3 DEF ToSet, r, n
  <2>3. QED
    BY <2>1, <2>2
<1>5. Head(q) \in ToSet(q) /\ Head(q) \in S
  BY <1>1 DEF ToSet
<1>6. QED
  BY <1>2, <1>3, <1>4, <1>5 DEF r

-----------------------------------------------------------------------------
(* Counting.                                                               *)

(* The smallest of four numbers.                                           *)
LEMMA LeastOfFour ==
    ASSUME NEW a \in Int, NEW b \in Int, NEW c \in Int, NEW d \in Int
    PROVE  LET m == Min({a, b, c, d})
           IN  m \in {a, b, c, d} /\ m <= a /\ m <= b /\ m <= c /\ m <= d
<1> DEFINE S == {a, b, c, d}
<1>1. \E x \in S : \A y \in S : x <= y
  <2>1. PICK x \in {a, b} : x <= a /\ x <= b
    OBVIOUS
  <2>2. PICK y \in {c, d} : y <= c /\ y <= d
    OBVIOUS
  <2>3. PICK z \in {x, y} : z <= x /\ z <= y
    BY <2>1, <2>2
  <2>4. z \in S /\ z <= a /\ z <= b /\ z <= c /\ z <= d
    BY <2>1, <2>2, <2>3
  <2>5. QED
    BY <2>4
<1>2. Min(S) \in S /\ \A y \in S : Min(S) <= y
  BY <1>1 DEF Min
<1>3. QED
  BY <1>2

(* A finite set with an element more or less.                              *)
LEMMA Sizes ==
    ASSUME NEW X, IsFiniteSet(X), NEW S \in SUBSET X
    PROVE  /\ IsFiniteSet(S) /\ Cardinality(S) \in Nat /\ Cardinality(S) <= Cardinality(X)
           /\ Cardinality(S) = 0 <=> S = {}
           /\ \A x \in S : Cardinality(S \ {x}) = Cardinality(S) - 1
           /\ \A x \in X \ S : Cardinality(S \cup {x}) = Cardinality(S) + 1
<1>1. IsFiniteSet(S) /\ Cardinality(S) <= Cardinality(X)
  BY FS_Subset
<1>2. Cardinality(S) \in Nat
  BY <1>1, FS_CardinalityType
<1>3. Cardinality(S) = 0 <=> S = {}
  BY <1>1, FS_EmptySet
<1>4. ASSUME NEW x \in S PROVE Cardinality(S \ {x}) = Cardinality(S) - 1
  BY <1>1, FS_RemoveElement
<1>5. ASSUME NEW x \in X \ S PROVE Cardinality(S \cup {x}) = Cardinality(S) + 1
  BY <1>1, FS_AddElement
<1>6. QED
  BY <1>1, <1>2, <1>3, <1>4, <1>5

Fills == [Buffers -> 0 .. BufferSize]
Cells(n) == {p \in Buffers \X (1 .. BufferSize) : p[2] <= n[p[1]]}

(* One buffer more or less full.                                           *)
LEMMA AreaChange ==
    ASSUME NEW n \in Fills, NEW m \in Fills, NEW b \in Buffers,
           \A c \in Buffers : c # b => m[c] = n[c]
    PROVE  /\ Area(n) \in Nat /\ Area(m) \in Nat
           /\ n[b] <= Area(n) /\ Area(m) = Area(n) - n[b] + m[b]
<1> DEFINE Rest == {p \in Buffers \X (1 .. BufferSize) : p[1] # b /\ p[2] <= n[p[1]]}
           Row(k) == {b} \X (1 .. k)
<1>0. /\ IsFiniteSet(Buffers) /\ BufferSize \in Nat
      /\ n[b] \in 0 .. BufferSize /\ m[b] \in 0 .. BufferSize
  BY WriterAssumption DEF Fills
<1>1. IsFiniteSet(Rest) /\ Cardinality(Rest) \in Nat
  <2>1. IsFiniteSet(1 .. BufferSize)
    BY <1>0, FS_Interval
  <2>2. IsFiniteSet(Buffers \X (1 .. BufferSize))
    BY <1>0, <2>1, FS_Product
  <2>3. QED
    BY <2>2, FS_Subset, FS_CardinalityType
<1>2. ASSUME NEW k \in 0 .. BufferSize
      PROVE  /\ IsFiniteSet(Row(k)) /\ Cardinality(Row(k)) = k
             /\ Row(k) \cap Rest = {}
  <2>1. IsFiniteSet({b}) /\ Cardinality({b}) = 1
    BY FS_Singleton
  <2>2. IsFiniteSet(1 .. k) /\ Cardinality(1 .. k) = k
    <3>1. k \in Int /\ 1 \in Int /\ k >= 0
      BY <1>0
    <3>2. IsFiniteSet(1 .. k) /\ Cardinality(1 .. k) = IF 1 > k THEN 0 ELSE k - 1 + 1
      BY <3>1, FS_Interval
    <3>3. QED
      BY <3>1, <3>2
  <2>3. IsFiniteSet(Row(k)) /\ Cardinality(Row(k)) = 1 * k
    <3>1. /\ IsFiniteSet({b} \X (1 .. k))
          /\ Cardinality({b} \X (1 .. k)) = Cardinality({b}) * Cardinality(1 .. k)
      BY <2>1, <2>2, FS_Product
    <3>2. QED
      BY <2>1, <2>2, <3>1
  <2>4. Row(k) \cap Rest = {}
    OBVIOUS
  <2>5. QED
    BY <1>0, <2>3, <2>4
<1>3. ASSUME NEW k \in 0 .. BufferSize
      PROVE  Cardinality(Rest \cup Row(k)) = Cardinality(Rest) + k
  <2>1. Rest \cap Row(k) = {}
    BY <1>2
  <2>2. Cardinality(Rest \cup Row(k)) = Cardinality(Rest) + Cardinality(Row(k)) - 0
    BY <1>1, <1>2, <2>1, FS_Union, FS_EmptySet
  <2> HIDE DEF Row, Rest
  <2>3. QED
    BY <1>0, <1>1, <1>2, <2>2
<1>4. ASSUME NEW k \in Fills, \A c \in Buffers : c # b => k[c] = n[c]
      PROVE  Cells(k) = Rest \cup Row(k[b])
  <2>0. k[b] \in 0 .. BufferSize
    BY DEF Fills
  <2>1. ASSUME NEW p \in Cells(k) PROVE p \in Rest \cup Row(k[b])
    <3>1. p \in Buffers \X (1 .. BufferSize) /\ p[2] <= k[p[1]]
      BY DEF Cells
    <3>2. CASE p[1] = b
      <4>1. p[2] \in 1 .. k[b] /\ p = <<b, p[2]>>
        BY <1>0, <2>0, <3>1, <3>2
      <4>2. QED
        BY <4>1
    <3>3. CASE p[1] # b
      BY <1>4, <3>1, <3>3
    <3>4. QED
      BY <3>2, <3>3
  <2>2. ASSUME NEW p \in Rest PROVE p \in Cells(k)
    BY <1>4 DEF Cells
  <2>3. ASSUME NEW p \in Row(k[b]) PROVE p \in Cells(k)
    <3>1. p[1] = b /\ p[2] \in 1 .. k[b] /\ p = <<b, p[2]>>
      OBVIOUS
    <3>2. p[2] \in 1 .. BufferSize /\ p[2] <= k[b]
      BY <1>0, <2>0, <3>1
    <3>3. QED
      BY <3>1, <3>2 DEF Cells
  <2> HIDE DEF Rest, Row
  <2>4. QED
    BY <2>1, <2>2, <2>3
<1>5. Cells(n) = Rest \cup Row(n[b]) /\ Cells(m) = Rest \cup Row(m[b])
  BY <1>4
<1>6. Area(n) = Cardinality(Cells(n)) /\ Area(m) = Cardinality(Cells(m))
  BY DEF Area, Cells
<1> HIDE DEF Rest, Row
<1>7. QED
  BY <1>0, <1>1, <1>3, <1>4, <1>5, <1>6

(* Empty buffers have no units.                                            *)
LEMMA AreaEmpty ==
    ASSUME NEW n \in Fills, \A b \in Buffers : n[b] = 0
    PROVE  Area(n) = 0
<1>1. {p \in Buffers \X (1 .. BufferSize) : p[2] <= n[p[1]]} = {}
  BY WriterAssumption
<1>2. QED
  BY <1>1, FS_EmptySet DEF Area

LEMMA AreaNat ==
    ASSUME NEW n \in Fills PROVE Area(n) \in Nat
<1>1. IsFiniteSet(Buffers) /\ IsFiniteSet(1 .. BufferSize)
  BY WriterAssumption, FS_Interval
<1>2. IsFiniteSet(Buffers \X (1 .. BufferSize))
  BY <1>1, FS_Product
<1>3. Cells(n) \in SUBSET (Buffers \X (1 .. BufferSize))
  BY DEF Cells
<1>4. QED
  BY <1>2, <1>3, Sizes DEF Area, Cells

-----------------------------------------------------------------------------
(* Types.                                                                  *)

(* The gate stays a gate, whatever is done to it.                          *)
LEMMA GateTypes ==
    ASSUME NEW g \in GateRecords, NEW x \in Items
    PROVE  /\ ReportSpaceFailure(g) \in GateRecords
           /\ ClaimProbe(g, x) \in GateRecords
           /\ RecordQueryFailure(g) \in GateRecords
           /\ Poll(g, TRUE) \in GateRecords
           /\ \A r : SettleAttempt(g, x, r) \in GateRecords
           /\ [g EXCEPT !.episode = 0] \in GateRecords
<1>1. ReportSpaceFailure(g) \in GateRecords
  <2>1. CASE OpensEpisode(g)
    <3>1. g.episode + 1 \in Nat
      BY DEF GateRecords
    <3>2. ReportSpaceFailure(g) = [g EXCEPT !.phase = "blocked", !.episode = g.episode + 1,
                                           !.owner = NoToken, !.emitted = TRUE]
      BY <2>1 DEF ReportSpaceFailure, GateRecords
    <3>3. QED
      BY <3>1, <3>2 DEF GateRecords
  <2>2. CASE ~OpensEpisode(g)
    BY <2>2 DEF ReportSpaceFailure
  <2>3. QED
    BY <2>1, <2>2
<1>2. ClaimProbe(g, x) \in GateRecords
  BY DEF GateRecords, ClaimProbe
<1>3. RecordQueryFailure(g) \in GateRecords
  BY DEF GateRecords, RecordQueryFailure
<1>4. Poll(g, TRUE) \in GateRecords
  BY DEF GateRecords, Poll
<1>5. /\ SettleSuccess(g, x) \in GateRecords /\ SettleSpaceFailure(g, x) \in GateRecords
      /\ SettleInconclusive(g, x) \in GateRecords
  BY DEF GateRecords, SettleSuccess, SettleSpaceFailure, SettleInconclusive
<1>6. ASSUME NEW r PROVE SettleAttempt(g, x, r) \in GateRecords
  <2>1. r = "ok" \/ r = "space" \/ (r # "ok" /\ r # "space")
    OBVIOUS
  <2>2. SettleAttempt(g, x, r) \in {SettleSuccess(g, x), SettleSpaceFailure(g, x),
                                   SettleInconclusive(g, x)}
    BY <2>1 DEF SettleAttempt
  <2>3. QED
    BY <1>5, <2>2
<1>7. [g EXCEPT !.episode = 0] \in GateRecords
  BY DEF GateRecords
<1>8. QED
  BY <1>1, <1>2, <1>3, <1>4, <1>6, <1>7

LEMMA SettleGateTypes ==
    ASSUME Types, NEW x \in Items, NEW r, SettleGate(x, r)
    PROVE  gate' \in GateRecords /\ lease' \subseteq Items
<1>1. gate \in GateRecords /\ lease \subseteq Items
  BY DEF Types
<1>2. PICK g \in GateRecords : gate' = [g EXCEPT !.episode = 0]
  <2>1. CASE x \in lease
    BY <1>1, <2>1, GateTypes DEF SettleGate
  <2>2. CASE x \notin lease /\ r = "space"
    BY <1>1, <2>2, GateTypes DEF SettleGate
  <2>3. CASE x \notin lease /\ r # "space"
    BY <1>1, <2>3, GateTypes DEF SettleGate
  <2>4. QED
    BY <2>1, <2>2, <2>3
<1>3. QED
  BY <1>1, <1>2, GateTypes DEF SettleGate

(* A wake-up posts or finds a packet.                                      *)
LEMMA WakeTypes ==
    ASSUME Types, NEW c \in BOOLEAN, WakeIf(c)
    PROVE  posted' \in BOOLEAN /\ packet' \in BOOLEAN
BY DEF Types, WakeIf

(* Everything starts as it should.                                         *)
LEMMA TypesInit == Init => Types
<1> SUFFICES ASSUME Init PROVE Types
  OBVIOUS
<1>1. gate \in GateRecords
  BY DEF Init, NewGate, GateRecords, NoToken
<1>2. prod \in [Jobs -> Decoders]
  BY DEF Init, Decoder, Decoders
<1>3. file \in [Files -> FileStates]
  BY DEF Init, NewFile, FileStates
<1>4. buf \in [Buffers -> BufferStates]
  BY DEF Init, FreeBuffer, BufferStates
<1>5. wk \in [Workers -> Threads]
  BY DEF Init, Resting, Thread, Threads
<1>6. /\ vol \in {"free", "full", "gone"} /\ events \in 0 .. MaxEvents
      /\ token \subseteq Jobs /\ waking \subseteq token /\ err \subseteq Jobs
      /\ pending \in [Jobs -> Int] /\ inflight \in [Jobs -> Int] /\ lease \subseteq Items
  BY WriterAssumption DEF Init
<1>7. posted \in BOOLEAN /\ packet \in BOOLEAN
  BY Zenon DEF Init
<1>8. meter \in [accepted : Int, written : Int, discarded : Int, pending : Int]
  BY DEF Init
<1>9. QED
  BY <1>1, <1>2, <1>3, <1>4, <1>5, <1>6, <1>7, <1>8 DEF Types

(* What a thread can become.                                               *)
LEMMA ThreadTypes ==
    /\ \A again \in BOOLEAN : Resting(again) \in Threads
    /\ \A pc \in Serves, item \in Items, result \in {"ok", "space", "permanent", "terminal"},
          again \in BOOLEAN : Thread(pc, item, result, again) \in Threads
BY DEF Resting, Thread, Threads, Serves

LEMMA WkTypes ==
    ASSUME Types, NEW w \in Workers, NEW t \in Threads, wk' = [wk EXCEPT ![w] = t]
    PROVE  wk' \in [Workers -> Threads]
BY DEF Types

LEMMA TypesEnvironment ==
    ASSUME Types, \/ VolumeChanges \/ MonitorPolls \/ MonitorQueryFails
                  \/ \E j \in Jobs : Cancel(j) \/ WakeWaiters(j)
    PROVE  Types'
<1>1. CASE VolumeChanges
  BY <1>1, WriterAssumption DEF VolumeChanges, Types, envVars, jobVars, ioVars, wakeVars
<1>2. CASE MonitorPolls
  <2>1. gate' \in GateRecords
    BY <1>2, GateTypes, ZenonT(60) DEF MonitorPolls, Types, Poll, GateRecords
  <2>2. posted' \in BOOLEAN /\ packet' \in BOOLEAN
    BY <1>2, WakeTypes DEF MonitorPolls
  <2>3. QED
    BY <1>2, <2>1, <2>2 DEF MonitorPolls, Types, envVars, jobVars, ioVars
<1>3. CASE MonitorQueryFails
  <2>1. gate' \in GateRecords
    BY <1>3, GateTypes, ZenonT(60) DEF MonitorQueryFails, Types, RecordQueryFailure, GateRecords
  <2>2. posted' \in BOOLEAN /\ packet' \in BOOLEAN
    BY <1>3, WakeTypes DEF MonitorQueryFails
  <2>3. events' \in 0 .. MaxEvents
    BY <1>3, WriterAssumption DEF MonitorQueryFails, Types
  <2>4. QED
    BY <1>3, <2>1, <2>2, <2>3 DEF MonitorQueryFails, Types, jobVars, ioVars
<1>4. ASSUME NEW j \in Jobs, Cancel(j) PROVE Types'
  <2>1. events' \in 0 .. MaxEvents
    BY <1>4, WriterAssumption DEF Cancel, Types
  <2>2. QED
    BY <1>4, <2>1 DEF Cancel, Types, ioVars, wakeVars
<1>5. ASSUME NEW j \in Jobs, WakeWaiters(j) PROVE Types'
  <2>1. posted' \in BOOLEAN /\ packet' \in BOOLEAN
    BY <1>5, WakeTypes DEF WakeWaiters
  <2>2. waking' \subseteq token /\ err' \subseteq Jobs
    BY <1>5 DEF WakeWaiters, Synchronized, Types
  <2>3. QED
    BY <1>5, <2>1, <2>2 DEF WakeWaiters, Types, envVars, ioVars
<1>6. QED
  BY <1>1, <1>2, <1>3, <1>4, <1>5

-----------------------------------------------------------------------------
(* What the decoder's steps do, buffer by buffer and file by file.         *)

Staged(f) == [FreeBuffer EXCEPT !.at = "stage", !.file = f]

(* The file the decoder is on.                                             *)
LEMMA DecoderFile ==
    ASSUME WriterInv, NEW j \in Jobs, prod[j].pc \in Writing
    PROVE  LET f == prod[j].file IN
           /\ f \in Files /\ JobOf[f] = j /\ f # None
           /\ ~file[f].closing /\ ~file[f].queued /\ ~file[f].closed
           /\ file[f] \in FileStates /\ prod[j] \in Decoders
           /\ file[f].stage # None =>
                 /\ file[f].stage \in Buffers /\ buf[file[f].stage] \in BufferStates
                 /\ buf[file[f].stage].at = "stage" /\ buf[file[f].stage].file = f
                 /\ buf[file[f].stage].done = 0
<1>1. prod[j].file \in Files /\ JobOf[prod[j].file] = j /\ ~file[prod[j].file].closing
  BY DEF WriterInv, DecoderInv
<1>2. prod[j].file # None
  BY <1>1, WriterAssumption
<1>3. ~file[prod[j].file].queued /\ ~file[prod[j].file].closed
  BY <1>1 DEF WriterInv, CloseInv
<1>4. file[prod[j].file] \in FileStates /\ prod[j] \in Decoders
  BY <1>1 DEF WriterInv, Types
<1>5. ASSUME file[prod[j].file].stage # None
      PROVE  LET b == file[prod[j].file].stage
             IN  /\ b \in Buffers /\ buf[b] \in BufferStates /\ buf[b].at = "stage"
                 /\ buf[b].file = prod[j].file /\ buf[b].done = 0
  <2>1. file[prod[j].file].stage \in Buffers
    BY <1>4, <1>5 DEF FileStates
  <2>2. QED
    BY <1>1, <1>5, <2>1 DEF WriterInv, Types, StageInv
<1>6. QED
  BY <1>1, <1>2, <1>3, <1>4, <1>5

(* A chunk n is reserved in the staging buffer b, which is taken for it    *)
(* if the file has none.                                                   *)
Reserves(j, f, b, n) ==
    /\ f = prod[j].file /\ prod[j].pc = "reserve" /\ b \in Buffers /\ n \in Nat
    /\ n > 0 /\ n <= prod[j].left /\ buf[b].size + n <= BufferSize
    /\ inflight[j] + n <= JobBudget /\ file[f].inflight + n <= FileBudget
    /\ \/ file[f].stage = b /\ buf' = buf /\ buf[b].size > 0
       \/ file[f].stage = None /\ buf[b] = FreeBuffer /\ buf' = [buf EXCEPT ![b] = Staged(f)]
    /\ prod' = [prod EXCEPT ![j] =
           Decoder("commit", f, prod[j].left, n, file[f].stage = None)]
    /\ file' = [file EXCEPT ![f] =
           [file[f] EXCEPT !.stage = b, !.inflight = file[f].inflight + n]]
    /\ inflight' = [inflight EXCEPT ![j] = inflight[j] + n]
    /\ UNCHANGED <<gate, envVars, token, waking, err, pending, workQ, lease, retryQ,
                   wakeVars, wk, disk, meter>>

LEMMA ReserveEffect ==
    ASSUME WriterInv, NEW j \in Jobs, Reserve(j), j \notin err
    PROVE  \E f \in Files, b \in Buffers, n \in Nat : Reserves(j, f, b, n)
<1> DEFINE f == prod[j].file
           b == IF file[f].stage # None THEN file[f].stage
                ELSE CHOOSE x \in Buffers : buf[x].at = "free"
           four == {prod[j].left, BufferSize - buf[b].size, JobBudget - inflight[j],
                    FileBudget - file[f].inflight}
           n == Min(four)
<1>0. prod[j].pc = "reserve"
  BY Zenon DEF Reserve
<1>1. /\ f \in Files /\ JobOf[f] = j /\ f # None /\ file[f] \in FileStates
      /\ file[f].stage # None =>
            /\ file[f].stage \in Buffers
            /\ buf[file[f].stage].at = "stage" /\ buf[file[f].stage].file = f
            /\ buf[file[f].stage].done = 0
  BY <1>0, DecoderFile, Zenon DEF Writing
<1>2. CanAccept(j, f)
  BY Zenon DEF Reserve
<1>3. b \in Buffers /\ (file[f].stage = None => buf[b].at = "free")
  BY <1>1, <1>2 DEF CanAccept
<1>4. file[f].stage = None => buf[b] = FreeBuffer
  BY <1>3 DEF WriterInv, StageInv
<1>5. buf[b] \in BufferStates
  BY <1>3, SMTT(60) DEF WriterInv, Types
<1>6. buf[b].size < BufferSize /\ buf[b].size \in Nat
  <2>1. file[f].stage # None => buf[b].size < BufferSize
    BY <1>2 DEF CanAccept
  <2>2. file[f].stage = None => buf[b].size < BufferSize
    BY <1>4, WriterAssumption DEF FreeBuffer
  <2>3. QED
    BY <1>5, <2>1, <2>2 DEF BufferStates
<1>7. /\ prod[j].left \in Nat /\ prod[j].left > 0 /\ BufferSize \in Nat
      /\ JobBudget \in Nat /\ FileBudget \in Nat
      /\ inflight[j] \in Int /\ file[f].inflight \in Int
      /\ inflight[j] < JobBudget /\ file[f].inflight < FileBudget
  BY <1>0, <1>1, <1>2, WriterAssumption
     DEF CanAccept, WriterInv, Types, DecoderInv, Decoders, FileStates
<1>8. /\ n \in four /\ n <= prod[j].left /\ n <= BufferSize - buf[b].size
      /\ n <= JobBudget - inflight[j] /\ n <= FileBudget - file[f].inflight
  <2> DEFINE B == BufferSize - buf[b].size
             J == JobBudget - inflight[j]
             F == FileBudget - file[f].inflight
  <2> HIDE DEF b, f
  <2>1. prod[j].left \in Int /\ B \in Int /\ J \in Int /\ F \in Int
    BY <1>6, <1>7
  <2>2. n = Min({prod[j].left, B, J, F}) /\ four = {prod[j].left, B, J, F}
    OBVIOUS
  <2> HIDE DEF B, J, F, n, four
  <2>3. n \in {prod[j].left, B, J, F} /\ n <= prod[j].left /\ n <= B /\ n <= J /\ n <= F
    BY <2>1, <2>2, LeastOfFour, Zenon
  <2>4. QED
    BY <2>2, <2>3 DEF B, J, F
<1>9. /\ n \in Nat /\ n > 0 /\ buf[b].size + n <= BufferSize
      /\ inflight[j] + n <= JobBudget /\ file[f].inflight + n <= FileBudget
  <2> HIDE DEF b, f, n
  <2>1. QED
    BY <1>6, <1>7, <1>8
<1>10. /\ prod' = [prod EXCEPT ![j] = Decoder("commit", f, prod[j].left, n, file[f].stage = None)]
       /\ buf' = [buf EXCEPT ![b].at = "stage", ![b].file = f]
       /\ file' = [file EXCEPT ![f].stage = b, ![f].inflight = @ + n]
       /\ inflight' = [inflight EXCEPT ![j] = @ + n]
       /\ UNCHANGED <<gate, envVars, token, waking, err, pending, workQ, lease, retryQ,
                      wakeVars, wk, disk, meter>>
  BY Zenon DEF Reserve
<1> HIDE DEF b, f, n
<1>11. file' = [file EXCEPT ![f] =
           [file[f] EXCEPT !.stage = b, !.inflight = file[f].inflight + n]]
  BY <1>1, <1>10, Zenon DEF WriterInv, Types
<1>12. inflight' = [inflight EXCEPT ![j] = inflight[j] + n]
  BY <1>10 DEF WriterInv, Types
<1>13. CASE file[f].stage # None
  <2>1. b = file[f].stage
    BY <1>13 DEF b
  <2>2. buf[b].at = "stage" /\ buf[b].file = f
    BY <1>1, <1>13, <2>1
  <2>3. buf' = buf
    BY <1>3, <1>10, <2>2 DEF WriterInv, Types, BufferStates
  <2>4. buf[b].size # 0
    BY <1>0, <1>1, <1>3, <2>2 DEF WriterInv, StageInv
  <2>5. buf[b].size > 0
    BY <1>6, <2>4
  <2>6. QED
    BY <1>0, <1>1, <1>3, <1>8, <1>9, <1>10, <1>11, <1>12, <2>1, <2>3, <2>5, Zenon DEF Reserves, f
<1>14. CASE file[f].stage = None
  <2>1. buf' = [buf EXCEPT ![b] = Staged(f)]
    <3>1. buf[b] = FreeBuffer
      BY <1>4, <1>14
    <3>2. buf' = [buf EXCEPT ![b] = [buf[b] EXCEPT !.at = "stage", !.file = f]]
      BY <1>3, <1>10, Zenon DEF WriterInv, Types
    <3>3. QED
      BY <3>1, <3>2 DEF Staged
  <2>2. QED
    BY <1>0, <1>1, <1>3, <1>4, <1>8, <1>9, <1>10, <1>11, <1>12, <1>14, <2>1, Zenon DEF Reserves, f
<1>15. QED
  BY <1>13, <1>14, Zenon

(* The reservation of n units in b is undone.                              *)
Aborts(j, f, b, n) ==
    /\ f = prod[j].file /\ prod[j].pc = "commit" /\ j \in err
    /\ b = file[f].stage /\ b \in Buffers /\ n = prod[j].chunk
    /\ prod' = [prod EXCEPT ![j] = Decoder("close", f, prod[j].left, 0, FALSE)]
    /\ file' = [file EXCEPT ![f] = [file[f] EXCEPT
           !.inflight = file[f].inflight - n,
           !.stage = IF prod[j].fresh THEN None ELSE b]]
    /\ \/ prod[j].fresh /\ buf[b].size = 0 /\ buf' = [buf EXCEPT ![b] = FreeBuffer]
       \/ ~prod[j].fresh /\ buf[b].size > 0 /\ buf' = buf
    /\ inflight' = [inflight EXCEPT ![j] = inflight[j] - n]
    /\ UNCHANGED <<gate, envVars, token, waking, err, pending, workQ, lease,
                   retryQ, wakeVars, wk, disk, meter>>

LEMMA AbortEffect ==
    ASSUME WriterInv, NEW j \in Jobs, CommitAborts(j)
    PROVE  \E f \in Files, b \in Buffers, n \in Nat : Aborts(j, f, b, n)
<1> DEFINE f == prod[j].file
           b == file[f].stage
           n == prod[j].chunk
<1>0. prod[j].pc = "commit" /\ j \in err
  BY DEF CommitAborts
<1>1. /\ f \in Files /\ file[f] \in FileStates /\ prod[j] \in Decoders
      /\ b # None => b \in Buffers /\ buf[b] \in BufferStates
  BY <1>0, DecoderFile DEF Writing
<1>2. b # None /\ (prod[j].fresh <=> buf[b].size = 0)
  BY <1>0 DEF WriterInv, DecoderInv
<1>3. b \in Buffers /\ buf[b].size \in Nat /\ n \in Nat
  BY <1>1, <1>2 DEF BufferStates, Decoders
<1>4. /\ prod' = [prod EXCEPT ![j] = Decoder("close", f, @.left, 0, FALSE)]
      /\ inflight' = [inflight EXCEPT ![j] = @ - n]
      /\ file' = [file EXCEPT ![f].inflight = @ - n,
                              ![f].stage = IF prod[j].fresh THEN None ELSE @]
      /\ buf' = [buf EXCEPT ![b] = IF prod[j].fresh THEN FreeBuffer ELSE @]
      /\ UNCHANGED <<gate, envVars, token, waking, err, pending, workQ, lease,
                     retryQ, wakeVars, wk, disk, meter>>
  BY DEF CommitAborts
<1>5. b = file[f].stage /\ f = prod[j].file /\ n = prod[j].chunk
  OBVIOUS
<1> HIDE DEF b, n, f
<1>6. prod' = [prod EXCEPT ![j] = Decoder("close", f, prod[j].left, 0, FALSE)]
      /\ inflight' = [inflight EXCEPT ![j] = inflight[j] - n]
  BY <1>4 DEF WriterInv, Types
<1>7. file' = [file EXCEPT ![f] = [file[f] EXCEPT
           !.inflight = file[f].inflight - n,
           !.stage = IF prod[j].fresh THEN None ELSE b]]
  BY <1>1, <1>4, <1>5 DEF WriterInv, Types, FileStates
<1>8. \/ prod[j].fresh /\ buf[b].size = 0 /\ buf' = [buf EXCEPT ![b] = FreeBuffer]
      \/ ~prod[j].fresh /\ buf[b].size > 0 /\ buf' = buf
  <2>1. CASE prod[j].fresh
    BY <1>2, <1>4, <2>1
  <2>2. CASE ~prod[j].fresh
    <3>1. buf' = [buf EXCEPT ![b] = buf[b]]
      BY <1>3, <1>4, <2>2 DEF WriterInv, Types
    <3>2. buf' = buf
      BY <1>3, <3>1 DEF WriterInv, Types
    <3>3. buf[b].size > 0
      BY <1>2, <1>3, <2>2
    <3>4. QED
      BY <2>2, <3>2, <3>3
  <2>3. QED
    BY <2>1, <2>2
<1>9. QED
  BY <1>0, <1>1, <1>3, <1>4, <1>5, <1>6, <1>7, <1>8, ZenonT(60) DEF Aborts

(* A chunk of n units is accepted into b, which has size of them then; it  *)
(* is queued if it is full and the queue has room.                         *)
Accepts(j, f, b, n, size, first, pc) ==
    /\ f = prod[j].file /\ prod[j].pc = "commit" /\ j \notin err
    /\ b = file[f].stage /\ b \in Buffers /\ n = prod[j].chunk
    /\ size = buf[b].size + n /\ size > 0 /\ size <= BufferSize
    /\ \/ buf[b].size = 0 /\ first = 1
       \/ buf[b].size > 0 /\ first = 0
    /\ pending' = [pending EXCEPT ![j] = pending[j] + first]
    /\ meter' = Accepted(meter, n)
    /\ pc \in {"reserve", "close"} /\ (pc = "reserve" => prod[j].left - n > 0)
    /\ prod' = [prod EXCEPT ![j] = Decoder(pc, f, prod[j].left - n, 0, FALSE)]
    /\ UNCHANGED <<gate, envVars, token, waking, err, inflight, lease, retryQ,
                   wakeVars, wk, disk>>

Kept(f, b, n, size, first) ==
    /\ buf' = [buf EXCEPT ![b] = [buf[b] EXCEPT !.size = size]]
    /\ file' = [file EXCEPT ![f] = [file[f] EXCEPT !.accepted = file[f].accepted + n,
                                         !.outstanding = file[f].outstanding + first]]
    /\ workQ' = workQ

Enqueued(f, b, n, size, first) ==
    /\ buf' = [buf EXCEPT ![b] = [buf[b] EXCEPT !.size = size, !.at = "queue",
                                                !.offset = file[f].next]]
    /\ file' = [file EXCEPT ![f] = [file[f] EXCEPT !.accepted = file[f].accepted + n,
                                         !.outstanding = file[f].outstanding + first,
                                         !.stage = None, !.next = file[f].next + size]]
    /\ workQ' = Append(workQ, b)

LEMMA CommitEffect ==
    ASSUME WriterInv, NEW j \in Jobs, Commit(j)
    PROVE  \E f \in Files, b \in Buffers, n \in Nat, size \in Nat, first \in {0, 1},
              pc \in {"reserve", "close"} :
              Accepts(j, f, b, n, size, first, pc)
                  /\ (Kept(f, b, n, size, first) \/ Enqueued(f, b, n, size, first))
<1> DEFINE f == prod[j].file
           b == file[f].stage
           n == prod[j].chunk
           size == buf[b].size + n
           first == IF buf[b].size = 0 THEN 1 ELSE 0
           bs == [buf EXCEPT ![b].size = size]
           fl == [file[f] EXCEPT !.accepted = @ + n, !.outstanding = @ + first]
           full == size = BufferSize
           room == Len(workQ) < QueueLimit
           left == prod[j].left - n
           pc == IF left = 0 \/ (full /\ ~room) THEN "close" ELSE "reserve"
<1>0. prod[j].pc = "commit" /\ j \notin err
  BY Zenon DEF Commit
<1>1. /\ f \in Files /\ file[f] \in FileStates /\ prod[j] \in Decoders
      /\ b # None => b \in Buffers /\ buf[b] \in BufferStates
  BY <1>0, DecoderFile DEF Writing
<1>2. /\ b # None /\ n > 0 /\ n <= prod[j].left /\ size <= BufferSize
  BY <1>0 DEF WriterInv, DecoderInv
<1>3. b \in Buffers /\ buf[b].size \in Nat /\ n \in Nat /\ prod[j].left \in Nat
  BY <1>1, <1>2, Zenon DEF BufferStates, Decoders
<1>4. /\ pending' = [pending EXCEPT ![j] = @ + first]
      /\ meter' = Accepted(meter, n)
      /\ prod' = [prod EXCEPT ![j] = Decoder(pc, f, left, 0, FALSE)]
      /\ UNCHANGED <<gate, envVars, token, waking, err, inflight, lease, retryQ,
                     wakeVars, wk, disk>>
  BY Zenon DEF Commit
<1>5. IF full /\ room
      THEN /\ buf' = QueueStage(fl, bs).buf
           /\ file' = [file EXCEPT ![f] = QueueStage(fl, bs).file]
           /\ workQ' = Append(workQ, b)
      ELSE /\ buf' = bs
           /\ file' = [file EXCEPT ![f] = fl]
           /\ UNCHANGED workQ
  BY Zenon DEF Commit
<1>6. /\ fl = [file[f] EXCEPT !.accepted = file[f].accepted + n,
                              !.outstanding = file[f].outstanding + first]
      /\ bs = [buf EXCEPT ![b] = [buf[b] EXCEPT !.size = size]]
  BY <1>1, <1>3, SMTT(60) DEF WriterInv, Types, FileStates
<1>7. /\ first \in {0, 1} /\ ((buf[b].size = 0 /\ first = 1) \/ (buf[b].size > 0 /\ first = 0))
      /\ size \in Nat /\ size > 0
      /\ pc \in {"reserve", "close"} /\ (pc = "reserve" => left > 0)
  <2>1. first \in {0, 1} /\ ((buf[b].size = 0 /\ first = 1) \/ (buf[b].size > 0 /\ first = 0))
    <3>1. buf[b].size = 0 \/ buf[b].size > 0
      BY <1>3
    <3>2. buf[b].size = 0 => first = 1
      OBVIOUS
    <3>3. buf[b].size > 0 => first = 0
      <4>1. buf[b].size # 0 => first = 0
        OBVIOUS
      <4> HIDE DEF b, first
      <4>2. QED
        BY <1>3, <4>1
    <3> HIDE DEF b, first
    <3>4. QED
      BY <3>1, <3>2, <3>3
  <2>2. size \in Nat /\ size > 0
    <3> HIDE DEF b, n
    <3>1. QED
      BY <1>2, <1>3
  <2>3. pc \in {"reserve", "close"} /\ (pc = "reserve" => left # 0)
    <3> HIDE DEF left, full, room
    <3>1. QED
      OBVIOUS
  <2>4. left \in Nat
    <3> HIDE DEF n
    <3>1. QED
      BY <1>2, <1>3
  <2>5. QED
    BY <2>1, <2>2, <2>3, <2>4
<1>8. f = prod[j].file /\ b = file[f].stage /\ n = prod[j].chunk /\ size = buf[b].size + n
      /\ left = prod[j].left - n
  BY Zenon
<1> HIDE DEF b, f, n, size, first, full, room, left, pc
<1>9. Accepts(j, f, b, n, size, first, pc)
  <2>1. pending' = [pending EXCEPT ![j] = pending[j] + first]
    BY <1>4 DEF WriterInv, Types
  <2>2. QED
    BY <1>0, <1>2, <1>3, <1>4, <1>7, <1>8, <2>1, Zenon DEF Accepts
<1>10. CASE ~(full /\ room)
  <2>1. Kept(f, b, n, size, first)
    <3>1. buf' = bs /\ file' = [file EXCEPT ![f] = fl] /\ workQ' = workQ
      BY <1>5, <1>10
    <3> HIDE DEF bs, fl
    <3>2. QED
      BY <1>6, <3>1 DEF Kept
  <2>2. QED
    BY <1>1, <1>3, <1>7, <1>9, <2>1
<1>11. CASE full /\ room
  <2>1. /\ buf' = QueueStage(fl, bs).buf /\ file' = [file EXCEPT ![f] = QueueStage(fl, bs).file]
        /\ workQ' = Append(workQ, b)
    BY <1>5, <1>11
  <2>2. /\ fl.stage = b /\ fl.next = file[f].next /\ fl \in FileStates
        /\ bs[b].size = size /\ bs[b] = [buf[b] EXCEPT !.size = size]
        /\ bs \in [Buffers -> BufferStates]
    <3>1. buf \in [Buffers -> BufferStates] /\ buf[b] \in BufferStates
      BY <1>3 DEF WriterInv, Types
    <3>2. [buf[b] EXCEPT !.size = size] \in BufferStates
      BY <1>7, <3>1 DEF BufferStates
    <3>3. /\ bs \in [Buffers -> BufferStates] /\ bs[b] = [buf[b] EXCEPT !.size = size]
      BY <1>3, <1>6, <3>1, <3>2
    <3>4. [buf[b] EXCEPT !.size = size].size = size
      BY <3>1 DEF BufferStates
    <3>5. file[f].accepted + n \in Nat /\ file[f].outstanding + first \in Int
      BY <1>1, <1>3, <1>7, SMTT(60) DEF FileStates
    <3>6. fl.stage = b /\ fl.next = file[f].next /\ fl \in FileStates
      BY <1>1, <1>6, <1>8, <3>5 DEF FileStates
    <3> HIDE DEF bs, fl
    <3>7. QED
      BY <3>3, <3>4, <3>6
  <2>3. QueueStage(fl, bs).file = [fl EXCEPT !.stage = None, !.next = file[f].next + size]
    <3> HIDE DEF fl, bs
    <3>1. QED
      BY <2>2 DEF QueueStage, FileStates
  <2>4. QueueStage(fl, bs).buf = [bs EXCEPT ![b] = [bs[b] EXCEPT !.at = "queue", !.offset = file[f].next]]
    <3> HIDE DEF fl, bs
    <3>1. QED
      BY <1>3, <2>2 DEF QueueStage
  <2>5. [fl EXCEPT !.stage = None, !.next = file[f].next + size]
          = [file[f] EXCEPT !.accepted = file[f].accepted + n,
                            !.outstanding = file[f].outstanding + first,
                            !.stage = None, !.next = file[f].next + size]
    BY <1>1, <1>6 DEF FileStates
  <2>6. [bs EXCEPT ![b] = [bs[b] EXCEPT !.at = "queue", !.offset = file[f].next]]
          = [buf EXCEPT ![b] = [buf[b] EXCEPT !.size = size, !.at = "queue",
                                              !.offset = file[f].next]]
    <3> DEFINE q == [buf[b] EXCEPT !.size = size]
               r == [bs[b] EXCEPT !.at = "queue", !.offset = file[f].next]
    <3>1. r = [buf[b] EXCEPT !.size = size, !.at = "queue", !.offset = file[f].next]
      BY <2>2
    <3>2. bs = [buf EXCEPT ![b] = q]
      BY <1>6
    <3> HIDE DEF bs, r, q
    <3>3. [bs EXCEPT ![b] = r] = [buf EXCEPT ![b] = r]
      BY <1>3, <3>2 DEF WriterInv, Types
    <3>4. [bs EXCEPT ![b] = r] = [buf EXCEPT ![b] =
               [buf[b] EXCEPT !.size = size, !.at = "queue", !.offset = file[f].next]]
      BY <3>1, <3>3
    <3>5. QED
      BY <3>4 DEF r
  <2>7. Enqueued(f, b, n, size, first)
    BY <2>1, <2>3, <2>4, <2>5, <2>6 DEF Enqueued
  <2>8. QED
    BY <1>1, <1>3, <1>7, <1>9, <2>7
<1>12. QED
  BY <1>10, <1>11, Zenon

(* The close of a closing file is queued when no buffer is outstanding.    *)
LEMMA QueueCloseFacts ==
    ASSUME NEW fl \in FileStates, fl.closing, ~fl.queued, ~fl.closed, NEW f
    PROVE  /\ fl.outstanding = 0 => /\ QueueClose(fl) = [fl EXCEPT !.queued = TRUE]
                                    /\ CloseItem(f, fl) = <<f>>
           /\ fl.outstanding # 0 => /\ QueueClose(fl) = fl
                                    /\ CloseItem(f, fl) = <<>>
<1>1. CASE fl.outstanding = 0
  <2>1. WantsClose(fl)
    BY <1>1 DEF WantsClose
  <2>2. (fl.queued \/ WantsClose(fl)) = TRUE
    BY <2>1, Zenon
  <2>3. QueueClose(fl) = [fl EXCEPT !.queued = TRUE]
    BY <2>2, Zenon DEF QueueClose
  <2>4. QED
    BY <1>1, <2>1, <2>3 DEF CloseItem
<1>2. CASE fl.outstanding # 0
  <2>1. ~WantsClose(fl)
    BY <1>2 DEF WantsClose
  <2>2. fl.queued = FALSE
    BY DEF FileStates
  <2>3. (fl.queued \/ WantsClose(fl)) = FALSE
    BY <2>1, Zenon
  <2>4. QueueClose(fl) = [fl EXCEPT !.queued = FALSE]
    BY <2>3, Zenon DEF QueueClose
  <2>5. [fl EXCEPT !.queued = FALSE] = fl
    BY <2>2 DEF FileStates
  <2>6. QED
    BY <1>2, <2>1, <2>4, <2>5 DEF CloseItem
<1>3. QED
  BY <1>1, <1>2

LEMMA ConcatFacts ==
    ASSUME NEW S, NEW q \in Seq(S), NEW x \in S
    PROVE  q \o <<>> = q /\ q \o <<x>> = Append(q, x)
OBVIOUS

(* Data of a staged buffer is outstanding.                                 *)
LEMMA StagedCounts ==
    ASSUME WriterInv, NEW f \in Files, NEW b \in Buffers, buf[b].file = f, buf[b].size > 0
    PROVE  file[f].outstanding \in Nat /\ file[f].outstanding > 0
<1>1. b \in Filled(f) /\ Filled(f) \subseteq Buffers
  BY DEF Filled
<1>2. Cardinality(Filled(f)) \in Nat /\ Cardinality(Filled(f)) # 0
  BY <1>1, Sizes, WriterAssumption
<1>3. QED
  BY <1>2 DEF WriterInv, CountInv

(* The stream of f is closed: without data in a buffer, with data that is  *)
(* dropped because the job has failed, or with data that is queued.        *)
Closes(j, f) ==
    /\ f = prod[j].file /\ prod[j].pc = "close"
    /\ err' = Synchronized({j})
    /\ \E pc \in {"next", "finish"} : prod' = [prod EXCEPT ![j] = Decoder(pc, None, 0, 0, FALSE)]
    /\ UNCHANGED <<gate, envVars, token, waking, lease, retryQ, wakeVars, wk, disk>>

CloseQueued(f, fl) ==
    \/ /\ fl.outstanding = 0
       /\ file' = [file EXCEPT ![f] = [fl EXCEPT !.queued = TRUE]]
       /\ workQ' = Append(workQ, f)
    \/ /\ fl.outstanding # 0
       /\ file' = [file EXCEPT ![f] = fl]
       /\ workQ' = workQ

ClosesBare(j, f) ==
    /\ Closes(j, f) /\ file[f].stage = None
    /\ CloseQueued(f, [file[f] EXCEPT !.closing = TRUE])
    /\ pending' = [pending EXCEPT ![j] = pending[j] + 1]
    /\ UNCHANGED <<buf, inflight, meter>>

ClosesDropping(j, f, b) ==
    /\ Closes(j, f) /\ b = file[f].stage /\ j \in err'
    /\ CloseQueued(f, [file[f] EXCEPT !.closing = TRUE, !.stage = None,
                           !.inflight = file[f].inflight - buf[b].size,
                           !.outstanding = file[f].outstanding - 1])
    /\ buf' = [buf EXCEPT ![b] = FreeBuffer]
    /\ inflight' = [inflight EXCEPT ![j] = inflight[j] - buf[b].size]
    /\ meter' = Discarded(meter, buf[b].size)
    /\ UNCHANGED pending

ClosesQueueing(j, f, b) ==
    /\ Closes(j, f) /\ b = file[f].stage /\ j \notin err'
    /\ file' = [file EXCEPT ![f] = [file[f] EXCEPT !.closing = TRUE, !.stage = None,
                                        !.next = file[f].next + buf[b].size]]
    /\ buf' = [buf EXCEPT ![b] = [buf[b] EXCEPT !.at = "queue", !.offset = file[f].next]]
    /\ workQ' = Append(workQ, b)
    /\ pending' = [pending EXCEPT ![j] = pending[j] + 1]
    /\ UNCHANGED <<inflight, meter>>

LEMMA NothingDiscarded ==
    ASSUME Types PROVE Discarded(meter, 0) = meter
<1>1. meter \in [accepted : Int, written : Int, discarded : Int, pending : Int]
  BY DEF Types
<1>2. meter.discarded + 0 = meter.discarded /\ meter.pending - 0 = meter.pending
  BY <1>1
<1>3. Discarded(meter, 0) = [meter EXCEPT !.discarded = meter.discarded, !.pending = meter.pending]
  BY <1>1, <1>2, Zenon DEF Discarded
<1>4. QED
  BY <1>1, <1>3

LEMMA CloseEffect ==
    ASSUME WriterInv, NEW j \in Jobs, CloseFile(j)
    PROVE  \E f \in Files : \/ ClosesBare(j, f)
                            \/ \E b \in Buffers : /\ buf[b].size > 0
                                                  /\ ClosesDropping(j, f, b) \/ ClosesQueueing(j, f, b)
<1> DEFINE f == prod[j].file
           b == file[f].stage
           fl == [file[f] EXCEPT !.closing = TRUE]
           drop == [fl EXCEPT !.stage = None, !.inflight = @ - buf[b].size,
                              !.outstanding = @ - 1]
           dropped == IF b # None /\ j \in err' THEN buf[b].size ELSE 0
           last == IF b = None THEN fl
                   ELSE IF j \in err' THEN drop ELSE QueueStage(fl, buf).file
<1>0. prod[j].pc = "close"
  BY Zenon DEF CloseFile
<1>1. /\ f \in Files /\ JobOf[f] = j /\ file[f] \in FileStates
      /\ ~file[f].closing /\ ~file[f].queued /\ ~file[f].closed
      /\ b # None => /\ b \in Buffers /\ buf[b] \in BufferStates
                     /\ buf[b].at = "stage" /\ buf[b].file = f
  BY <1>0, DecoderFile, Zenon DEF Writing
<1>2. Closes(j, f)
  BY <1>0, Zenon DEF CloseFile, Closes
<1>3. /\ file' = [file EXCEPT ![f] = QueueClose(last)]
      /\ buf' = IF b = None THEN buf
                ELSE IF j \in err' THEN [buf EXCEPT ![b] = FreeBuffer]
                ELSE QueueStage(fl, buf).buf
      /\ workQ' = workQ \o (IF b = None \/ j \in err' THEN <<>> ELSE <<b>>)
                        \o CloseItem(f, last)
      /\ inflight' = [inflight EXCEPT ![j] = @ - dropped]
      /\ pending' = [pending EXCEPT ![j] = @ + (IF dropped > 0 THEN 0 ELSE 1)]
      /\ meter' = Discarded(meter, dropped)
  BY Zenon DEF CloseFile
<1>4. f = prod[j].file /\ b = file[f].stage
  OBVIOUS
<1> HIDE DEF f, b
<1>5. fl \in FileStates /\ fl.closing /\ ~fl.queued /\ ~fl.closed /\ fl.stage = b
      /\ fl.next = file[f].next /\ fl.outstanding = file[f].outstanding
      /\ fl.inflight = file[f].inflight
  BY <1>1, <1>4 DEF FileStates
<1>6. /\ workQ \in Seq(Items) /\ f \in Items /\ (b # None => b \in Items)
      /\ pending \in [Jobs -> Int] /\ inflight \in [Jobs -> Int]
      /\ file \in [Files -> FileStates] /\ buf \in [Buffers -> BufferStates]
  BY <1>1 DEF WriterInv, Types, PlaceInv, Items
<1>7. CASE b = None
  <2>1. last = fl /\ dropped = 0 /\ buf' = buf
    BY <1>3, <1>7
  <2>2. workQ' = workQ \o CloseItem(f, fl)
    BY <1>3, <1>6, <1>7, <2>1, ConcatFacts
  <2>3. file' = [file EXCEPT ![f] = QueueClose(fl)]
    BY <1>3, <2>1
  <2>4. CloseQueued(f, fl)
    <3> HIDE DEF fl
    <3>1. CASE fl.outstanding = 0
      <4>1. QueueClose(fl) = [fl EXCEPT !.queued = TRUE] /\ CloseItem(f, fl) = <<f>>
        BY <1>5, <3>1, QueueCloseFacts
      <4>2. QED
        BY <1>6, <2>2, <2>3, <3>1, <4>1, ConcatFacts DEF CloseQueued
    <3>2. CASE fl.outstanding # 0
      <4>1. QueueClose(fl) = fl /\ CloseItem(f, fl) = <<>>
        BY <1>5, <3>2, QueueCloseFacts
      <4>2. QED
        BY <1>6, <2>2, <2>3, <3>2, <4>1, ConcatFacts DEF CloseQueued
    <3>3. QED
      BY <3>1, <3>2
  <2>5. meter' = meter
    BY <1>3, <2>1, NothingDiscarded DEF WriterInv
  <2>6. inflight' = inflight /\ pending' = [pending EXCEPT ![j] = pending[j] + 1]
    <3>1. (IF dropped > 0 THEN 0 ELSE 1) = 1 /\ dropped = 0
      BY <2>1
    <3> HIDE DEF dropped
    <3>2. inflight[j] - dropped = inflight[j]
      BY <1>6, <3>1
    <3>3. inflight' = [inflight EXCEPT ![j] = inflight[j]]
      BY <1>3, <1>6, <3>2
    <3>4. QED
      BY <1>3, <1>6, <3>1, <3>3
  <2>7. ClosesBare(j, f)
    BY <1>2, <1>4, <1>7, <2>1, <2>4, <2>5, <2>6 DEF ClosesBare
  <2>8. QED
    BY <1>1, <2>7
<1>8. ASSUME b # None PROVE b \in Buffers /\ buf[b].size \in Nat /\ buf[b].size > 0
                            /\ file[f].outstanding \in Nat /\ file[f].outstanding > 0
  <2>1. b \in Buffers /\ buf[b].at = "stage" /\ buf[b].file = f /\ buf[b].size \in Nat
    BY <1>1, <1>8 DEF BufferStates
  <2>2. buf[b].size # 0
    BY <1>0, <1>1, <2>1 DEF WriterInv, StageInv
  <2>3. buf[b].size > 0
    BY <2>1, <2>2
  <2>4. QED
    BY <1>1, <2>1, <2>3, StagedCounts
<1>9. CASE b # None /\ j \in err'
  <2> DEFINE gone == [file[f] EXCEPT !.closing = TRUE, !.stage = None,
                           !.inflight = file[f].inflight - buf[b].size,
                           !.outstanding = file[f].outstanding - 1]
  <2>1. last = drop /\ dropped = buf[b].size /\ buf' = [buf EXCEPT ![b] = FreeBuffer]
    BY <1>3, <1>9
  <2>2. drop = gone
    BY <1>5
  <2>3. gone \in FileStates /\ gone.closing /\ ~gone.queued /\ ~gone.closed
    <3>1. file[f].inflight - buf[b].size \in Int /\ file[f].outstanding - 1 \in Int
      BY <1>1, <1>8, <1>9 DEF FileStates
    <3>2. QED
      BY <1>1, <3>1 DEF FileStates
  <2>4. workQ' = workQ \o CloseItem(f, gone)
    BY <1>3, <1>6, <1>9, <2>1, <2>2, ConcatFacts
  <2>5. file' = [file EXCEPT ![f] = QueueClose(gone)]
    BY <1>3, <2>1, <2>2
  <2>6. CloseQueued(f, gone)
    <3> HIDE DEF gone
    <3>1. CASE gone.outstanding = 0
      <4>1. QueueClose(gone) = [gone EXCEPT !.queued = TRUE] /\ CloseItem(f, gone) = <<f>>
        BY <2>3, <3>1, QueueCloseFacts
      <4>2. QED
        BY <1>6, <2>4, <2>5, <3>1, <4>1, ConcatFacts DEF CloseQueued
    <3>2. CASE gone.outstanding # 0
      <4>1. QueueClose(gone) = gone /\ CloseItem(f, gone) = <<>>
        BY <2>3, <3>2, QueueCloseFacts
      <4>2. QED
        BY <1>6, <2>4, <2>5, <3>2, <4>1, ConcatFacts DEF CloseQueued
    <3>3. QED
      BY <3>1, <3>2
  <2>7. pending' = pending
    <3>1. (IF dropped > 0 THEN 0 ELSE 1) = 0
      BY <1>8, <1>9, <2>1
    <3>2. pending' = [pending EXCEPT ![j] = pending[j]]
      <4> HIDE DEF dropped
      <4>1. pending[j] + 0 = pending[j]
        BY <1>6
      <4>2. pending' = [pending EXCEPT ![j] = pending[j] + 0]
        BY <1>3, <1>6, <3>1
      <4>3. QED
        BY <4>1, <4>2
    <3>3. QED
      BY <1>6, <3>2
  <2>8. inflight' = [inflight EXCEPT ![j] = inflight[j] - buf[b].size]
        /\ meter' = Discarded(meter, buf[b].size)
    BY <1>3, <1>6, <2>1
  <2>9. ClosesDropping(j, f, b)
    BY <1>2, <1>4, <1>9, <2>1, <2>6, <2>7, <2>8 DEF ClosesDropping
  <2>10. QED
    BY <1>1, <1>8, <1>9, <2>9
<1>10. CASE b # None /\ j \notin err'
  <2> DEFINE q == [file[f] EXCEPT !.closing = TRUE, !.stage = None,
                                  !.next = file[f].next + buf[b].size]
  <2>1. last = QueueStage(fl, buf).file /\ dropped = 0 /\ buf' = QueueStage(fl, buf).buf
    BY <1>3, <1>10
  <2>2. QueueStage(fl, buf).file = [fl EXCEPT !.stage = None, !.next = file[f].next + buf[b].size]
    <3> HIDE DEF fl
    <3>1. QED
      BY <1>5, <1>10 DEF QueueStage, FileStates
  <2>3. [fl EXCEPT !.stage = None, !.next = file[f].next + buf[b].size] = q
    BY <1>1
  <2>4. QueueStage(fl, buf).buf = [buf EXCEPT ![b] = [buf[b] EXCEPT !.at = "queue", !.offset = file[f].next]]
    <3> HIDE DEF fl
    <3>1. QED
      BY <1>5, <1>6, <1>8, <1>10 DEF QueueStage
  <2>5. /\ q \in FileStates /\ q.closing /\ ~q.queued /\ ~q.closed
        /\ q.outstanding = file[f].outstanding
    <3>1. file[f].next + buf[b].size \in Nat
      BY <1>1, <1>8, <1>10 DEF FileStates
    <3>2. QED
      BY <1>1, <3>1 DEF FileStates
  <2>6. QueueClose(q) = q /\ CloseItem(f, q) = <<>>
    <3>1. q.outstanding # 0
      BY <1>8, <1>10, <2>5
    <3> HIDE DEF q
    <3>2. QED
      BY <2>5, <3>1, QueueCloseFacts
  <2>7. last = q
    BY <2>1, <2>2, <2>3
  <2>8. file' = [file EXCEPT ![f] = q]
    <3> HIDE DEF q, last
    <3>1. QED
      BY <1>3, <2>6, <2>7
  <2>9. workQ' = Append(workQ, b)
    <3>1. workQ' = workQ \o <<b>> \o CloseItem(f, last)
      BY <1>3, <1>10
    <3> HIDE DEF q, last
    <3>2. workQ' = Append(workQ, b) \o <<>>
      BY <1>6, <1>10, <2>6, <2>7, <3>1, ConcatFacts
    <3>3. Append(workQ, b) \in Seq(Items)
      BY <1>6, <1>10
    <3>4. QED
      BY <1>6, <3>2, <3>3, ConcatFacts
  <2>10. inflight' = inflight /\ pending' = [pending EXCEPT ![j] = pending[j] + 1]
    <3>1. (IF dropped > 0 THEN 0 ELSE 1) = 1 /\ dropped = 0
      BY <2>1
    <3> HIDE DEF dropped
    <3>2. inflight[j] - dropped = inflight[j]
      BY <1>6, <3>1
    <3>3. inflight' = [inflight EXCEPT ![j] = inflight[j]]
      BY <1>3, <1>6, <3>2
    <3>4. QED
      BY <1>3, <1>6, <3>1, <3>3
  <2>11. meter' = meter
    BY <1>3, <2>1, NothingDiscarded DEF WriterInv
  <2>12. ClosesQueueing(j, f, b)
    BY <1>2, <1>4, <1>10, <2>1, <2>4, <2>8, <2>9, <2>10, <2>11 DEF ClosesQueueing
  <2>13. QED
    BY <1>1, <1>8, <1>10, <2>12
<1>11. QED
  BY <1>7, <1>9, <1>10

-----------------------------------------------------------------------------
(* Steps that move buffers, and change flags of files, but no data.        *)

Lives == {"queue", "held", "io", "retry"}

(* A buffer on its way moves on with its data.                             *)
Moved(b) ==
    /\ buf[b].at \in Lives /\ buf'[b].at \in {"held", "io", "retry"}
    /\ buf'[b].file = buf[b].file /\ buf'[b].size = buf[b].size
    /\ buf'[b].offset = buf[b].offset /\ buf'[b].done = buf[b].done

SameData == \A b \in Buffers : buf'[b] = buf[b] \/ Moved(b)

SameShape ==
    \A f \in Files :
        /\ file'[f].stage = file[f].stage /\ file'[f].next = file[f].next
        /\ file'[f].accepted = file[f].accepted /\ file'[f].inflight = file[f].inflight
        /\ file'[f].outstanding = file[f].outstanding /\ file'[f].closing = file[f].closing
        /\ file'[f].closed = file[f].closed

(* Nothing the decoder or the accounts look at has changed.                *)
Still ==
    /\ SameData /\ SameShape /\ err \subseteq err'
    /\ UNCHANGED <<prod, pending, inflight, disk, meter>>

LEMMA StageFrame ==
    ASSUME WriterInv, Still PROVE StageInv'
<1>1. /\ SameData /\ prod' = prod
      /\ \A f \in Files : file'[f].stage = file[f].stage
  BY DEF Still, SameShape
<1>2. ASSUME NEW f \in Files, file'[f].stage # None
      PROVE  /\ buf'[file'[f].stage].at = "stage" /\ buf'[file'[f].stage].file = f
             /\ On(JobOf[f], f)'
  <2>1. /\ file[f].stage # None /\ file[f].stage \in Buffers
        /\ buf[file[f].stage].at = "stage" /\ buf[file[f].stage].file = f /\ On(JobOf[f], f)
    BY <1>1, <1>2 DEF WriterInv, StageInv, Types, FileStates
  <2>2. buf'[file[f].stage] = buf[file[f].stage]
    BY <1>1, <2>1 DEF SameData, Moved, Lives
  <2>3. QED
    BY <1>1, <2>1, <2>2 DEF On
<1>3. ASSUME NEW b \in Buffers
      PROVE  /\ buf'[b].at = "free" => buf'[b] = FreeBuffer
             /\ buf'[b].at # "free" => buf'[b].file \in Files
             /\ buf'[b].at = "stage" => file'[buf'[b].file].stage = b
             /\ buf'[b].at \in {"stage", "queue"} => buf'[b].done = 0
             /\ buf'[b].done <= buf'[b].size /\ buf'[b].size <= BufferSize
             /\ buf'[b].at # "free" /\ buf'[b].size = 0 =>
                   /\ buf'[b].at = "stage"
                   /\ prod'[JobOf[buf'[b].file]].pc = "commit" /\ prod'[JobOf[buf'[b].file]].fresh
  <2>1. CASE buf'[b] = buf[b]
    BY <1>1, <2>1 DEF WriterInv, StageInv
  <2>2. CASE Moved(b)
    BY <1>1, <2>2 DEF WriterInv, StageInv, Moved, Lives
  <2>3. QED
    BY <1>1, <2>1, <2>2 DEF SameData
<1>4. QED
  BY <1>2, <1>3 DEF StageInv

LEMMA DecoderFrame ==
    ASSUME WriterInv, Still PROVE DecoderInv'
<1>1. SameData /\ SameShape /\ err \subseteq err' /\ prod' = prod /\ pending' = pending
  BY DEF Still
<1>2. \A b \in Buffers : buf'[b].size = buf[b].size
  BY <1>1 DEF SameData, Moved
<1>3. ASSUME NEW f \in Files PROVE file[f].stage \in Buffers \cup {None}
  BY DEF WriterInv, Types, FileStates
<1>4. ASSUME NEW j \in Jobs
      PROVE  /\ prod'[j].pc \in Writing =>
                   /\ prod'[j].file \in Files /\ JobOf[prod'[j].file] = j
                   /\ ~file'[prod'[j].file].closing
                   /\ file'[prod'[j].file].accepted + prod'[j].left = Size[prod'[j].file]
             /\ prod'[j].pc = "reserve" => prod'[j].left > 0
             /\ prod'[j].pc = "commit" =>
                   /\ file'[prod'[j].file].stage # None
                   /\ prod'[j].chunk > 0 /\ prod'[j].chunk <= prod'[j].left
                   /\ buf'[file'[prod'[j].file].stage].size + prod'[j].chunk <= BufferSize
                   /\ prod'[j].fresh <=> buf'[file'[prod'[j].file].stage].size = 0
             /\ prod'[j].pc # "commit" => prod'[j].chunk = 0
             /\ prod'[j].pc = "done" => pending'[j] = 0
  <2>1. prod[j].pc \in Writing => prod[j].file \in Files
    BY DEF WriterInv, DecoderInv
  <2>2. prod[j].pc \in Writing =>
            file'[prod[j].file].stage = file[prod[j].file].stage
            /\ file'[prod[j].file].closing = file[prod[j].file].closing
            /\ file'[prod[j].file].accepted = file[prod[j].file].accepted
    BY <1>1, <2>1 DEF SameShape
  <2>3. prod[j].pc = "commit" =>
            file[prod[j].file].stage # None /\ file[prod[j].file].stage \in Buffers
    BY <1>3, <2>1 DEF WriterInv, DecoderInv, Writing
  <2>4. QED
    BY <1>1, <1>2, <2>1, <2>2, <2>3 DEF WriterInv, DecoderInv, Writing
<1>5. ASSUME NEW f \in Files
      PROVE  /\ file'[f].accepted <= Size[f]
             /\ ~file'[f].closing /\ ~On(JobOf[f], f)' => file'[f].accepted = 0
             /\ file'[f].next <= file'[f].accepted
             /\ file'[f].stage = None /\ (~file'[f].closing \/ JobOf[f] \notin err') =>
                   file'[f].next = file'[f].accepted
             /\ file'[f].stage # None =>
                   file'[f].next + buf'[file'[f].stage].size = file'[f].accepted
  BY <1>1, <1>2, <1>3 DEF WriterInv, DecoderInv, SameShape, On
<1>6. QED
  BY <1>4, <1>5 DEF DecoderInv

(* The counts of buffers with data and of files to close.                  *)
LEMMA BusyFrame ==
    ASSUME WriterInv, Still
    PROVE  /\ \A f \in Files : file'[f].outstanding = Cardinality(Filled(f)')
           /\ \A j \in Jobs : pending'[j] = Cardinality(Holding(j)') + Cardinality(Ending(j)')
<1>1. SameData /\ SameShape /\ pending' = pending
  BY DEF Still
<1>2. \A b \in Buffers : buf'[b].size = buf[b].size /\ buf'[b].file = buf[b].file
  BY <1>1 DEF SameData, Moved
<1>3. ASSUME NEW f \in Files PROVE Filled(f)' = Filled(f)
  BY <1>2 DEF Filled
<1>4. ASSUME NEW j \in Jobs PROVE Holding(j)' = Holding(j) /\ Ending(j)' = Ending(j)
  BY <1>1, <1>2 DEF Holding, Ending, SameShape
<1>5. QED
  BY <1>1, <1>3, <1>4 DEF WriterInv, CountInv, SameShape

LEMMA AreaFrame ==
    ASSUME WriterInv, Still PROVE AreaInv'
<1>1. /\ SameData /\ SameShape /\ prod' = prod /\ inflight' = inflight /\ meter' = meter
  BY DEF Still
<1>2. \A b \in Buffers : /\ buf'[b].size = buf[b].size /\ buf'[b].file = buf[b].file
                         /\ buf'[b].done = buf[b].done
  BY <1>1 DEF SameData, Moved
<1>3. ASSUME NEW f \in Files PROVE OfFile(f)' = OfFile(f) /\ Reserved(f)' = Reserved(f)
  BY <1>1, <1>2 DEF OfFile, Reserved
<1>4. ASSUME NEW j \in Jobs PROVE OfJob(j)' = OfJob(j)
  BY <1>2 DEF OfJob
<1>5. Left' = Left
  BY <1>2 DEF Left
<1>6. QED
  BY <1>1, <1>3, <1>4, <1>5 DEF WriterInv, AreaInv, SameShape, Area

LEMMA DiskFrame ==
    ASSUME WriterInv, Still PROVE DiskInv'
<1>1. SameData /\ SameShape /\ err \subseteq err' /\ disk' = disk
  BY DEF Still
<1>2. \A b \in Buffers : /\ buf'[b].size = buf[b].size /\ buf'[b].file = buf[b].file
                         /\ buf'[b].done = buf[b].done /\ buf'[b].offset = buf[b].offset
                         /\ Live(b)' <=> Live(b)
  BY <1>1 DEF SameData, Moved, Live, Lives
<1>3. \A b \in Buffers : \A u : Missing(b, u)' <=> Missing(b, u)
  BY <1>2 DEF Missing
<1>4. \A b \in Buffers : Live(b) => buf[b].file \in Files
  BY DEF WriterInv, StageInv, Live
<1>5. \A f \in Files : file'[f].next = file[f].next
  BY <1>1 DEF SameShape
<1>6. DiskInv
  BY DEF WriterInv
<1>7. ASSUME NEW f \in Files, JobOf[f] \notin err', NEW u \in Units(f),
             u < file'[f].next, disk'[f][u] = 0
      PROVE  \E b \in Buffers : Live(b)' /\ buf'[b].file = f /\ Missing(b, u)'
  <2>1. PICK b \in Buffers : Live(b) /\ buf[b].file = f /\ Missing(b, u)
    BY <1>1, <1>5, <1>6, <1>7 DEF DiskInv
  <2>2. QED
    BY <1>2, <1>3, <2>1
<1>8. \A b \in Buffers : Live(b)' =>
          /\ buf'[b].offset + buf'[b].size <= file'[buf'[b].file].next
          /\ \A u \in Units(buf'[b].file) : Missing(b, u)' => disk'[buf'[b].file][u] = 0
  BY <1>1, <1>2, <1>3, <1>4, <1>5, <1>6 DEF DiskInv
<1>9. \A b, c \in Buffers : Live(b)' /\ Live(c)' /\ buf'[b].file = buf'[c].file /\ b # c =>
          \/ buf'[b].offset + buf'[b].size <= buf'[c].offset
          \/ buf'[c].offset + buf'[c].size <= buf'[b].offset
  BY <1>2, <1>6 DEF DiskInv
<1>10. \A f \in Files : /\ disk'[f] \in [Units(f) -> 0 .. 1]
                        /\ \A u \in Units(f) : u >= file'[f].next => disk'[f][u] = 0
  BY <1>1, <1>5, <1>6 DEF DiskInv
<1>11. disk' \in [Files -> UNION {[Units(f) -> Nat] : f \in Files}]
  BY <1>1, <1>6 DEF DiskInv
<1>12. QED
  BY <1>7, <1>8, <1>9, <1>10, <1>11 DEF DiskInv, Units

-----------------------------------------------------------------------------
(* The retry packet.                                                       *)

(* The gate or a cancellation would let a parked item go.                  *)
Due(x) == Decision(gate, Owner(x) \in token) # "pending"

Searching(t) == t.pc \in {"ack", "scan", "defer"} \/ t.again

LEMMA NoLostWakeFacts ==
    NoLostWake <=> ((\E x \in ToSet(retryQ) : Due(x)) =>
                        packet \/ waking # {} \/ \E w \in Workers : Searching(wk[w]))
BY DEF NoLostWake, Due, Searching, ToSet

(* A packet that is posted stays posted until it is taken.                 *)
LEMMA WakePosts ==
    ASSUME WriterInv, WakeIf(TRUE),
           \A v \in Workers : wk[v].pc = "ack" => wk'[v].pc = "ack",
           \A v \in Workers : wk'[v].pc = "idle" => ~wk'[v].again
    PROVE  WakeInv'
<1>1. posted => packet \/ \E w \in Workers : wk[w].pc = "ack"
  BY DEF WriterInv, WakeInv
<1>2. packet' \/ \E w \in Workers : wk'[w].pc = "ack"
  BY <1>1 DEF WakeIf
<1>3. NoLostWake'
  BY <1>2 DEF NoLostWake
<1>4. QED
  BY <1>2, <1>3 DEF WakeInv

(* A step that makes nothing due and calls no thread off.                  *)
LEMMA WakeKeeps ==
    ASSUME WriterInv,
           \A v \in Workers : wk[v].pc = "ack" => wk'[v].pc = "ack",
           \A v \in Workers : Searching(wk[v]) => Searching(wk'[v]),
           \A v \in Workers : wk'[v].pc = "idle" => ~wk'[v].again,
           waking \subseteq waking', packet => packet', posted' => posted \/ packet',
           \A x \in ToSet(retryQ') : Due(x)' => x \in ToSet(retryQ) /\ Due(x)
    PROVE  WakeInv'
<1>1. posted' => packet' \/ \E w \in Workers : wk'[w].pc = "ack"
  BY DEF WriterInv, WakeInv
<1>2. NoLostWake'
  <2>1. SUFFICES ASSUME NEW x \in ToSet(retryQ'), Due(x)'
                 PROVE  packet' \/ waking' # {} \/ \E w \in Workers : Searching(wk'[w])
    <3>1. (\E x \in ToSet(retryQ') : Due(x)') =>
              packet' \/ waking' # {} \/ \E w \in Workers : Searching(wk'[w])
      BY <2>1
    <3>2. QED
      BY <3>1 DEF NoLostWake, Due, Searching, ToSet
  <2>2. packet \/ waking # {} \/ \E w \in Workers : Searching(wk[w])
    BY <2>1, NoLostWakeFacts DEF WriterInv, WakeInv
  <2>3. QED
    BY <2>2
<1>3. QED
  BY <1>1, <1>2 DEF WakeInv

(* A wake-up that may not be one.                                          *)
LEMMA WakeIfFacts ==
    ASSUME NEW c, WakeIf(c)
    PROVE  (packet => packet') /\ (posted' => posted \/ packet')
BY Zenon DEF WakeIf

(* The items parked keep their owners.                                     *)
LEMMA OwnersKept ==
    ASSUME WriterInv, SameData
    PROVE  /\ \A x \in Items : Owner(x)' = Owner(x)
           /\ \A x \in ToSet(retryQ) : x \in Items
<1>1. ASSUME NEW x \in Items PROVE Owner(x)' = Owner(x)
  <2>1. CASE x \in Files
    BY <2>1 DEF Owner, FileOf
  <2>2. CASE x \notin Files
    <3>1. x \in Buffers
      BY <2>2 DEF Items
    <3>2. buf'[x].file = buf[x].file
      BY <3>1 DEF SameData, Moved
    <3>3. QED
      BY <2>2, <3>2 DEF Owner, FileOf
  <2>3. QED
    BY <2>1, <2>2
<1>2. \A x \in ToSet(retryQ) : x \in Items
  BY DEF WriterInv, PlaceInv, ToSet
<1>3. QED
  BY <1>1, <1>2

-----------------------------------------------------------------------------
(* Queues and threads.                                                     *)

(* Where the buffers are, without the queues' internals.                   *)
Placed ==
    /\ ToSet(workQ) \cap ToSet(retryQ) = {}
    /\ \A b \in Buffers : /\ b \in ToSet(workQ) <=> buf[b].at = "queue"
                          /\ b \in ToSet(retryQ) <=> buf[b].at = "retry"
    /\ \A w \in Workers :
          /\ wk[w].pc \in Serves <=> wk[w].item # None
          /\ wk[w].pc \in {"open", "submit", "settle"} => wk[w].item \in Buffers
          /\ wk[w].pc \in {"copen", "csettle"} => wk[w].item \in Files
          /\ wk[w].item \in Buffers => buf[wk[w].item].at = "held"
          /\ wk[w].item \notin ToSet(workQ) \cup ToSet(retryQ)
    /\ \A v, w \in Workers : wk[v].item = wk[w].item /\ wk[w].item # None => v = w

Queues ==
    /\ workQ \in Seq(Items) /\ retryQ \in Seq(Items)
    /\ Once(workQ) /\ Once(retryQ)

LEMMA PlaceParts == PlaceInv <=> Queues /\ Placed
BY DEF PlaceInv, Queues, Placed

(* Apart from the items no thread serves anything.                         *)
LEMMA ItemFacts ==
    ASSUME WriterInv
    PROVE  /\ None \notin Items /\ Buffers \cap Files = {}
           /\ \A x \in ToSet(workQ) \cup ToSet(retryQ) : x \in Items
           /\ \A w \in Workers : /\ wk[w] \in Threads
                                 /\ wk[w].pc \notin Serves => wk[w].item = None
BY WriterAssumption DEF WriterInv, Types, PlaceInv, Items, ToSet

(* Thread w goes on with its item, or lets go of it.                       *)
LEMMA PlaceThread ==
    ASSUME WriterInv, Queues', ToSet(workQ') = ToSet(workQ), ToSet(retryQ') = ToSet(retryQ),
           NEW w \in Workers, NEW t \in Threads, wk' = [wk EXCEPT ![w] = t],
           \/ t.item = wk[w].item
           \/ t.item = None,
           t.pc \in Serves <=> t.item # None,
           t.pc \in {"open", "submit", "settle"} => t.item \in Buffers,
           t.pc \in {"copen", "csettle"} => t.item \in Files,
           \A b \in Buffers : \/ buf'[b].at = buf[b].at
                              \/ /\ buf[b].at \notin {"queue", "retry"}
                                 /\ buf'[b].at \notin {"queue", "retry"}
                                 /\ b = wk[w].item /\ t.item = None
    PROVE  PlaceInv'
<1>1. Placed /\ wk \in [Workers -> Threads]
  BY PlaceParts DEF WriterInv, Types
<1>2. wk'[w] = t /\ \A v \in Workers : v # w => wk'[v] = wk[v]
  BY <1>1
<1>3. Placed'
  <2>1. \A b \in Buffers : /\ b \in ToSet(workQ') <=> buf'[b].at = "queue"
                           /\ b \in ToSet(retryQ') <=> buf'[b].at = "retry"
    BY <1>1 DEF Placed
  <2>2. ASSUME NEW v \in Workers
        PROVE  /\ wk'[v].pc \in Serves <=> wk'[v].item # None
               /\ wk'[v].pc \in {"open", "submit", "settle"} => wk'[v].item \in Buffers
               /\ wk'[v].pc \in {"copen", "csettle"} => wk'[v].item \in Files
               /\ wk'[v].item \notin ToSet(workQ') \cup ToSet(retryQ')
    <3>1. None \notin ToSet(workQ) \cup ToSet(retryQ)
      BY ItemFacts
    <3>2. QED
      BY <1>1, <1>2, <3>1 DEF Placed
  <2>3. ASSUME NEW v \in Workers, wk'[v].item \in Buffers PROVE buf'[wk'[v].item].at = "held"
    <3>1. None \notin Buffers
      BY WriterAssumption
    <3>2. wk'[v].item = wk[v].item /\ (v = w => t.item # None)
      BY <1>2, <2>3, <3>1
    <3>3. wk[v].item = wk[w].item => v = w
      BY <1>1, <2>3, <3>1, <3>2 DEF Placed
    <3>4. buf[wk[v].item].at = "held"
      BY <1>1, <2>3, <3>2 DEF Placed
    <3>5. QED
      BY <2>3, <3>2, <3>3, <3>4
  <2>4. \A u, v \in Workers : wk'[u].item = wk'[v].item /\ wk'[v].item # None => u = v
    BY <1>1, <1>2 DEF Placed
  <2>5. QED
    BY <1>1, <2>1, <2>2, <2>3, <2>4 DEF Placed
<1>4. QED
  BY <1>3 DEF PlaceInv, Queues, Placed

(* Thread w, which served nothing, takes an item.                          *)
LEMMA PlaceTake ==
    ASSUME WriterInv, Queues', NEW x \in Items,
           \/ x \in ToSet(workQ) \cup ToSet(retryQ)
           \/ x \in Buffers /\ buf[x].at = "io",
           ToSet(workQ') = ToSet(workQ) \ {x}, ToSet(retryQ') = ToSet(retryQ) \ {x},
           NEW w \in Workers, NEW t \in Threads, wk' = [wk EXCEPT ![w] = t],
           wk[w].item = None, t.item = x, t.pc \in Serves,
           t.pc \in {"open", "submit", "settle"} => x \in Buffers,
           t.pc \in {"copen", "csettle"} => x \in Files,
           x \in Buffers => buf'[x].at = "held",
           \A b \in Buffers : b # x => buf'[b].at = buf[b].at
    PROVE  PlaceInv'
<1>1. Placed /\ wk \in [Workers -> Threads] /\ None \notin Items
  BY PlaceParts, ItemFacts DEF WriterInv, Types
<1>2. wk'[w] = t /\ \A v \in Workers : v # w => wk'[v] = wk[v]
  BY <1>1
<1>3. \A v \in Workers : wk[v].item # x
  BY <1>1 DEF Placed
<1>4. Placed'
  <2>1. \A b \in Buffers : /\ b \in ToSet(workQ') <=> buf'[b].at = "queue"
                           /\ b \in ToSet(retryQ') <=> buf'[b].at = "retry"
    BY <1>1 DEF Placed
  <2>2. ASSUME NEW v \in Workers
        PROVE  /\ wk'[v].pc \in Serves <=> wk'[v].item # None
               /\ wk'[v].pc \in {"open", "submit", "settle"} => wk'[v].item \in Buffers
               /\ wk'[v].pc \in {"copen", "csettle"} => wk'[v].item \in Files
               /\ wk'[v].item \notin ToSet(workQ') \cup ToSet(retryQ')
               /\ wk'[v].item \in Buffers => buf'[wk'[v].item].at = "held"
    BY <1>1, <1>2, <1>3 DEF Placed
  <2>3. \A u, v \in Workers : wk'[u].item = wk'[v].item /\ wk'[v].item # None => u = v
    BY <1>1, <1>2, <1>3 DEF Placed
  <2>4. QED
    BY <1>1, <2>1, <2>2, <2>3 DEF Placed
<1>5. QED
  BY <1>4 DEF PlaceInv, Queues, Placed

(* An item is queued; the thread that had it, if any, rests.               *)
LEMMA PlaceWork ==
    ASSUME WriterInv, NEW x \in Items, Queues',
           x \notin ToSet(workQ) \cup ToSet(retryQ),
           \A w \in Workers : wk'[w].item # x,
           ToSet(workQ') = ToSet(workQ) \cup {x}, ToSet(retryQ') = ToSet(retryQ),
           \A w \in Workers :
               \/ wk'[w] = wk[w]
               \/ wk'[w].item = None /\ wk'[w].pc \notin Serves,
           x \in Buffers => buf'[x].at = "queue",
           \A b \in Buffers : b # x =>
               \/ buf'[b].at = buf[b].at
               \/ /\ buf[b].at \notin {"queue", "retry"}
                  /\ buf'[b].at \notin {"queue", "retry"}
                  /\ \A w \in Workers : wk'[w].item # b
    PROVE  PlaceInv'
<1>1. Placed /\ None \notin Items /\ None \notin ToSet(workQ) \cup ToSet(retryQ)
  BY PlaceParts, ItemFacts DEF WriterInv, Types
<1>2. Placed'
  <2>1. \A b \in Buffers : /\ b \in ToSet(workQ') <=> buf'[b].at = "queue"
                           /\ b \in ToSet(retryQ') <=> buf'[b].at = "retry"
    BY <1>1 DEF Placed
  <2>2. ASSUME NEW v \in Workers
        PROVE  /\ wk'[v].pc \in Serves <=> wk'[v].item # None
               /\ wk'[v].pc \in {"open", "submit", "settle"} => wk'[v].item \in Buffers
               /\ wk'[v].pc \in {"copen", "csettle"} => wk'[v].item \in Files
               /\ wk'[v].item \notin ToSet(workQ') \cup ToSet(retryQ')
               /\ wk'[v].item \in Buffers => buf'[wk'[v].item].at = "held"
    <3>1. CASE wk'[v] = wk[v]
      BY <1>1, <3>1 DEF Placed
    <3>2. CASE wk'[v].item = None /\ wk'[v].pc \notin Serves
      BY <1>1, <3>2, WriterAssumption DEF Serves
    <3>3. QED
      BY <3>1, <3>2
  <2>3. \A u, v \in Workers : wk'[u].item = wk'[v].item /\ wk'[v].item # None => u = v
    BY <1>1 DEF Placed
  <2>4. QED
    BY <1>1, <2>1, <2>2, <2>3 DEF Placed
<1>3. QED
  BY <1>2 DEF PlaceInv, Queues, Placed

-----------------------------------------------------------------------------
(* Frames of the other parts.                                              *)

LEMMA CloseFrame ==
    ASSUME WriterInv, Closing' \cap Files \subseteq Closing,
           \A f \in Files :
               /\ file'[f].queued = file[f].queued /\ file'[f].closed = file[f].closed
               /\ file'[f].closing = file[f].closing
               /\ file'[f].queued => file'[f].outstanding = file[f].outstanding
               /\ file'[f].handle => file[f].handle \/ ~file[f].closed
    PROVE  CloseInv'
BY DEF WriterInv, CloseInv

LEMMA ClosingSame ==
    ASSUME WriterInv, UNCHANGED <<workQ, retryQ>>,
           \A w \in Workers : wk'[w].item \in {wk[w].item, None}
    PROVE  Closing' \cap Files \subseteq Closing
<1>1. None \notin Files
  BY WriterAssumption
<1>2. QED
  BY <1>1 DEF Closing

LEMMA ErrFrame ==
    ASSUME WriterInv, SameData, err \subseteq err', file' = file,
           \A w \in Workers : wk'[w] = wk[w] \/ wk'[w].pc \notin {"settle", "csettle"}
    PROVE  ErrInv'
<1>1. ErrInv /\ PlaceInv
  BY DEF WriterInv
<1>2. ASSUME NEW w \in Workers, wk'[w].pc = "settle"
      PROVE  /\ wk'[w].result = "ok" => buf'[wk'[w].item].done = buf'[wk'[w].item].size
             /\ wk'[w].result \in {"permanent", "terminal"} =>
                   JobOf[buf'[wk'[w].item].file] \in err'
  <2>1. wk'[w] = wk[w] /\ wk[w].item \in Buffers
    BY <1>1, <1>2 DEF PlaceInv
  <2>2. /\ buf'[wk[w].item].done = buf[wk[w].item].done
        /\ buf'[wk[w].item].size = buf[wk[w].item].size
        /\ buf'[wk[w].item].file = buf[wk[w].item].file
    BY <2>1 DEF SameData, Moved
  <2>3. QED
    BY <1>1, <1>2, <2>1, <2>2 DEF ErrInv
<1>3. ASSUME NEW w \in Workers, wk'[w].pc = "csettle", wk'[w].result = "ok"
      PROVE  file'[wk'[w].item].created \/ file'[wk'[w].item].failed
  BY <1>1, <1>3 DEF ErrInv
<1>4. \A f \in Files :
          /\ file'[f].failed => JobOf[f] \in err'
          /\ file'[f].handle => file'[f].created
          /\ file'[f].tried => file'[f].created \/ file'[f].failed
          /\ file'[f].closed => file'[f].created \/ JobOf[f] \in err'
  BY <1>1 DEF ErrInv
<1>5. QED
  BY <1>2, <1>3, <1>4 DEF ErrInv

(* No buffer enters or leaves the system.                                  *)
LEMMA IOFrame ==
    ASSUME WriterInv, SameData, \A b \in Buffers : buf'[b].at = "io" <=> buf[b].at = "io",
           \A f \in Files : file'[f].active = file[f].active
    PROVE  \A f \in Files : file'[f].active = Cardinality(InIO(f)')
<1>1. ASSUME NEW f \in Files PROVE InIO(f)' = InIO(f)
  BY DEF InIO, SameData, Moved
<1>2. QED
  BY <1>1 DEF WriterInv, CountInv

LEMMA StillFrame ==
    ASSUME WriterInv, Still, \A f \in Files : file'[f].active = Cardinality(InIO(f)')
    PROVE  StageInv' /\ DecoderInv' /\ CountInv' /\ AreaInv' /\ DiskInv'
BY StageFrame, DecoderFrame, BusyFrame, AreaFrame, DiskFrame DEF CountInv

LEMMA NothingMoves ==
    ASSUME WriterInv, buf' = buf, file' = file, err \subseteq err',
           UNCHANGED <<prod, pending, inflight, disk, meter>>
    PROVE  /\ Still /\ SameData
           /\ StageInv' /\ DecoderInv' /\ CountInv' /\ AreaInv' /\ DiskInv'
<1>1. SameData /\ SameShape /\ Still
  BY DEF Still, SameData, SameShape
<1>2. QED
  BY <1>1, IOFrame, StillFrame

(* Nothing is said of the environment but in the wake-up.                  *)
LEMMA EnvironmentStep ==
    ASSUME WriterInv, \/ VolumeChanges \/ MonitorPolls \/ MonitorQueryFails
                      \/ \E j \in Jobs : Cancel(j) \/ WakeWaiters(j)
    PROVE  WriterInv'
<1>1. Types'
  BY TypesEnvironment DEF WriterInv
<1>2. /\ UNCHANGED <<buf, file, workQ, retryQ, wk, prod, pending, inflight, disk, meter>>
      /\ err \subseteq err'
  BY DEF VolumeChanges, MonitorPolls, MonitorQueryFails, Cancel, WakeWaiters, Synchronized,
         jobVars, ioVars
<1>3. PlaceInv'
  BY <1>2 DEF WriterInv, PlaceInv, ToSet, Once
<1>4. Closing' = Closing
  BY <1>2 DEF Closing, ToSet
<1>5. CloseInv'
  BY <1>2, <1>4, CloseFrame
<1>6. StageInv' /\ DecoderInv' /\ CountInv' /\ AreaInv' /\ DiskInv' /\ SameData
  BY <1>2, NothingMoves
<1>7. ErrInv'
  BY <1>2, <1>6, ErrFrame
<1>8. /\ \A v \in Workers : wk[v].pc = "ack" => wk'[v].pc = "ack"
      /\ \A v \in Workers : wk'[v].pc = "idle" => ~wk'[v].again
  BY <1>2 DEF WriterInv, WakeInv
<1>9. WakeInv'
  <2>1. CASE MonitorPolls \/ MonitorQueryFails \/ \E j \in Jobs : WakeWaiters(j)
    <3>1. WakeIf(TRUE)
      BY <2>1 DEF MonitorPolls, MonitorQueryFails, WakeWaiters
    <3>2. QED
      BY <1>8, <3>1, WakePosts
  <2>2. CASE VolumeChanges
    <3>1. UNCHANGED <<gate, token, waking, posted, packet>>
      BY <2>2 DEF VolumeChanges, jobVars, wakeVars
    <3>2. \A x \in ToSet(retryQ') : Due(x)' => x \in ToSet(retryQ) /\ Due(x)
      BY <1>2, <3>1 DEF Due, Owner, FileOf
    <3>3. QED
      BY <1>2, <1>8, <3>1, <3>2, WakeKeeps
  <2>3. ASSUME NEW j \in Jobs, Cancel(j) PROVE WakeInv'
    <3>1. UNCHANGED <<posted, packet>> /\ j \in waking'
      BY <2>3 DEF Cancel, wakeVars
    <3>2. QED
      BY <1>2, <1>8, <3>1 DEF WriterInv, WakeInv, NoLostWake
  <2>4. QED
    BY <2>1, <2>2, <2>3
<1>10. QED
  BY <1>1, <1>3, <1>5, <1>6, <1>7, <1>9 DEF WriterInv

-----------------------------------------------------------------------------
(* Steps of the threads that move items.                                   *)

(* A buffer on its way is moved to another place.                          *)
LEMMA MoveFacts ==
    ASSUME WriterInv, NEW b \in Buffers, buf[b].at \in Lives, NEW a \in {"held", "io", "retry"},
           buf' = [buf EXCEPT ![b].at = a]
    PROVE  /\ SameData /\ buf' \in [Buffers -> BufferStates] /\ buf'[b].at = a
           /\ \A c \in Buffers : c # b => buf'[c] = buf[c]
<1>1. buf \in [Buffers -> BufferStates] /\ buf[b] \in BufferStates
  BY DEF WriterInv, Types
<1>2. [buf[b] EXCEPT !.at = a] \in BufferStates
  BY <1>1 DEF BufferStates
<1>3. buf' = [buf EXCEPT ![b] = [buf[b] EXCEPT !.at = a]]
  BY <1>1
<1>4. /\ buf' \in [Buffers -> BufferStates] /\ buf'[b] = [buf[b] EXCEPT !.at = a]
      /\ \A c \in Buffers : c # b => buf'[c] = buf[c]
  BY <1>1, <1>2, <1>3
<1>5. Moved(b) /\ buf'[b].at = a
  BY <1>1, <1>4 DEF Moved, BufferStates
<1>6. QED
  BY <1>4, <1>5 DEF SameData

LEMMA IdleFacts ==
    ASSUME WriterInv, NEW w \in Workers, Waiting(w)
    PROVE  wk[w].pc = "idle" /\ wk[w].item = None /\ ~wk[w].again /\ ~Searching(wk[w])
BY ItemFacts DEF Waiting, WriterInv, WakeInv, Searching, Serves

LEMMA TakeWorkStep ==
    ASSUME WriterInv, NEW w \in Workers, TakeWork(w) PROVE WriterInv'
<1> DEFINE x == Head(workQ)
<1>0. /\ Waiting(w) /\ workQ # <<>> /\ workQ' = Tail(workQ)
      /\ UNCHANGED <<gate, envVars, jobVars, file, lease, retryQ, wakeVars, disk, meter>>
  BY DEF TakeWork
<1>1. wk[w].pc = "idle" /\ wk[w].item = None /\ ~wk[w].again /\ ~Searching(wk[w])
  BY <1>0, IdleFacts
<1>2. Queues /\ Placed
  BY PlaceParts DEF WriterInv
<1>3. /\ workQ' \in Seq(Items) /\ Once(workQ') /\ x \in ToSet(workQ) /\ x \in Items
      /\ ToSet(workQ') = ToSet(workQ) \ {x}
  BY <1>0, <1>2, TailFacts DEF Queues
<1>4. Queues' /\ ToSet(retryQ') = ToSet(retryQ) \ {x}
  BY <1>0, <1>2, <1>3 DEF Queues, Placed
<1>5. PICK t \in Threads : /\ wk' = [wk EXCEPT ![w] = t] /\ t.item = x
                           /\ t.pc \in {"open", "copen"} /\ (t.pc = "copen" <=> x \in Files)
  <2>1. CASE x \in Files
    <3>1. wk' = [wk EXCEPT ![w] = Thread("copen", x, "ok", FALSE)]
      BY <2>1 DEF TakeWork
    <3>2. Thread("copen", x, "ok", FALSE) \in Threads
      BY <1>3, ThreadTypes DEF Serves
    <3>3. QED
      BY <2>1, <3>1, <3>2 DEF Thread
  <2>2. CASE x \notin Files
    <3>1. wk' = [wk EXCEPT ![w] = Thread("open", x, "ok", FALSE)]
      BY <2>2 DEF TakeWork
    <3>2. Thread("open", x, "ok", FALSE) \in Threads
      BY <1>3, ThreadTypes DEF Serves
    <3>3. QED
      BY <2>2, <3>1, <3>2 DEF Thread
  <2>3. QED
    BY <2>1, <2>2
<1>6. /\ SameData /\ buf' \in [Buffers -> BufferStates]
      /\ x \in Buffers => buf'[x].at = "held"
      /\ \A b \in Buffers : b # x => buf'[b] = buf[b]
      /\ x \in Buffers => buf[x].at = "queue"
  <2>1. CASE x \in Files
    <3>1. buf' = buf /\ x \notin Buffers
      BY <2>1, ItemFacts DEF TakeWork
    <3>2. QED
      BY <3>1 DEF SameData, WriterInv, Types
  <2>2. CASE x \notin Files
    <3>1. x \in Buffers /\ buf[x].at = "queue"
      BY <1>2, <1>3, <2>2 DEF Items, Placed
    <3>2. buf[x].done = 0
      BY <3>1 DEF WriterInv, StageInv
    <3>3. buf' = [buf EXCEPT ![x].at = "held", ![x].done = 0]
      BY <2>2 DEF TakeWork
    <3> HIDE DEF x
    <3>4. buf \in [Buffers -> BufferStates] /\ buf[x] \in BufferStates
      BY <3>1 DEF WriterInv, Types
    <3>5. buf' = [buf EXCEPT ![x] = [buf[x] EXCEPT !.at = "held", !.done = buf[x].done]]
      BY <3>2, <3>3, <3>4
    <3>6. [buf[x] EXCEPT !.at = "held", !.done = buf[x].done] = [buf[x] EXCEPT !.at = "held"]
      BY <3>4 DEF BufferStates
    <3>7. buf' = [buf EXCEPT ![x].at = "held"]
      BY <3>4, <3>5, <3>6
    <3>8. QED
      BY <3>1, <3>7, MoveFacts DEF Lives
  <2>3. QED
    BY <2>1, <2>2
<1> HIDE DEF x
<1>7. Types'
  BY <1>0, <1>5, <1>6 DEF WriterInv, Types, envVars, jobVars, wakeVars
<1>8. wk'[w] = t /\ \A v \in Workers : v # w => wk'[v] = wk[v]
  BY <1>5 DEF WriterInv, Types
<1>9. PlaceInv'
  <2>1. x \in Files => x \notin Buffers
    BY ItemFacts
  <2>2. t.pc \in Serves
    BY <1>5 DEF Serves
  <2>3. /\ t.pc \in {"open", "submit", "settle"} => x \in Buffers
        /\ t.pc \in {"copen", "csettle"} => x \in Files
    BY <1>3, <1>5, <2>1 DEF Items
  <2>4. QED
    BY <1>1, <1>3, <1>4, <1>5, <1>6, <2>2, <2>3, PlaceTake
<1>10. CloseInv'
  <2>1. Closing' \subseteq Closing
    BY <1>3, <1>4, <1>5, <1>8 DEF Closing
  <2>2. QED
    BY <1>0, <2>1, CloseFrame
<1>11. StageInv' /\ DecoderInv' /\ CountInv' /\ AreaInv' /\ DiskInv'
  <2>1. Still
    BY <1>0, <1>6 DEF Still, SameShape, jobVars
  <2>2. \A b \in Buffers : buf'[b].at = "io" <=> buf[b].at = "io"
    BY <1>6
  <2>3. QED
    BY <1>0, <1>6, <2>1, <2>2, IOFrame, StillFrame
<1>12. ErrInv'
  BY <1>0, <1>5, <1>6, <1>8, ErrFrame DEF jobVars
<1>13. WakeInv'
  <2>1. UNCHANGED <<gate, token, waking, posted, packet, retryQ>>
    BY <1>0 DEF jobVars, wakeVars
  <2>2. \A y \in ToSet(retryQ) : Owner(y)' = Owner(y)
    BY <1>6, OwnersKept
  <2>3. \A y \in ToSet(retryQ') : Due(y)' => y \in ToSet(retryQ) /\ Due(y)
    BY <2>1, <2>2 DEF Due
  <2>4. /\ \A v \in Workers : wk[v].pc = "ack" => wk'[v].pc = "ack"
        /\ \A v \in Workers : Searching(wk[v]) => Searching(wk'[v])
        /\ \A v \in Workers : wk'[v].pc = "idle" => ~wk'[v].again
    BY <1>1, <1>5, <1>8 DEF WriterInv, WakeInv
  <2>5. QED
    BY <2>1, <2>3, <2>4, WakeKeeps
<1>14. QED
  BY <1>7, <1>9, <1>10, <1>11, <1>12, <1>13 DEF WriterInv

(* A thread goes on with what it has, or lets go of it.                    *)
LEMMA OnwardFacts ==
    ASSUME WriterInv, NEW w \in Workers, NEW p \in Serves \cup {"idle", "ack", "scan"}
    PROVE  LET t == [wk[w] EXCEPT !.pc = p] IN
           /\ t \in Threads /\ t.pc = p /\ t.item = wk[w].item /\ t.again = wk[w].again
           /\ t.result = wk[w].result
<1>1. wk[w] \in Threads
  BY DEF WriterInv, Types
<1>2. QED
  BY <1>1 DEF Threads

LEMMA ResultFacts ==
    ASSUME WriterInv, NEW w \in Workers, NEW p \in Serves,
           NEW r \in {"ok", "space", "permanent", "terminal"}
    PROVE  LET t == [wk[w] EXCEPT !.pc = p, !.result = r] IN
           /\ t \in Threads /\ t.pc = p /\ t.item = wk[w].item /\ t.again = wk[w].again
           /\ t.result = r
<1>1. wk[w] \in Threads
  BY DEF WriterInv, Types
<1>2. QED
  BY <1>1 DEF Threads

LEMMA RestingFacts ==
    ASSUME WriterInv, NEW again \in BOOLEAN
    PROVE  /\ Resting(again) \in Threads /\ Resting(again).item = None
           /\ Resting(again).pc \notin Serves /\ Resting(again).pc # "ack"
           /\ Resting(again).pc \in {"idle", "scan"}
           /\ ~Resting(again).again /\ (Searching(Resting(again)) <=> again)
<1>1. Resting(again) \in Threads
  BY ThreadTypes
<1>2. CASE again
  BY <1>1, <1>2 DEF Resting, Thread, Searching, Serves
<1>3. CASE ~again
  BY <1>1, <1>3 DEF Resting, Thread, Searching, Serves
<1>4. QED
  BY <1>2, <1>3

LEMMA WkFacts ==
    ASSUME WriterInv, NEW w \in Workers, NEW t, wk' = [wk EXCEPT ![w] = t]
    PROVE  wk'[w] = t /\ \A v \in Workers : v # w => wk'[v] = wk[v]
BY DEF WriterInv, Types

(* Only a thread changes, and maybe what is known of failures.             *)
LEMMA QuietThread ==
    ASSUME WriterInv, NEW w \in Workers, NEW t \in Threads, wk' = [wk EXCEPT ![w] = t],
           UNCHANGED <<buf, file, workQ, retryQ, prod, pending, inflight, disk, meter>>,
           err \subseteq err', t.item = wk[w].item \/ t.item = None,
           t.pc \in Serves <=> t.item # None, t.pc \notin {"open", "submit", "copen"},
           t.pc = "settle" => /\ wk[w].pc \in {"open", "submit", "settle"}
                              /\ t.item = wk[w].item
                              /\ t.result = "terminal" /\ JobOf[buf[wk[w].item].file] \in err',
           t.pc # "csettle"
    PROVE  PlaceInv' /\ CloseInv' /\ StageInv' /\ DecoderInv' /\ CountInv' /\ AreaInv'
           /\ DiskInv' /\ ErrInv'
<1>1. wk'[w] = t /\ \A v \in Workers : v # w => wk'[v] = wk[v]
  BY WkFacts
<1>2. PlaceInv'
  <2>1. Queues' /\ ToSet(workQ') = ToSet(workQ) /\ ToSet(retryQ') = ToSet(retryQ)
    BY PlaceParts DEF WriterInv, Queues, Once, ToSet
  <2>2. /\ t.pc \in {"open", "submit", "settle"} => t.item \in Buffers
        /\ t.pc \in {"copen", "csettle"} => t.item \in Files
    BY DEF WriterInv, PlaceInv
  <2>3. QED
    BY <2>1, <2>2, PlaceThread
<1>3. CloseInv'
  <2>1. \A v \in Workers : wk'[v].item \in {wk[v].item, None}
    BY <1>1
  <2>2. Closing' \cap Files \subseteq Closing
    BY <2>1, ClosingSame
  <2>3. QED
    BY <2>2, CloseFrame
<1>4. SameData /\ StageInv' /\ DecoderInv' /\ CountInv' /\ AreaInv' /\ DiskInv'
  BY NothingMoves
<1>5. ErrInv'
  <2>1. CASE t.pc # "settle"
    BY <1>1, <1>4, <2>1, ErrFrame
  <2>2. CASE t.pc = "settle"
    <3>1. ErrInv
      BY DEF WriterInv
    <3>2. ASSUME NEW v \in Workers
          PROVE  /\ wk'[v].pc = "settle" /\ wk'[v].result = "ok" =>
                       buf'[wk'[v].item].done = buf'[wk'[v].item].size
                 /\ wk'[v].pc = "settle" /\ wk'[v].result \in {"permanent", "terminal"} =>
                       JobOf[buf'[wk'[v].item].file] \in err'
                 /\ wk'[v].pc = "csettle" /\ wk'[v].result = "ok" =>
                       file'[wk'[v].item].created \/ file'[wk'[v].item].failed
      <4>1. CASE v = w
        BY <1>1, <2>2, <4>1
      <4>2. CASE v # w
        BY <1>1, <3>1, <4>2 DEF ErrInv
      <4>3. QED
        BY <4>1, <4>2
    <3>3. QED
      BY <3>1, <3>2 DEF ErrInv
  <2>3. QED
    BY <2>1, <2>2
<1>6. QED
  BY <1>2, <1>3, <1>4, <1>5

LEMMA TakeRetryStep ==
    ASSUME WriterInv, NEW w \in Workers, TakeRetry(w) PROVE WriterInv'
<1> DEFINE t == [wk[w] EXCEPT !.pc = "ack"]
<1>0. /\ Waiting(w) /\ packet' = FALSE /\ wk' = [wk EXCEPT ![w] = t]
      /\ UNCHANGED <<gate, envVars, jobVars, ioVars, lease, retryQ, posted, disk, meter>>
  BY DEF TakeRetry, WriterInv, Types
<1>1. wk[w].pc = "idle" /\ wk[w].item = None /\ ~wk[w].again
  BY <1>0, IdleFacts
<1>2. t \in Threads /\ t.pc = "ack" /\ t.item = None /\ t.again = wk[w].again
  BY <1>1, OnwardFacts
<1> HIDE DEF t
<1>3. wk'[w] = t /\ \A v \in Workers : v # w => wk'[v] = wk[v]
  BY <1>0, WkFacts
<1>4. Types'
  BY <1>0, <1>2 DEF WriterInv, Types, envVars, jobVars, ioVars
<1>5. PlaceInv' /\ CloseInv' /\ StageInv' /\ DecoderInv' /\ CountInv' /\ AreaInv'
      /\ DiskInv' /\ ErrInv'
  <2>1. UNCHANGED <<buf, file, workQ, retryQ, prod, pending, inflight, disk, meter>>
        /\ err \subseteq err'
    BY <1>0 DEF jobVars, ioVars
  <2>2. (t.pc \in Serves <=> t.item # None)
        /\ t.pc \notin {"open", "submit", "copen", "settle", "csettle"}
    BY <1>2 DEF Serves
  <2>3. QED
    BY <1>0, <1>2, <2>1, <2>2, QuietThread
<1>6. WakeInv'
  <2>1. NoLostWake'
    BY <1>2, <1>3 DEF NoLostWake
  <2>2. \A v \in Workers : wk'[v].pc = "idle" => ~wk'[v].again
    BY <1>2, <1>3 DEF WriterInv, WakeInv
  <2>3. QED
    BY <1>2, <1>3, <2>1, <2>2 DEF WakeInv
<1>7. QED
  BY <1>4, <1>5, <1>6 DEF WriterInv

LEMMA AckStep ==
    ASSUME WriterInv, NEW w \in Workers, Ack(w) PROVE WriterInv'
<1> DEFINE t == [wk[w] EXCEPT !.pc = "scan"]
<1>0. /\ wk[w].pc = "ack" /\ posted' = FALSE /\ wk' = [wk EXCEPT ![w] = t]
      /\ UNCHANGED <<gate, envVars, jobVars, ioVars, lease, retryQ, packet, disk, meter>>
  BY DEF Ack, WriterInv, Types
<1>1. wk[w].item = None
  BY <1>0, ItemFacts DEF Serves
<1>2. t \in Threads /\ t.pc = "scan" /\ t.item = None /\ t.again = wk[w].again
  BY <1>1, OnwardFacts
<1> HIDE DEF t
<1>3. wk'[w] = t /\ \A v \in Workers : v # w => wk'[v] = wk[v]
  BY <1>0, WkFacts
<1>4. Types'
  BY <1>0, <1>2 DEF WriterInv, Types, envVars, jobVars, ioVars
<1>5. PlaceInv' /\ CloseInv' /\ StageInv' /\ DecoderInv' /\ CountInv' /\ AreaInv'
      /\ DiskInv' /\ ErrInv'
  <2>1. UNCHANGED <<buf, file, workQ, retryQ, prod, pending, inflight, disk, meter>>
        /\ err \subseteq err'
    BY <1>0 DEF jobVars, ioVars
  <2>2. (t.pc \in Serves <=> t.item # None)
        /\ t.pc \notin {"open", "submit", "copen", "settle", "csettle"}
    BY <1>2 DEF Serves
  <2>3. QED
    BY <1>0, <1>2, <2>1, <2>2, QuietThread
<1>6. WakeInv'
  <2>1. NoLostWake'
    BY <1>2, <1>3 DEF NoLostWake
  <2>2. \A v \in Workers : wk'[v].pc = "idle" => ~wk'[v].again
    BY <1>2, <1>3 DEF WriterInv, WakeInv
  <2>3. QED
    BY <1>0, <2>1, <2>2 DEF WakeInv
<1>7. QED
  BY <1>4, <1>5, <1>6 DEF WriterInv

(* dispatch_space_retries finds nothing to do: then nothing is due.        *)
LEMMA ScanNothing ==
    ASSUME WriterInv, NEW w \in Workers, Scan(w), \A i \in DOMAIN retryQ : Ruling(i) = "pending"
    PROVE  WriterInv'
<1> DEFINE t == Resting(FALSE)
<1>0. /\ wk[w].pc = "scan" /\ wk' = [wk EXCEPT ![w] = t]
      /\ \E J : err' = Synchronized(J)
      /\ UNCHANGED <<gate, lease, buf, retryQ>>
      /\ UNCHANGED <<envVars, token, waking, pending, inflight, prod, file, workQ,
                     wakeVars, disk, meter>>
  BY DEF Scan
<1>1. err \subseteq err' /\ err' \subseteq Jobs
  BY <1>0 DEF Synchronized, WriterInv, Types
<1>2. t \in Threads /\ t.pc \in {"idle", "scan"} /\ t.item = None /\ ~t.again
  BY RestingFacts
<1> HIDE DEF t
<1>3. wk'[w] = t /\ \A v \in Workers : v # w => wk'[v] = wk[v]
  BY <1>0, WkFacts
<1>4. Types'
  BY <1>0, <1>1, <1>2 DEF WriterInv, Types, envVars, wakeVars
<1>5. PlaceInv' /\ CloseInv' /\ StageInv' /\ DecoderInv' /\ CountInv' /\ AreaInv'
      /\ DiskInv' /\ ErrInv'
  <2>1. (t.pc \in Serves <=> t.item # None)
        /\ t.pc \notin {"open", "submit", "copen", "settle", "csettle"}
    BY <1>2 DEF Serves
  <2>2. QED
    BY <1>0, <1>1, <1>2, <2>1, QuietThread
<1>6. WakeInv'
  <2>1. ASSUME NEW i \in DOMAIN retryQ
        PROVE  Decision(gate, Owner(retryQ[i]) \in token) = "pending"
    <3>1. Decision(gate, Terminal(Owner(retryQ[i]))) = "pending"
      BY DEF Ruling
    <3>2. ~Terminal(Owner(retryQ[i]))
      BY <3>1 DEF Decision
    <3>3. Owner(retryQ[i]) \notin token
      BY <3>2 DEF Terminal
    <3>4. QED
      BY <3>1, <3>2, <3>3 DEF Decision
  <2>2. NoLostWake'
    BY <1>0, <2>1 DEF NoLostWake, Owner, FileOf
  <2>3. \A v \in Workers : wk'[v].pc = "idle" => ~wk'[v].again
    BY <1>2, <1>3 DEF WriterInv, WakeInv
  <2>4. posted' => packet' \/ \E v \in Workers : wk'[v].pc = "ack"
    <3>1. posted => packet \/ \E v \in Workers : wk[v].pc = "ack"
      BY DEF WriterInv, WakeInv
    <3>2. \A v \in Workers : wk[v].pc = "ack" => wk'[v].pc = "ack"
      BY <1>0, <1>3
    <3>3. QED
      BY <1>0, <3>1, <3>2 DEF wakeVars
  <2>5. QED
    BY <2>2, <2>3, <2>4 DEF WakeInv
<1>7. QED
  BY <1>4, <1>5, <1>6 DEF WriterInv

(* It takes a parked item, and looks again after that.                     *)
LEMMA ScanTakes ==
    ASSUME WriterInv, NEW w \in Workers, Scan(w), ~\A i \in DOMAIN retryQ : Ruling(i) = "pending"
    PROVE  WriterInv'
<1>0. /\ wk[w].pc = "scan"
      /\ UNCHANGED <<envVars, token, waking, pending, inflight, prod, file, workQ,
                     wakeVars, disk, meter>>
  BY DEF Scan
<1>1. PICK stop \in DOMAIN retryQ :
          /\ \E J : err' = Synchronized(J)
          /\ retryQ' = RemoveAt(retryQ, stop)
          /\ gate' \in {gate, ClaimProbe(gate, retryQ[stop])}
          /\ lease' \subseteq lease \cup {retryQ[stop]}
          /\ \/ /\ retryQ[stop] \in Files /\ buf' = buf
                /\ wk' = [wk EXCEPT ![w] = Thread("copen", retryQ[stop], "ok", TRUE)]
             \/ /\ retryQ[stop] \notin Files /\ buf' = [buf EXCEPT ![retryQ[stop]].at = "held"]
                /\ wk' = [wk EXCEPT ![w] = Thread("open", retryQ[stop], "ok", TRUE)]
  BY DEF Scan
<1> DEFINE x == retryQ[stop]
<1>2. Queues /\ Placed
  BY PlaceParts DEF WriterInv
<1>3. /\ retryQ' \in Seq(Items) /\ Once(retryQ') /\ x \in ToSet(retryQ) /\ x \in Items
      /\ ToSet(retryQ') = ToSet(retryQ) \ {x}
  <2>1. x \in ToSet(retryQ)
    BY <1>1 DEF ToSet
  <2>2. x \in Items
    BY <2>1, ItemFacts
  <2>3. retryQ \in Seq(Items) /\ Once(retryQ)
    BY <1>2 DEF Queues
  <2>4. QED
    BY <1>1, <2>1, <2>2, <2>3, RemoveFacts
<1>4. Queues' /\ ToSet(workQ') = ToSet(workQ) \ {x}
  BY <1>0, <1>2, <1>3 DEF Queues, Placed
<1>5. PICK t \in Threads : /\ wk' = [wk EXCEPT ![w] = t] /\ t.item = x /\ t.again
                           /\ t.pc \in {"open", "copen"} /\ (t.pc = "copen" <=> x \in Files)
  <2>1. Thread("copen", x, "ok", TRUE) \in Threads /\ Thread("open", x, "ok", TRUE) \in Threads
    BY <1>3, ThreadTypes DEF Serves
  <2>2. QED
    BY <1>1, <2>1 DEF Thread
<1>6. /\ SameData /\ buf' \in [Buffers -> BufferStates]
      /\ x \in Buffers => buf'[x].at = "held"
      /\ \A b \in Buffers : b # x => buf'[b] = buf[b]
      /\ x \in Buffers => buf[x].at = "retry"
  <2>1. CASE x \in Files
    <3>1. buf' = buf /\ x \notin Buffers
      BY <1>1, <2>1, ItemFacts
    <3>2. QED
      BY <3>1 DEF SameData, WriterInv, Types
  <2>2. CASE x \notin Files
    <3>1. x \in Buffers /\ buf[x].at = "retry"
      BY <1>2, <1>3, <2>2 DEF Items, Placed
    <3>2. buf' = [buf EXCEPT ![x].at = "held"]
      BY <1>1, <2>2
    <3>3. QED
      BY <3>1, <3>2, MoveFacts DEF Lives
  <2>3. QED
    BY <2>1, <2>2
<1> HIDE DEF x
<1>7. err \subseteq err' /\ err' \subseteq Jobs
  BY <1>1 DEF Synchronized, WriterInv, Types
<1>8. Types'
  <2>1. gate' \in GateRecords
    <3>1. gate' \in {gate, ClaimProbe(gate, x)} /\ gate \in GateRecords
      BY <1>1 DEF x, WriterInv, Types
    <3>2. ClaimProbe(gate, x) \in GateRecords
      BY <1>3, <3>1, GateTypes
    <3>3. QED
      BY <3>1, <3>2
  <2>2. lease' \subseteq Items
    BY <1>1, <1>3 DEF WriterInv, Types, x
  <2>3. QED
    BY <1>0, <1>5, <1>6, <1>7, <2>1, <2>2 DEF WriterInv, Types, envVars, wakeVars
<1>9. wk'[w] = t /\ \A v \in Workers : v # w => wk'[v] = wk[v]
  BY <1>5, WkFacts
<1>10. PlaceInv'
  <2>1. wk[w].item = None
    BY <1>0, ItemFacts DEF Serves
  <2>2. t.pc \in Serves
    BY <1>5 DEF Serves
  <2>3. /\ t.pc \in {"open", "submit", "settle"} => x \in Buffers
        /\ t.pc \in {"copen", "csettle"} => x \in Files
    BY <1>3, <1>5 DEF Items
  <2>4. QED
    BY <1>3, <1>4, <1>5, <1>6, <2>1, <2>2, <2>3, PlaceTake
<1>11. CloseInv'
  <2>1. Closing' \subseteq Closing
    BY <1>3, <1>4, <1>5, <1>9 DEF Closing
  <2>2. QED
    BY <1>0, <2>1, CloseFrame
<1>12. StageInv' /\ DecoderInv' /\ CountInv' /\ AreaInv' /\ DiskInv'
  <2>1. Still
    BY <1>0, <1>6, <1>7 DEF Still, SameShape
  <2>2. \A b \in Buffers : buf'[b].at = "io" <=> buf[b].at = "io"
    BY <1>6
  <2>3. QED
    BY <1>0, <1>6, <2>1, <2>2, IOFrame, StillFrame
<1>13. ErrInv'
  BY <1>0, <1>5, <1>6, <1>7, <1>9, ErrFrame
<1>14. WakeInv'
  <2>1. NoLostWake'
    BY <1>5, <1>9 DEF NoLostWake
  <2>2. /\ \A v \in Workers : wk[v].pc = "ack" => wk'[v].pc = "ack"
        /\ \A v \in Workers : wk'[v].pc = "idle" => ~wk'[v].again
    BY <1>0, <1>5, <1>9 DEF WriterInv, WakeInv
  <2>3. posted => packet \/ \E v \in Workers : wk[v].pc = "ack"
    BY DEF WriterInv, WakeInv
  <2>4. QED
    BY <1>0, <2>1, <2>2, <2>3 DEF WakeInv, wakeVars
<1>15. QED
  BY <1>8, <1>10, <1>11, <1>12, <1>13, <1>14 DEF WriterInv

(* The gate says the same to every parked item as before.                  *)
LEMMA WakeQuiet ==
    ASSUME WriterInv, SameData, UNCHANGED <<gate, token, waking, retryQ>>,
           packet => packet', posted' => posted \/ packet',
           NEW w \in Workers, NEW t, wk' = [wk EXCEPT ![w] = t],
           wk[w].pc # "ack", Searching(wk[w]) => Searching(t), t.pc = "idle" => ~t.again
    PROVE  WakeInv'
<1>1. wk'[w] = t /\ \A v \in Workers : v # w => wk'[v] = wk[v]
  BY WkFacts
<1>2. \A y \in ToSet(retryQ) : Owner(y)' = Owner(y)
  BY OwnersKept
<1>3. \A y \in ToSet(retryQ') : Due(y)' => y \in ToSet(retryQ) /\ Due(y)
  BY <1>2 DEF Due
<1>4. /\ \A v \in Workers : wk[v].pc = "ack" => wk'[v].pc = "ack"
      /\ \A v \in Workers : Searching(wk[v]) => Searching(wk'[v])
      /\ \A v \in Workers : wk'[v].pc = "idle" => ~wk'[v].again
  BY <1>1 DEF WriterInv, WakeInv
<1>5. QED
  BY <1>3, <1>4, WakeKeeps

LEMMA WakeThread ==
    ASSUME WriterInv, WakeIf(TRUE), NEW w \in Workers, NEW t, wk' = [wk EXCEPT ![w] = t],
           wk[w].pc # "ack", t.pc = "idle" => ~t.again
    PROVE  WakeInv'
<1>1. wk'[w] = t /\ \A v \in Workers : v # w => wk'[v] = wk[v]
  BY WkFacts
<1>2. /\ \A v \in Workers : wk[v].pc = "ack" => wk'[v].pc = "ack"
      /\ \A v \in Workers : wk'[v].pc = "idle" => ~wk'[v].again
  BY <1>1 DEF WriterInv, WakeInv
<1>3. QED
  BY <1>2, WakePosts

(* The buffer a thread has: its file still waits for it.                   *)
LEMMA HeldFacts ==
    ASSUME WriterInv, NEW w \in Workers, wk[w].item \in Buffers
    PROVE  LET b == wk[w].item
               f == buf[b].file
           IN  /\ buf[b].at = "held" /\ buf[b] \in BufferStates /\ buf[b].size > 0
               /\ f \in Files /\ file[f] \in FileStates /\ JobOf[f] \in Jobs
               /\ FileOf(b) = f /\ b \notin Files /\ b \in Items
               /\ ~file[f].queued /\ ~file[f].closed /\ file[f].outstanding > 0
<1> DEFINE b == wk[w].item
           f == buf[b].file
<1>1. b \in Buffers /\ buf[b].at = "held"
  BY DEF WriterInv, PlaceInv
<1>2. buf[b] \in BufferStates
  BY <1>1 DEF WriterInv, Types
<1>3. f \in Files /\ buf[b].size # 0
  BY <1>1 DEF WriterInv, StageInv
<1>4. buf[b].size > 0
  BY <1>2, <1>3 DEF BufferStates
<1>5. b \notin Files /\ b \in Items
  BY <1>1, WriterAssumption DEF Items
<1> HIDE DEF b, f
<1>6. file[f].outstanding \in Nat /\ file[f].outstanding > 0
  BY <1>1, <1>3, <1>4, StagedCounts DEF f
<1>7. ~file[f].queued
  BY <1>3, <1>6 DEF WriterInv, CloseInv
<1>8. ~file[f].closed
  BY <1>3, <1>7 DEF WriterInv, CloseInv
<1>9. file[f] \in FileStates /\ JobOf[f] \in Jobs
  BY <1>3, WriterAssumption DEF WriterInv, Types
<1>10. FileOf(b) = f
  BY <1>5 DEF FileOf, f
<1>11. QED
  BY <1>1, <1>2, <1>3, <1>4, <1>5, <1>6, <1>7, <1>8, <1>9, <1>10 DEF b, f

(* The file a thread closes.                                               *)
LEMMA CloserFacts ==
    ASSUME WriterInv, NEW w \in Workers, wk[w].item \in Files
    PROVE  LET f == wk[w].item
           IN  /\ file[f] \in FileStates /\ JobOf[f] \in Jobs /\ f \in Items /\ f \notin Buffers
               /\ f # None /\ file[f].queued /\ file[f].closing /\ ~file[f].closed
               /\ file[f].outstanding = 0
<1>1. wk[w].item \in Closing
  BY DEF Closing
<1>2. QED
  BY <1>1, WriterAssumption DEF WriterInv, CloseInv, Types, Items

(* Only what is known of the file's handle differs.                        *)
Flagged(fl, old) ==
    /\ fl.stage = old.stage /\ fl.next = old.next /\ fl.inflight = old.inflight
    /\ fl.outstanding = old.outstanding /\ fl.active = old.active
    /\ fl.accepted = old.accepted /\ fl.closing = old.closing
    /\ fl.queued = old.queued /\ fl.closed = old.closed
    /\ old.created => fl.created
    /\ old.failed => fl.failed

(* A thread has tried to open the file of its item.                        *)
LEMMA FlagStep ==
    ASSUME WriterInv, NEW w \in Workers, NEW t \in Threads, wk' = [wk EXCEPT ![w] = t],
           NEW f \in Files, NEW fl \in FileStates, file' = [file EXCEPT ![f] = fl],
           UNCHANGED <<buf, workQ, retryQ, prod, pending, inflight, disk, meter>>,
           err \subseteq err', Flagged(fl, file[f]), ~file[f].closed,
           fl.failed => JobOf[f] \in err', fl.handle => fl.created,
           fl.tried => fl.created \/ fl.failed,
           t.item = wk[w].item, t.item # None, t.pc \in {"submit", "settle", "csettle"},
           t.pc \in {"submit", "settle"} => t.item \in Buffers,
           t.pc = "csettle" => t.item = f,
           t.pc = "settle" => t.result # "ok",
           t.pc = "settle" /\ t.result \in {"permanent", "terminal"} =>
               JobOf[buf[t.item].file] \in err',
           t.pc = "csettle" /\ t.result = "ok" => fl.created \/ fl.failed
    PROVE  PlaceInv' /\ CloseInv' /\ StageInv' /\ DecoderInv' /\ CountInv' /\ AreaInv'
           /\ DiskInv' /\ ErrInv' /\ SameData /\ file' \in [Files -> FileStates]
<1>1. wk'[w] = t /\ \A v \in Workers : v # w => wk'[v] = wk[v]
  BY WkFacts
<1>2. /\ file' \in [Files -> FileStates] /\ file'[f] = fl
      /\ \A g \in Files : g # f => file'[g] = file[g]
  BY DEF WriterInv, Types
<1>3. \A g \in Files : Flagged(file'[g], file[g])
  BY <1>2 DEF Flagged
<1>4. PlaceInv'
  <2>1. Queues' /\ ToSet(workQ') = ToSet(workQ) /\ ToSet(retryQ') = ToSet(retryQ)
    BY PlaceParts DEF WriterInv, Queues, Once, ToSet
  <2>2. t.pc \in Serves
    BY DEF Serves
  <2>3. QED
    BY <2>1, <2>2, PlaceThread
<1>5. CloseInv'
  <2>1. \A v \in Workers : wk'[v].item \in {wk[v].item, None}
    BY <1>1
  <2>2. Closing' \cap Files \subseteq Closing
    BY <2>1, ClosingSame
  <2>3. \A g \in Files : file'[g].handle => file[g].handle \/ ~file[g].closed
    BY <1>2
  <2>4. QED
    BY <1>3, <2>2, <2>3, CloseFrame DEF Flagged
<1>6. SameData /\ StageInv' /\ DecoderInv' /\ CountInv' /\ AreaInv' /\ DiskInv'
  <2>1. SameData /\ SameShape /\ Still
    BY <1>3 DEF SameData, SameShape, Still, Flagged
  <2>2. \A g \in Files : file'[g].active = file[g].active
    BY <1>3 DEF Flagged
  <2>3. QED
    BY <2>1, <2>2, IOFrame, StillFrame
<1>7. ErrInv'
  <2>1. ErrInv
    BY DEF WriterInv
  <2>2. ASSUME NEW g \in Files
        PROVE  /\ file'[g].failed => JobOf[g] \in err'
               /\ file'[g].handle => file'[g].created
               /\ file'[g].tried => file'[g].created \/ file'[g].failed
               /\ file'[g].closed => file'[g].created \/ JobOf[g] \in err'
    <3>1. CASE g = f
      BY <1>2, <3>1 DEF Flagged
    <3>2. CASE g # f
      BY <1>2, <2>1, <3>2 DEF ErrInv
    <3>3. QED
      BY <3>1, <3>2
  <2>3. ASSUME NEW v \in Workers
        PROVE  /\ wk'[v].pc = "settle" /\ wk'[v].result = "ok" =>
                     buf'[wk'[v].item].done = buf'[wk'[v].item].size
               /\ wk'[v].pc = "settle" /\ wk'[v].result \in {"permanent", "terminal"} =>
                     JobOf[buf'[wk'[v].item].file] \in err'
               /\ wk'[v].pc = "csettle" /\ wk'[v].result = "ok" =>
                     file'[wk'[v].item].created \/ file'[wk'[v].item].failed
    <3>1. CASE v = w
      BY <1>1, <1>2, <3>1
    <3>2. CASE v # w
      <4>1. wk[v].pc = "csettle" => wk[v].item \in Files
        BY DEF WriterInv, PlaceInv
      <4>2. QED
        BY <1>1, <1>3, <2>1, <3>2, <4>1 DEF ErrInv, Flagged
    <3>3. QED
      BY <3>1, <3>2
  <2>4. QED
    BY <2>2, <2>3 DEF ErrInv
<1>8. QED
  BY <1>2, <1>4, <1>5, <1>6, <1>7

(* try_open_file by its outcome.                                           *)
LEMMA OpenedFacts ==
    ASSUME NEW fl \in FileStates, NEW r \in {"ok", "space", "permanent"}
    PROVE  LET new == Opened(fl, r) IN
           /\ new \in FileStates /\ Flagged(new, fl)
           /\ r = "ok" => new.handle /\ new.tried /\ new.created /\ new.failed = fl.failed
           /\ r = "space" => new = fl
           /\ r = "permanent" => new.failed /\ new.handle = fl.handle /\ new.created = fl.created
<1>1. CASE r = "ok"
  <2>1. Opened(fl, r) = [fl EXCEPT !.handle = TRUE, !.tried = TRUE, !.created = TRUE]
    BY <1>1 DEF Opened
  <2>2. QED
    BY <1>1, <2>1 DEF FileStates, Flagged
<1>2. CASE r = "space"
  <2>1. Opened(fl, r) = fl
    BY <1>2 DEF Opened
  <2>2. QED
    BY <1>2, <2>1 DEF FileStates, Flagged
<1>3. CASE r = "permanent"
  <2>1. Opened(fl, r) = [fl EXCEPT !.tried = TRUE, !.failed = TRUE]
    BY <1>3 DEF Opened
  <2>2. QED
    BY <1>3, <2>1 DEF FileStates, Flagged
<1>4. QED
  BY <1>1, <1>2, <1>3

LEMMA OpenResultsFacts ==
    ASSUME WriterInv, NEW f \in Files
    PROVE  OpenResults(f) \subseteq {"ok", "space", "permanent"}
<1>1. vol \in {"free", "full", "gone"}
  BY DEF WriterInv, Types
<1>2. QED
  BY <1>1 DEF OpenResults

LEMMA OpenStep ==
    ASSUME WriterInv, NEW w \in Workers, Open(w) PROVE WriterInv'
<1> DEFINE b == wk[w].item
           f == buf[b].file
           j == JobOf[f]
<1>0. /\ wk[w].pc = "open"
      /\ UNCHANGED <<gate, envVars, token, waking, pending, inflight, prod, buf,
                     workQ, lease, retryQ, disk, meter>>
  BY DEF Open
<1>1. b \in Buffers
  BY <1>0 DEF WriterInv, PlaceInv
<1>2. /\ f \in Files /\ file[f] \in FileStates /\ j \in Jobs /\ FileOf(b) = f /\ ~file[f].closed
      /\ b # None
  BY <1>1, HeldFacts, WriterAssumption
<1>3. ErrInv /\ Types
  BY DEF WriterInv
<1>4. CASE Terminal(j)
  <2> DEFINE t == [wk[w] EXCEPT !.pc = "settle", !.result = "terminal"]
             fl == [file[f] EXCEPT !.failed = TRUE]
  <2>1. /\ err' = err \cup {j} /\ WakeIf(TRUE)
        /\ file' = [file EXCEPT ![f].failed = TRUE]
        /\ wk' = [wk EXCEPT ![w].pc = "settle", ![w].result = "terminal"]
    BY <1>2, <1>4 DEF Open
  <2>2. file' = [file EXCEPT ![f] = fl] /\ wk' = [wk EXCEPT ![w] = t]
    BY <1>2, <1>3, <2>1, Zenon DEF Types
  <2>3. /\ t \in Threads /\ t.pc = "settle" /\ t.item = b /\ t.again = wk[w].again
        /\ t.result = "terminal"
    BY ResultFacts, ZenonT(60) DEF Serves
  <2>4. /\ fl \in FileStates /\ Flagged(fl, file[f]) /\ fl.failed
        /\ fl.handle = file[f].handle /\ fl.created = file[f].created
    BY <1>2 DEF FileStates, Flagged
  <2> HIDE DEF t, fl, b, f, j
  <2>5. fl.handle => fl.created
    BY <1>2, <1>3, <2>4 DEF ErrInv
  <2>6. PlaceInv' /\ CloseInv' /\ StageInv' /\ DecoderInv' /\ CountInv' /\ AreaInv'
        /\ DiskInv' /\ ErrInv' /\ SameData /\ file' \in [Files -> FileStates]
    BY <1>0, <1>1, <1>2, <2>1, <2>2, <2>3, <2>4, <2>5, FlagStep, ZenonT(60) DEF b, f, j
  <2>7. Types'
    <3>1. posted' \in BOOLEAN /\ packet' \in BOOLEAN
      BY <1>3, <2>1, WakeTypes
    <3>2. wk' \in [Workers -> Threads]
      BY <1>3, <2>2, <2>3, WkTypes
    <3>3. err' \subseteq Jobs
      BY <1>2, <1>3, <2>1 DEF Types
    <3>4. QED
      BY <1>0, <1>3, <2>6, <3>1, <3>2, <3>3 DEF Types, envVars
  <2>8. WakeInv'
    BY <1>0, <2>1, <2>2, <2>3, WakeThread
  <2>9. QED
    BY <2>6, <2>7, <2>8, SMTT(60) DEF WriterInv
<1>5. CASE ~Terminal(j)
  <2>1. PICK r \in OpenResults(f) :
            /\ err' = IF r = "permanent" THEN err \cup {j} ELSE err
            /\ file' = [file EXCEPT ![f] = Opened(file[f], r)]
            /\ wk' = [wk EXCEPT ![w].pc = IF r = "ok" THEN "submit" ELSE "settle",
                                ![w].result = r]
            /\ UNCHANGED wakeVars
    BY <1>2, <1>3, <1>5 DEF Open, Types
  <2> DEFINE p == IF r = "ok" THEN "submit" ELSE "settle"
             t == [wk[w] EXCEPT !.pc = p, !.result = r]
             fl == Opened(file[f], r)
  <2>2. file' = [file EXCEPT ![f] = fl] /\ wk' = [wk EXCEPT ![w] = t]
    BY <1>2, <1>3, <2>1 DEF Types
  <2>3. r \in {"ok", "space", "permanent"}
    BY <1>2, <2>1, OpenResultsFacts
  <2>4. /\ p \in Serves /\ p \in {"submit", "settle"} /\ (p = "settle" => r # "ok")
    BY DEF Serves
  <2> HIDE DEF p
  <2>5. t \in Threads /\ t.pc = p /\ t.item = b /\ t.again = wk[w].again /\ t.result = r
    <3>1. r \in {"ok", "space", "permanent", "terminal"}
      BY <2>3
    <3>2. wk[w] \in Threads
      BY <1>3 DEF Types
    <3> HIDE DEF f, j
    <3>3. QED
      BY <2>4, <3>1, <3>2 DEF Threads
  <2>6. /\ fl \in FileStates /\ Flagged(fl, file[f])
        /\ r = "ok" => fl.handle /\ fl.tried /\ fl.created /\ fl.failed = file[f].failed
        /\ r = "space" => fl = file[f]
        /\ r = "permanent" => fl.failed /\ fl.handle = file[f].handle /\ fl.created = file[f].created
    BY <1>2, <2>3, OpenedFacts
  <2> HIDE DEF t, fl, b, f, j
  <2>7. err \subseteq err' /\ (r = "permanent" => j \in err') /\ err' \subseteq Jobs
    BY <1>2, <1>3, <2>1 DEF Types
  <2>8. /\ file[f].failed => j \in err
        /\ file[f].handle => file[f].created
        /\ file[f].tried => file[f].created \/ file[f].failed
    BY <1>2, <1>3 DEF ErrInv, j
  <2>9. /\ fl.failed => j \in err'
        /\ fl.handle => fl.created
        /\ fl.tried => fl.created \/ fl.failed
    BY <2>3, <2>6, <2>7, <2>8
  <2>10. PlaceInv' /\ CloseInv' /\ StageInv' /\ DecoderInv' /\ CountInv' /\ AreaInv'
         /\ DiskInv' /\ ErrInv' /\ SameData /\ file' \in [Files -> FileStates]
    <3>1. /\ fl.failed => JobOf[f] \in err'
          /\ t.pc = "settle" /\ t.result \in {"permanent", "terminal"} =>
                JobOf[buf[t.item].file] \in err'
      BY <2>3, <2>5, <2>7, <2>9 DEF f, j
    <3>2. t.pc \in {"submit", "settle", "csettle"} /\ t.pc # "csettle" /\ t.item \in Buffers
          /\ t.item = wk[w].item /\ t.item # None /\ (t.pc = "settle" => t.result # "ok")
      BY <1>1, <1>2, <2>4, <2>5 DEF b
    <3>3. QED
      BY <1>0, <1>2, <2>2, <2>5, <2>6, <2>7, <2>9, <3>1, <3>2, FlagStep
  <2>11. Types'
    <3>1. wk' \in [Workers -> Threads]
      BY <1>3, <2>2, <2>5, WkTypes
    <3>2. UNCHANGED <<posted, packet>>
      BY <2>1 DEF wakeVars
    <3>3. QED
      BY <1>0, <1>3, <2>7, <2>10, <3>1, <3>2 DEF Types, envVars
  <2>12. WakeInv'
    <3>1. Searching(wk[w]) => Searching(t)
      BY <1>0, <2>5 DEF Searching
    <3>2. QED
      BY <1>0, <2>1, <2>2, <2>4, <2>5, <2>10, <3>1, WakeQuiet DEF wakeVars
  <2>13. QED
    BY <2>10, <2>11, <2>12, SMTT(60) DEF WriterInv
<1>6. QED
  BY <1>4, <1>5

LEMMA CloseOpenStep ==
    ASSUME WriterInv, NEW w \in Workers, CloseOpen(w) PROVE WriterInv'
<1> DEFINE f == wk[w].item
           j == JobOf[f]
           opens == ~file[f].failed /\ ~file[f].handle /\ ~file[f].tried
<1>0. /\ wk[w].pc = "copen"
      /\ UNCHANGED <<gate, envVars, token, waking, pending, inflight, prod, buf,
                     workQ, lease, retryQ, disk, meter>>
  BY DEF CloseOpen
<1>1. f \in Files
  BY <1>0 DEF WriterInv, PlaceInv
<1>2. /\ file[f] \in FileStates /\ j \in Jobs /\ ~file[f].closed /\ f # None
  BY <1>1, CloserFacts
<1>3. ErrInv /\ Types
  BY DEF WriterInv
<1>4. CASE Terminal(j)
  <2> DEFINE t == [wk[w] EXCEPT !.pc = "csettle"]
             fl == [file[f] EXCEPT !.failed = TRUE]
  <2>1. /\ err' = err \cup {j} /\ WakeIf(TRUE)
        /\ file' = [file EXCEPT ![f].failed = TRUE]
        /\ wk' = [wk EXCEPT ![w].pc = "csettle"]
    BY <1>4 DEF CloseOpen
  <2>2. file' = [file EXCEPT ![f] = fl] /\ wk' = [wk EXCEPT ![w] = t]
    BY <1>2, <1>3, <2>1 DEF Types
  <2>3. t \in Threads /\ t.pc = "csettle" /\ t.item = f
    BY OnwardFacts DEF Serves
  <2>4. /\ fl \in FileStates /\ Flagged(fl, file[f]) /\ fl.failed
        /\ fl.handle = file[f].handle /\ fl.created = file[f].created
    BY <1>2 DEF FileStates, Flagged
  <2> HIDE DEF t, fl, f, j
  <2>5. fl.handle => fl.created
    BY <1>1, <1>3, <2>4 DEF ErrInv
  <2>6. PlaceInv' /\ CloseInv' /\ StageInv' /\ DecoderInv' /\ CountInv' /\ AreaInv'
        /\ DiskInv' /\ ErrInv' /\ SameData /\ file' \in [Files -> FileStates]
    BY <1>0, <1>1, <1>2, <2>1, <2>2, <2>3, <2>4, <2>5, FlagStep, ZenonT(60) DEF f, j
  <2>7. Types'
    <3>1. posted' \in BOOLEAN /\ packet' \in BOOLEAN
      BY <1>3, <2>1, WakeTypes
    <3>2. wk' \in [Workers -> Threads]
      BY <1>3, <2>2, <2>3, WkTypes
    <3>3. err' \subseteq Jobs
      BY <1>2, <1>3, <2>1 DEF Types
    <3>4. QED
      BY <1>0, <1>3, <2>6, <3>1, <3>2, <3>3 DEF Types, envVars
  <2>8. WakeInv'
    BY <1>0, <2>1, <2>2, <2>3, WakeThread
  <2>9. QED
    BY <2>6, <2>7, <2>8 DEF WriterInv
<1>5. CASE ~Terminal(j)
  <2>1. PICK r \in (IF opens THEN OpenResults(f) ELSE {"ok"}) :
            /\ err' = IF r = "permanent" THEN err \cup {j} ELSE err
            /\ file' = [file EXCEPT ![f] = IF opens THEN Opened(file[f], r) ELSE file[f]]
            /\ wk' = [wk EXCEPT ![w].pc = "csettle", ![w].result = r]
            /\ UNCHANGED wakeVars
    BY <1>1, <1>2, <1>3, <1>5 DEF CloseOpen, Types
  <2> DEFINE t == [wk[w] EXCEPT !.pc = "csettle", !.result = r]
             fl == IF opens THEN Opened(file[f], r) ELSE file[f]
  <2>2. file' = [file EXCEPT ![f] = fl] /\ wk' = [wk EXCEPT ![w] = t]
    BY <1>2, <1>3, <2>1 DEF Types
  <2>3. r \in {"ok", "space", "permanent"} /\ (~opens => r = "ok")
    BY <1>1, <2>1, OpenResultsFacts
  <2>5. t \in Threads /\ t.pc = "csettle" /\ t.item = f /\ t.again = wk[w].again /\ t.result = r
    <3>1. r \in {"ok", "space", "permanent", "terminal"}
      BY <2>3
    <3>2. wk[w] \in Threads
      BY <1>3 DEF Types
    <3> HIDE DEF j, opens
    <3>3. QED
      BY <3>1, <3>2 DEF Threads, Serves
  <2>6. /\ fl \in FileStates /\ Flagged(fl, file[f])
        /\ ~opens => fl = file[f]
        /\ opens /\ r = "ok" => fl.handle /\ fl.tried /\ fl.created /\ fl.failed = file[f].failed
        /\ opens /\ r = "space" => fl = file[f]
        /\ opens /\ r = "permanent" =>
              fl.failed /\ fl.handle = file[f].handle /\ fl.created = file[f].created
    <3> HIDE DEF opens, j, t, f
    <3>1. CASE opens
      BY <1>2, <2>3, <3>1, OpenedFacts
    <3>2. CASE ~opens
      BY <1>2, <3>2 DEF Flagged
    <3>3. QED
      BY <3>1, <3>2
  <2>7. err \subseteq err' /\ (r = "permanent" => j \in err') /\ err' \subseteq Jobs
    BY <1>2, <1>3, <2>1 DEF Types
  <2>8. /\ file[f].failed => j \in err
        /\ file[f].handle => file[f].created
        /\ file[f].tried => file[f].created \/ file[f].failed
    BY <1>1, <1>3 DEF ErrInv
  <2> HIDE DEF t, fl, f, j
  <2>9. /\ fl.failed => j \in err'
        /\ fl.handle => fl.created
        /\ fl.tried => fl.created \/ fl.failed
        /\ r = "ok" => fl.created \/ fl.failed
    <3>1. CASE opens
      <4> HIDE DEF opens
      <4>1. QED
        BY <2>3, <2>6, <2>7, <2>8, <3>1
    <3>2. CASE ~opens
      BY <2>3, <2>6, <2>7, <2>8, <3>2
    <3>3. QED
      BY <3>1, <3>2
  <2> HIDE DEF opens
  <2>10. PlaceInv' /\ CloseInv' /\ StageInv' /\ DecoderInv' /\ CountInv' /\ AreaInv'
         /\ DiskInv' /\ ErrInv' /\ SameData /\ file' \in [Files -> FileStates]
    <3>1. /\ fl.failed => JobOf[f] \in err'
          /\ t.pc = "csettle" /\ t.item = f /\ t.item = wk[w].item /\ t.item # None
          /\ t.result = "ok" => fl.created \/ fl.failed
      BY <1>2, <2>5, <2>9 DEF f, j
    <3>2. QED
      BY <1>0, <1>1, <1>2, <2>2, <2>5, <2>6, <2>7, <2>9, <3>1, FlagStep
  <2>11. Types'
    <3>1. wk' \in [Workers -> Threads]
      BY <1>3, <2>2, <2>5, WkTypes
    <3>2. UNCHANGED <<posted, packet>>
      BY <2>1 DEF wakeVars
    <3>3. QED
      BY <1>0, <1>3, <2>7, <2>10, <3>1, <3>2 DEF Types, envVars
  <2>12. WakeInv'
    <3>1. Searching(wk[w]) => Searching(t)
      BY <1>0, <2>5 DEF Searching
    <3>2. QED
      BY <1>0, <2>1, <2>2, <2>5, <2>10, <3>1, WakeQuiet DEF wakeVars
  <2>13. QED
    BY <2>10, <2>11, <2>12 DEF WriterInv
<1>6. QED
  BY <1>4, <1>5

-----------------------------------------------------------------------------
(* Writes in flight.                                                       *)

(* What a file has failed at is not forgotten, nor is its creation.        *)
Remembers(f) ==
    /\ file'[f].failed => file[f].failed \/ JobOf[f] \in err'
    /\ file'[f].handle => file[f].handle
    /\ file'[f].tried => file[f].tried
    /\ file[f].created => file'[f].created
    /\ file[f].failed => file'[f].failed
    /\ file'[f].closed => file[f].closed \/ file'[f].created \/ JobOf[f] \in err'

LEMMA ErrThread ==
    ASSUME WriterInv, err \subseteq err', \A f \in Files : Remembers(f),
           NEW w \in Workers, NEW t, wk' = [wk EXCEPT ![w] = t], t.pc # "csettle",
           \A v \in Workers : v # w /\ wk[v].item \in Buffers =>
               /\ buf'[wk[v].item].file = buf[wk[v].item].file
               /\ buf'[wk[v].item].size = buf[wk[v].item].size
               /\ buf'[wk[v].item].done = buf[wk[v].item].done,
           t.pc = "settle" /\ t.result = "ok" => buf'[t.item].done = buf'[t.item].size,
           t.pc = "settle" /\ t.result \in {"permanent", "terminal"} =>
               JobOf[buf'[t.item].file] \in err'
    PROVE  ErrInv'
<1>1. ErrInv /\ PlaceInv
  BY DEF WriterInv
<1>2. wk'[w] = t /\ \A v \in Workers : v # w => wk'[v] = wk[v]
  BY WkFacts
<1>3. ASSUME NEW f \in Files
      PROVE  /\ file'[f].failed => JobOf[f] \in err'
             /\ file'[f].handle => file'[f].created
             /\ file'[f].tried => file'[f].created \/ file'[f].failed
             /\ file'[f].closed => file'[f].created \/ JobOf[f] \in err'
  BY <1>1 DEF ErrInv, Remembers
<1>4. ASSUME NEW v \in Workers
      PROVE  /\ wk'[v].pc = "settle" /\ wk'[v].result = "ok" =>
                   buf'[wk'[v].item].done = buf'[wk'[v].item].size
             /\ wk'[v].pc = "settle" /\ wk'[v].result \in {"permanent", "terminal"} =>
                   JobOf[buf'[wk'[v].item].file] \in err'
             /\ wk'[v].pc = "csettle" /\ wk'[v].result = "ok" =>
                   file'[wk'[v].item].created \/ file'[wk'[v].item].failed
  <2>1. CASE v = w
    BY <1>2, <2>1
  <2>2. CASE v # w
    <3>1. /\ wk[v].pc = "settle" => wk[v].item \in Buffers
          /\ wk[v].pc = "csettle" => wk[v].item \in Files
      BY <1>1 DEF PlaceInv
    <3>2. QED
      BY <1>1, <1>2, <2>2, <3>1 DEF ErrInv, Remembers
  <2>3. QED
    BY <2>1, <2>2
<1>5. QED
  BY <1>3, <1>4 DEF ErrInv

(* A buffer comes to the system, or comes back.                            *)
LEMMA IOChange ==
    ASSUME WriterInv, NEW b \in Buffers, NEW f \in Files, buf[b].file = f, buf'[b].file = f,
           \A c \in Buffers : c # b => buf'[c] = buf[c],
           \A g \in Files : g # f => file'[g].active = file[g].active,
           \/ /\ buf[b].at # "io" /\ buf'[b].at = "io" /\ file'[f].active = file[f].active + 1
           \/ /\ buf[b].at = "io" /\ buf'[b].at # "io" /\ file'[f].active = file[f].active - 1
    PROVE  \A g \in Files : file'[g].active = Cardinality(InIO(g)')
<1>1. \A g \in Files : file[g].active = Cardinality(InIO(g))
  BY DEF WriterInv, CountInv
<1>2. ASSUME NEW g \in Files, g # f PROVE file'[g].active = Cardinality(InIO(g)')
  <2>1. InIO(g)' = InIO(g)
    BY <1>2 DEF InIO
  <2>2. QED
    BY <1>1, <1>2, <2>1
<1>3. IsFiniteSet(Buffers) /\ InIO(f) \in SUBSET Buffers
  BY WriterAssumption DEF InIO
<1>4. CASE buf[b].at # "io" /\ buf'[b].at = "io" /\ file'[f].active = file[f].active + 1
  <2>1. InIO(f)' = InIO(f) \cup {b} /\ b \notin InIO(f)
    BY <1>4 DEF InIO
  <2>2. Cardinality(InIO(f) \cup {b}) = Cardinality(InIO(f)) + 1
    BY <1>3, <2>1, Sizes
  <2>3. QED
    BY <1>1, <1>2, <1>4, <2>1, <2>2
<1>5. CASE buf[b].at = "io" /\ buf'[b].at # "io" /\ file'[f].active = file[f].active - 1
  <2>1. InIO(f)' = InIO(f) \ {b} /\ b \in InIO(f)
    BY <1>5 DEF InIO
  <2>2. Cardinality(InIO(f) \ {b}) = Cardinality(InIO(f)) - 1
    BY <1>3, <2>1, Sizes
  <2>3. QED
    BY <1>1, <1>2, <1>5, <2>1, <2>2
<1>6. QED
  BY <1>4, <1>5

LEMMA SubmitStep ==
    ASSUME WriterInv, NEW w \in Workers, Submit(w) PROVE WriterInv'
<1> DEFINE b == wk[w].item
           f == buf[b].file
<1>0. /\ wk[w].pc = "submit"
      /\ UNCHANGED <<gate, envVars, jobVars, workQ, lease, retryQ, wakeVars, disk, meter>>
  BY DEF Submit
<1>1. b \in Buffers
  BY <1>0 DEF WriterInv, PlaceInv
<1>2. /\ f \in Files /\ file[f] \in FileStates /\ FileOf(b) = f /\ b # None
      /\ buf[b].at = "held"
  BY <1>1, HeldFacts, WriterAssumption
<1>3. Types /\ ErrInv
  BY DEF WriterInv
<1>4. CASE file[f].failed \/ JobOf[f] \in err
  <2> DEFINE t == [wk[w] EXCEPT !.pc = "settle", !.result = "terminal"]
  <2>1. /\ wk' = [wk EXCEPT ![w].pc = "settle", ![w].result = "terminal"]
        /\ UNCHANGED <<buf, file>>
    BY <1>2, <1>4 DEF Submit
  <2>2. wk' = [wk EXCEPT ![w] = t]
    BY <1>3, <2>1 DEF Types
  <2>3. /\ t \in Threads /\ t.pc = "settle" /\ t.item = b /\ t.again = wk[w].again
        /\ t.result = "terminal"
    BY ResultFacts DEF Serves
  <2>4. JobOf[f] \in err
    BY <1>2, <1>3, <1>4 DEF ErrInv
  <2> HIDE DEF t, f
  <2>5. PlaceInv' /\ CloseInv' /\ StageInv' /\ DecoderInv' /\ CountInv' /\ AreaInv'
        /\ DiskInv' /\ ErrInv'
    <3>1. UNCHANGED <<prod, pending, inflight, err>>
      BY <1>0 DEF jobVars
    <3>2. t.pc \in Serves
      BY <2>3 DEF Serves
    <3>3. JobOf[buf[wk[w].item].file] \in err'
      BY <2>4, <3>1 DEF f
    <3>4. QED
      BY <1>0, <1>2, <2>1, <2>2, <2>3, <3>1, <3>2, <3>3, QuietThread
  <2>6. Types'
    BY <1>0, <1>3, <2>1, <2>2, <2>3, ZenonT(60) DEF Types, envVars, jobVars, wakeVars
  <2>7. WakeInv'
    <3>1. Searching(wk[w]) => Searching(t)
      BY <1>0, <2>3 DEF Searching
    <3>2. SameData
      BY <2>1 DEF SameData
    <3>3. QED
      BY <1>0, <2>2, <2>3, <3>1, <3>2, WakeQuiet DEF jobVars, wakeVars
  <2>8. QED
    BY <2>5, <2>6, <2>7, SMTT(60) DEF WriterInv
<1>5. CASE ~(file[f].failed \/ JobOf[f] \in err)
  <2> DEFINE t == Resting(wk[w].again)
             fl == [file[f] EXCEPT !.active = file[f].active + 1]
  <2>1. /\ wk' = [wk EXCEPT ![w] = t]
        /\ buf' = [buf EXCEPT ![b].at = "io"]
        /\ file' = [file EXCEPT ![f].active = @ + 1]
    BY <1>2, <1>3, <1>5 DEF Submit, Types
  <2>2. file' = [file EXCEPT ![f] = fl]
    BY <1>2, <1>3, <2>1 DEF Types
  <2>3. wk[w].again \in BOOLEAN
    BY <1>3 DEF Types, Threads
  <2>4. /\ t \in Threads /\ t.item = None /\ t.pc \notin Serves /\ ~t.again
        /\ (Searching(t) <=> wk[w].again)
    BY <2>3, RestingFacts
  <2>5. file[f].active + 1 \in Int
    BY <1>2 DEF FileStates
  <2>6. fl \in FileStates /\ fl.active = file[f].active + 1
        /\ fl.stage = file[f].stage /\ fl.next = file[f].next /\ fl.inflight = file[f].inflight
        /\ fl.outstanding = file[f].outstanding /\ fl.accepted = file[f].accepted
        /\ fl.closing = file[f].closing /\ fl.queued = file[f].queued /\ fl.closed = file[f].closed
        /\ fl.handle = file[f].handle /\ fl.tried = file[f].tried
        /\ fl.created = file[f].created /\ fl.failed = file[f].failed
    BY <1>2, <2>5, ZenonT(60) DEF FileStates
  <2>7. /\ SameData /\ buf' \in [Buffers -> BufferStates] /\ buf'[b].at = "io"
        /\ \A c \in Buffers : c # b => buf'[c] = buf[c]
    BY <1>1, <1>2, <2>1, MoveFacts DEF Lives
  <2>8. buf'[b].file = f
    BY <1>1, <2>7 DEF SameData, Moved
  <2> HIDE DEF t, fl, b, f
  <2>9. /\ file' \in [Files -> FileStates] /\ file'[f] = fl
        /\ \A g \in Files : g # f => file'[g] = file[g]
    BY <1>2, <1>3, <2>2, <2>6 DEF Types
  <2>10. wk'[w] = t /\ \A v \in Workers : v # w => wk'[v] = wk[v]
    BY <2>1, WkFacts
  <2>11. Types'
    BY <1>0, <1>3, <2>1, <2>4, <2>7, <2>9 DEF Types, envVars, jobVars, wakeVars
  <2>12. PlaceInv'
    <3>1. Queues' /\ ToSet(workQ') = ToSet(workQ) /\ ToSet(retryQ') = ToSet(retryQ)
      BY <1>0, PlaceParts DEF WriterInv, Queues, Once, ToSet
    <3>2. t.pc \notin {"open", "submit", "settle", "copen", "csettle"}
      BY <2>4 DEF Serves
    <3>3. QED
      BY <1>2, <2>1, <2>4, <2>7, <3>1, <3>2, PlaceThread DEF b
  <2>13. CloseInv'
    <3>1. \A v \in Workers : wk'[v].item \in {wk[v].item, None}
      BY <2>4, <2>10
    <3>2. Closing' \cap Files \subseteq Closing
      BY <1>0, <3>1, ClosingSame
    <3>3. QED
      BY <2>6, <2>9, <3>2, CloseFrame
  <2>14. StageInv' /\ DecoderInv' /\ CountInv' /\ AreaInv' /\ DiskInv'
    <3>1. SameShape
      BY <2>6, <2>9 DEF SameShape
    <3>2. Still
      BY <1>0, <2>7, <3>1 DEF Still, jobVars
    <3>3. \A g \in Files : file'[g].active = Cardinality(InIO(g)')
      <4>1. buf[b].file = f /\ buf[b].at # "io" /\ file'[f].active = file[f].active + 1
        BY <1>2, <2>6, <2>9 DEF f
      <4>2. QED
        BY <1>1, <1>2, <2>7, <2>8, <2>9, <4>1, IOChange
    <3>4. QED
      BY <3>2, <3>3, StillFrame
  <2>15. ErrInv'
    <3>1. \A g \in Files : Remembers(g)
      BY <2>6, <2>9 DEF Remembers
    <3>2. err \subseteq err'
      BY <1>0 DEF jobVars
    <3>3. t.pc \notin {"settle", "csettle"}
      BY <2>4 DEF Serves
    <3>4. \A c \in Buffers : buf'[c].file = buf[c].file /\ buf'[c].size = buf[c].size
                             /\ buf'[c].done = buf[c].done
      BY <2>7 DEF SameData, Moved
    <3>5. QED
      BY <2>1, <3>1, <3>2, <3>3, <3>4, ErrThread
  <2>16. WakeInv'
    <3>1. Searching(wk[w]) => Searching(t)
      BY <1>0, <2>4 DEF Searching
    <3>2. QED
      BY <1>0, <2>1, <2>4, <2>7, <3>1, WakeQuiet DEF jobVars, wakeVars
  <2>17. QED
    BY <2>11, <2>12, <2>13, <2>14, <2>15, <2>16, SMTT(60) DEF WriterInv
<1>6. QED
  BY <1>4, <1>5

(* A buffer on its way: its file still waits for it.                       *)
LEMMA LiveFacts ==
    ASSUME WriterInv, NEW b \in Buffers, buf[b].at \in Lives
    PROVE  LET f == buf[b].file
           IN  /\ buf[b] \in BufferStates /\ buf[b].size > 0 /\ buf[b].done <= buf[b].size
               /\ buf[b].size <= BufferSize
               /\ f \in Files /\ file[f] \in FileStates /\ JobOf[f] \in Jobs
               /\ b \notin Files /\ b \in Items /\ b # None
               /\ ~file[f].queued /\ ~file[f].closed /\ file[f].outstanding > 0
<1> DEFINE f == buf[b].file
<1>1. buf[b] \in BufferStates
  BY DEF WriterInv, Types
<1>2. f \in Files /\ buf[b].size # 0 /\ buf[b].done <= buf[b].size /\ buf[b].size <= BufferSize
  BY DEF WriterInv, StageInv, Lives
<1>3. buf[b].size > 0
  BY <1>1, <1>2 DEF BufferStates
<1>4. b \notin Files /\ b \in Items /\ b # None
  BY WriterAssumption DEF Items
<1> HIDE DEF f
<1>5. file[f].outstanding \in Nat /\ file[f].outstanding > 0
  BY <1>2, <1>3, StagedCounts DEF f
<1>6. ~file[f].queued
  BY <1>2, <1>5 DEF WriterInv, CloseInv
<1>7. ~file[f].closed
  BY <1>2, <1>6 DEF WriterInv, CloseInv
<1>8. file[f] \in FileStates /\ JobOf[f] \in Jobs
  BY <1>2, WriterAssumption DEF WriterInv, Types
<1>9. QED
  BY <1>1, <1>2, <1>3, <1>4, <1>5, <1>6, <1>7, <1>8 DEF f

(* A buffer the system gives back is served by nobody yet.                 *)
LEMMA UnservedIO ==
    ASSUME WriterInv, NEW b \in Buffers, buf[b].at = "io"
    PROVE  /\ \A v \in Workers : wk[v].item # b
           /\ b \notin ToSet(workQ) /\ b \notin ToSet(retryQ)
BY DEF WriterInv, PlaceInv

LEMMA CompleteFailsStep ==
    ASSUME WriterInv, NEW w \in Workers, NEW b \in Buffers, Waiting(w), buf[b].at = "io",
           NEW r \in {"space", "permanent"}, CompleteFails(w, b, r),
           UNCHANGED <<gate, envVars, token, waking, pending, inflight, prod, workQ,
                       lease, retryQ>>
    PROVE  WriterInv'
<1> DEFINE f == buf[b].file
           t == Thread("settle", b, r, FALSE)
           bad == file[f].failed \/ r = "permanent"
           fl == [file[f] EXCEPT !.active = file[f].active - 1, !.failed = bad]
<1>1. /\ f \in Files /\ file[f] \in FileStates /\ JobOf[f] \in Jobs
      /\ b \in Items /\ b # None /\ b \notin Files
  BY LiveFacts DEF Lives
<1>2. wk[w].pc = "idle" /\ wk[w].item = None /\ ~Searching(wk[w])
  BY IdleFacts
<1>3. Types
  BY DEF WriterInv
<1>4. /\ buf' = [buf EXCEPT ![b].at = "held"]
      /\ file' = [file EXCEPT ![f] = fl]
      /\ WakeIf(r = "permanent") /\ wk' = [wk EXCEPT ![w] = t]
      /\ UNCHANGED <<disk, meter>>
  BY <1>1, <1>3 DEF CompleteFails, Types
<1>5. err' = IF r = "permanent" THEN err \cup {JobOf[f]} ELSE err
  BY DEF CompleteFails
<1>6. err \subseteq err' /\ err' \subseteq Jobs /\ (r = "permanent" => JobOf[f] \in err')
  BY <1>1, <1>3, <1>5 DEF Types
<1>7. /\ t \in Threads /\ t.item = b /\ t.pc = "settle" /\ t.result = r /\ t.again = FALSE
  BY <1>1, ThreadTypes DEF Thread, Serves
<1>8. bad \in BOOLEAN /\ file[f].active - 1 \in Int
  BY <1>1 DEF FileStates
<1> HIDE DEF bad, t
<1>9. fl \in FileStates /\ fl.active = file[f].active - 1 /\ fl.failed = bad
      /\ fl.stage = file[f].stage /\ fl.next = file[f].next /\ fl.inflight = file[f].inflight
      /\ fl.outstanding = file[f].outstanding /\ fl.accepted = file[f].accepted
      /\ fl.closing = file[f].closing /\ fl.queued = file[f].queued /\ fl.closed = file[f].closed
      /\ fl.handle = file[f].handle /\ fl.tried = file[f].tried
      /\ fl.created = file[f].created
  BY <1>1, <1>8 DEF FileStates
<1>10. /\ SameData /\ buf' \in [Buffers -> BufferStates] /\ buf'[b].at = "held"
       /\ \A c \in Buffers : c # b => buf'[c] = buf[c]
  BY <1>4, MoveFacts DEF Lives
<1>11. buf'[b].file = f
  BY <1>10 DEF SameData, Moved
<1> HIDE DEF fl, f
<1>12. /\ file' \in [Files -> FileStates] /\ file'[f] = fl
       /\ \A g \in Files : g # f => file'[g] = file[g]
  BY <1>1, <1>3, <1>4, <1>9 DEF Types
<1>13. wk'[w] = t /\ \A v \in Workers : v # w => wk'[v] = wk[v]
  BY <1>4, WkFacts
<1>14. Types'
  <2>1. posted' \in BOOLEAN /\ packet' \in BOOLEAN
    BY <1>3, <1>4, WakeTypes
  <2>2. wk' \in [Workers -> Threads]
    BY <1>3, <1>4, <1>7, WkTypes
  <2>3. QED
    BY <1>3, <1>4, <1>6, <1>10, <1>12, <2>1, <2>2 DEF Types, envVars
<1>15. PlaceInv'
  <2>1. Queues' /\ ToSet(workQ') = ToSet(workQ) \ {b} /\ ToSet(retryQ') = ToSet(retryQ) \ {b}
    BY UnservedIO, PlaceParts DEF WriterInv, Queues, Once, ToSet
  <2>2. t.pc \in Serves
    BY <1>7 DEF Serves
  <2>3. QED
    BY <1>1, <1>2, <1>4, <1>7, <1>10, <2>1, <2>2, PlaceTake
<1>16. CloseInv'
  <2>1. Closing' \cap Files \subseteq Closing
    BY <1>1, <1>7, <1>13 DEF Closing
  <2>2. QED
    BY <1>9, <1>12, <2>1, CloseFrame
<1>17. StageInv' /\ DecoderInv' /\ CountInv' /\ AreaInv' /\ DiskInv'
  <2>1. SameShape
    BY <1>9, <1>12 DEF SameShape
  <2>2. Still
    BY <1>4, <1>6, <1>10, <2>1 DEF Still
  <2>3. \A g \in Files : file'[g].active = Cardinality(InIO(g)')
    <3>1. buf[b].file = f /\ buf'[b].at # "io" /\ file'[f].active = file[f].active - 1
      BY <1>9, <1>10, <1>12 DEF f
    <3>2. QED
      BY <1>1, <1>10, <1>11, <1>12, <3>1, IOChange
  <2>4. QED
    BY <2>2, <2>3, StillFrame
<1>18. ErrInv'
  <2>1. \A g \in Files : Remembers(g)
    <3>1. fl.failed => file[f].failed \/ JobOf[f] \in err'
      BY <1>6, <1>9 DEF bad
    <3>2. file[f].failed => fl.failed
      BY <1>9 DEF bad
    <3>3. QED
      BY <1>9, <1>12, <3>1, <3>2 DEF Remembers
  <2>2. \A c \in Buffers : buf'[c].file = buf[c].file /\ buf'[c].size = buf[c].size
                           /\ buf'[c].done = buf[c].done
    BY <1>10 DEF SameData, Moved
  <2>3. t.pc # "csettle" /\ t.result # "ok"
        /\ (t.result \in {"permanent", "terminal"} => JobOf[buf'[t.item].file] \in err')
    BY <1>6, <1>7, <1>11
  <2>4. QED
    BY <1>4, <1>6, <2>1, <2>2, <2>3, ErrThread, ZenonT(60)
<1>19. WakeInv'
  <2>1. (packet => packet') /\ (posted' => posted \/ packet')
    BY <1>4, WakeIfFacts
  <2>2. QED
    BY <1>2, <1>4, <1>7, <1>10, <2>1, WakeQuiet
<1>20. QED
  BY <1>14, <1>15, <1>16, <1>17, <1>18, <1>19 DEF WriterInv

-----------------------------------------------------------------------------
(* A confirmed write.                                                      *)

(* n more units of b are confirmed to be in its file f.                    *)
Confirms(b, f, n) ==
    /\ buf[b].at = "io" /\ f = buf[b].file /\ n \in Nat /\ n > 0
    /\ buf[b].done + n <= buf[b].size
    /\ buf' = [buf EXCEPT ![b] = [buf[b] EXCEPT !.at = "held", !.done = buf[b].done + n]]
    /\ file' = [file EXCEPT ![f] = [file[f] EXCEPT !.active = file[f].active - 1]]
    /\ disk' = [disk EXCEPT ![f] = [u \in Units(f) |->
           disk[f][u] + (IF buf[b].offset + buf[b].done <= u
                            /\ u < buf[b].offset + buf[b].done + n THEN 1 ELSE 0)]]
    /\ meter' = Written(meter, n)
    /\ UNCHANGED <<err, prod, pending, inflight>>

LEMMA ConfirmShape ==
    ASSUME WriterInv, NEW b \in Buffers, NEW f, NEW n, Confirms(b, f, n)
    PROVE  /\ f \in Files /\ JobOf[f] \in Jobs /\ n \in Nat
           /\ buf' \in [Buffers -> BufferStates] /\ buf'[b].at = "held" /\ buf'[b].file = f
           /\ buf'[b].size = buf[b].size /\ buf'[b].offset = buf[b].offset
           /\ buf'[b].done = buf[b].done + n /\ buf'[b].done <= buf[b].size
           /\ \A c \in Buffers : c # b => buf'[c] = buf[c]
           /\ \A c \in Buffers : buf'[c].size = buf[c].size /\ buf'[c].file = buf[c].file
           /\ file' \in [Files -> FileStates] /\ SameShape
           /\ file'[f].active = file[f].active - 1
           /\ \A g \in Files : g # f => file'[g].active = file[g].active
           /\ \A g \in Files : file'[g].queued = file[g].queued /\ Remembers(g)
<1>1. Types /\ f = buf[b].file /\ n \in Nat /\ buf[b].at \in Lives
  BY DEF WriterInv, Confirms, Lives
<1>2. /\ f \in Files /\ JobOf[f] \in Jobs /\ file[f] \in FileStates /\ buf[b] \in BufferStates
  BY <1>1, LiveFacts
<1>3. buf[b].done + n \in Nat /\ file[f].active - 1 \in Int
  BY <1>1, <1>2 DEF BufferStates, FileStates
<1> DEFINE bb == [buf[b] EXCEPT !.at = "held", !.done = buf[b].done + n]
           fl == [file[f] EXCEPT !.active = file[f].active - 1]
<1>4. /\ bb \in BufferStates /\ bb.at = "held" /\ bb.file = buf[b].file /\ bb.size = buf[b].size
      /\ bb.offset = buf[b].offset /\ bb.done = buf[b].done + n
  BY <1>2, <1>3 DEF BufferStates
<1>5. fl \in FileStates /\ fl.active = file[f].active - 1
      /\ fl.stage = file[f].stage /\ fl.next = file[f].next /\ fl.inflight = file[f].inflight
      /\ fl.outstanding = file[f].outstanding /\ fl.accepted = file[f].accepted
      /\ fl.closing = file[f].closing /\ fl.queued = file[f].queued /\ fl.closed = file[f].closed
      /\ fl.handle = file[f].handle /\ fl.tried = file[f].tried
      /\ fl.created = file[f].created /\ fl.failed = file[f].failed
  BY <1>2, <1>3 DEF FileStates
<1>6. buf' = [buf EXCEPT ![b] = bb] /\ file' = [file EXCEPT ![f] = fl] /\ err' = err
      /\ buf[b].done + n <= buf[b].size
  BY DEF Confirms
<1> HIDE DEF bb, fl
<1>7. /\ buf' \in [Buffers -> BufferStates] /\ buf'[b] = bb
      /\ \A c \in Buffers : c # b => buf'[c] = buf[c]
  BY <1>1, <1>4, <1>6 DEF Types
<1>8. /\ file' \in [Files -> FileStates] /\ file'[f] = fl
      /\ \A g \in Files : g # f => file'[g] = file[g]
  BY <1>1, <1>2, <1>5, <1>6 DEF Types
<1>9. SameShape
  BY <1>5, <1>8 DEF SameShape
<1>10. \A g \in Files : file'[g].queued = file[g].queued /\ Remembers(g)
  BY <1>5, <1>6, <1>8 DEF Remembers
<1>11. \A c \in Buffers : buf'[c].size = buf[c].size /\ buf'[c].file = buf[c].file
  BY <1>4, <1>7
<1>12. QED
  BY <1>1, <1>2, <1>4, <1>5, <1>6, <1>7, <1>8, <1>9, <1>10, <1>11

LEMMA ConfirmStage ==
    ASSUME WriterInv, NEW b \in Buffers, NEW f, NEW n, Confirms(b, f, n)
    PROVE  StageInv' /\ DecoderInv' /\ CountInv'
<1>1. /\ f \in Files /\ SameShape /\ prod' = prod /\ pending' = pending /\ err' = err
      /\ buf[b].at = "io" /\ f = buf[b].file
      /\ buf'[b].at = "held" /\ buf'[b].file = buf[b].file
      /\ buf'[b].size = buf[b].size /\ buf'[b].done <= buf[b].size
      /\ \A c \in Buffers : c # b => buf'[c] = buf[c]
      /\ \A c \in Buffers : buf'[c].size = buf[c].size /\ buf'[c].file = buf[c].file
  <2>1. prod' = prod /\ pending' = pending /\ err' = err /\ buf[b].at = "io" /\ f = buf[b].file
    BY DEF Confirms
  <2>2. QED
    BY <2>1, ConfirmShape
<1>2. StageInv /\ DecoderInv /\ CountInv /\ Types
  BY DEF WriterInv
<1>3. \A g \in Files : file'[g].stage = file[g].stage /\ file[g].stage \in Buffers \cup {None}
  BY <1>1, <1>2 DEF SameShape, Types, FileStates
<1>4. StageInv'
  <2>1. ASSUME NEW g \in Files, file'[g].stage # None
        PROVE  /\ buf'[file'[g].stage].at = "stage" /\ buf'[file'[g].stage].file = g
               /\ On(JobOf[g], g)'
    <3>1. /\ file[g].stage # None /\ file[g].stage \in Buffers
          /\ buf[file[g].stage].at = "stage" /\ buf[file[g].stage].file = g /\ On(JobOf[g], g)
      BY <1>2, <1>3, <2>1 DEF StageInv
    <3>2. buf'[file[g].stage] = buf[file[g].stage]
      BY <1>1, <3>1
    <3>3. QED
      BY <1>1, <1>3, <3>1, <3>2 DEF On
  <2>2. ASSUME NEW c \in Buffers
        PROVE  /\ buf'[c].at = "free" => buf'[c] = FreeBuffer
               /\ buf'[c].at # "free" => buf'[c].file \in Files
               /\ buf'[c].at = "stage" => file'[buf'[c].file].stage = c
               /\ buf'[c].at \in {"stage", "queue"} => buf'[c].done = 0
               /\ buf'[c].done <= buf'[c].size /\ buf'[c].size <= BufferSize
               /\ buf'[c].at # "free" /\ buf'[c].size = 0 =>
                     /\ buf'[c].at = "stage"
                     /\ prod'[JobOf[buf'[c].file]].pc = "commit"
                     /\ prod'[JobOf[buf'[c].file]].fresh
    <3>1. CASE c = b
      BY <1>1, <1>2, <3>1 DEF StageInv
    <3>2. CASE c # b
      BY <1>1, <1>2, <1>3, <3>2 DEF StageInv
    <3>3. QED
      BY <3>1, <3>2
  <2>3. QED
    BY <2>1, <2>2 DEF StageInv
<1>5. DecoderInv'
  <2>1. ASSUME NEW j \in Jobs
        PROVE  /\ prod'[j].pc \in Writing =>
                     /\ prod'[j].file \in Files /\ JobOf[prod'[j].file] = j
                     /\ ~file'[prod'[j].file].closing
                     /\ file'[prod'[j].file].accepted + prod'[j].left = Size[prod'[j].file]
               /\ prod'[j].pc = "reserve" => prod'[j].left > 0
               /\ prod'[j].pc = "commit" =>
                     /\ file'[prod'[j].file].stage # None
                     /\ prod'[j].chunk > 0 /\ prod'[j].chunk <= prod'[j].left
                     /\ buf'[file'[prod'[j].file].stage].size + prod'[j].chunk <= BufferSize
                     /\ prod'[j].fresh <=> buf'[file'[prod'[j].file].stage].size = 0
               /\ prod'[j].pc # "commit" => prod'[j].chunk = 0
               /\ prod'[j].pc = "done" => pending'[j] = 0
    <3>1. prod[j].pc \in Writing => prod[j].file \in Files
      BY <1>2 DEF DecoderInv
    <3>2. prod[j].pc \in Writing =>
              /\ file'[prod[j].file].stage = file[prod[j].file].stage
              /\ file'[prod[j].file].closing = file[prod[j].file].closing
              /\ file'[prod[j].file].accepted = file[prod[j].file].accepted
      BY <1>1, <3>1 DEF SameShape
    <3>3. prod[j].pc = "commit" =>
              file[prod[j].file].stage # None /\ file[prod[j].file].stage \in Buffers
      BY <1>2, <1>3, <3>1 DEF DecoderInv, Writing
    <3>4. QED
      BY <1>1, <1>2, <3>1, <3>2, <3>3 DEF DecoderInv, Writing
  <2>2. ASSUME NEW g \in Files
        PROVE  /\ file'[g].accepted <= Size[g]
               /\ ~file'[g].closing /\ ~On(JobOf[g], g)' => file'[g].accepted = 0
               /\ file'[g].next <= file'[g].accepted
               /\ file'[g].stage = None /\ (~file'[g].closing \/ JobOf[g] \notin err') =>
                     file'[g].next = file'[g].accepted
               /\ file'[g].stage # None =>
                     file'[g].next + buf'[file'[g].stage].size = file'[g].accepted
    BY <1>1, <1>2, <1>3 DEF DecoderInv, SameShape, On
  <2>3. QED
    BY <2>1, <2>2 DEF DecoderInv
<1>6. CountInv'
  <2>1. ASSUME NEW g \in Files PROVE Filled(g)' = Filled(g)
    BY <1>1 DEF Filled
  <2>2. ASSUME NEW j \in Jobs PROVE Holding(j)' = Holding(j) /\ Ending(j)' = Ending(j)
    BY <1>1 DEF Holding, Ending, SameShape
  <2>3. \A g \in Files : file'[g].active = Cardinality(InIO(g)')
    <3>1. /\ file'[f].active = file[f].active - 1
          /\ \A g \in Files : g # f => file'[g].active = file[g].active
      BY ConfirmShape
    <3>2. QED
      BY <1>1, <3>1, IOChange
  <2>4. QED
    BY <1>1, <1>2, <2>1, <2>2, <2>3 DEF CountInv, SameShape
<1>7. QED
  BY <1>4, <1>5, <1>6

(* What is left to write of each buffer, as a filling.                     *)
LEMMA LeftFills ==
    ASSUME NEW bs \in [Buffers -> BufferStates],
           \A c \in Buffers : bs[c].done <= bs[c].size /\ bs[c].size <= BufferSize
    PROVE  [c \in Buffers |-> bs[c].size - bs[c].done] \in Fills
<1>1. ASSUME NEW c \in Buffers PROVE bs[c].size - bs[c].done \in 0 .. BufferSize
  <2>1. bs[c].size \in Nat /\ bs[c].done \in Nat
    BY DEF BufferStates
  <2>2. QED
    BY <2>1, WriterAssumption
<1>2. QED
  BY <1>1 DEF Fills

LEMMA ConfirmArea ==
    ASSUME WriterInv, NEW b \in Buffers, NEW f, NEW n, Confirms(b, f, n), Types', StageInv'
    PROVE  AreaInv'
<1>1. /\ f \in Files /\ n \in Nat /\ SameShape /\ prod' = prod /\ inflight' = inflight
      /\ meter' = Written(meter, n)
      /\ buf'[b].size = buf[b].size /\ buf'[b].done = buf[b].done + n
      /\ \A c \in Buffers : c # b => buf'[c] = buf[c]
      /\ \A c \in Buffers : buf'[c].size = buf[c].size /\ buf'[c].file = buf[c].file
  <2>1. prod' = prod /\ inflight' = inflight /\ meter' = Written(meter, n)
    BY DEF Confirms
  <2>2. QED
    BY <2>1, ConfirmShape
<1>2. AreaInv /\ Types /\ StageInv
  BY DEF WriterInv
<1>3. ASSUME NEW g \in Files PROVE OfFile(g)' = OfFile(g) /\ Reserved(g)' = Reserved(g)
  BY <1>1 DEF OfFile, Reserved
<1>4. ASSUME NEW j \in Jobs PROVE OfJob(j)' = OfJob(j)
  BY <1>1 DEF OfJob
<1>5. Area(Left') = Area(Left) - n
  <2>1. Left \in Fills
    BY <1>2, LeftFills DEF Types, StageInv, Left
  <2>0. Left' \in Fills
    BY LeftFills DEF Types, StageInv, Left
  <2>2. \A c \in Buffers : c # b => Left'[c] = Left[c]
    BY <1>1 DEF Left
  <2>3. Left'[b] = Left[b] - n /\ Left[b] \in Int
    <3>1. buf[b].size \in Nat /\ buf[b].done \in Nat
      BY <1>2 DEF Types, BufferStates
    <3>2. Left[b] = buf[b].size - buf[b].done /\ Left'[b] = buf'[b].size - buf'[b].done
      BY DEF Left
    <3>3. QED
      BY <1>1, <3>1, <3>2
  <2>4. Area(Left) \in Nat /\ Area(Left') = Area(Left) - Left[b] + Left'[b]
    BY <2>0, <2>1, <2>2, AreaChange
  <2>5. QED
    BY <1>1, <2>3, <2>4
<1>6. /\ meter'.pending = meter.pending - n /\ meter'.accepted = meter.accepted
      /\ meter'.written = meter.written + n /\ meter'.discarded = meter.discarded
  BY <1>1, <1>2 DEF Written, Types
<1>7. meter'.accepted \in Nat /\ meter'.written \in Nat /\ meter'.discarded \in Nat
  BY <1>1, <1>2, <1>6 DEF AreaInv
<1>8. meter'.pending = Area(Left')
  BY <1>2, <1>5, <1>6 DEF AreaInv
<1>9. \A g \in Files : /\ file'[g].inflight = Area(OfFile(g)') + Reserved(g)'
                       /\ file'[g].inflight <= FileBudget
  BY <1>1, <1>2, <1>3 DEF AreaInv, SameShape
<1>10. \A j \in Jobs : /\ inflight'[j] = Area(OfJob(j)') + prod'[j].chunk
                       /\ inflight'[j] <= JobBudget
  BY <1>1, <1>2, <1>4 DEF AreaInv
<1>11. QED
  BY <1>7, <1>8, <1>9, <1>10 DEF AreaInv, Area

LEMMA ConfirmDisk ==
    ASSUME WriterInv, NEW b \in Buffers, NEW f, NEW n, Confirms(b, f, n)
    PROVE  DiskInv'
<1> DEFINE from == buf[b].offset + buf[b].done
           till == from + n
           hit(u) == from <= u /\ u < till
           new == [u \in Units(f) |-> disk[f][u] + (IF hit(u) THEN 1 ELSE 0)]
<1>1. /\ f \in Files /\ n \in Nat /\ n > 0 /\ SameShape /\ err' = err /\ f = buf[b].file
      /\ buf[b].at = "io" /\ buf'[b].at = "held" /\ buf[b].done + n <= buf[b].size
      /\ buf'[b].size = buf[b].size /\ buf'[b].offset = buf[b].offset
      /\ buf'[b].done = buf[b].done + n
      /\ \A c \in Buffers : c # b => buf'[c] = buf[c]
      /\ \A c \in Buffers : buf'[c].size = buf[c].size /\ buf'[c].file = buf[c].file
  <2>1. err' = err /\ f = buf[b].file /\ buf[b].at = "io" /\ n > 0
        /\ buf[b].done + n <= buf[b].size
    BY DEF Confirms
  <2>2. QED
    BY <2>1, ConfirmShape
<1>2. DiskInv /\ Types /\ StageInv
  BY DEF WriterInv
<1>a. /\ \A g \in Files : /\ disk[g] \in [Units(g) -> 0 .. 1]
                         /\ \A u \in Units(g) : u >= file[g].next => disk[g][u] = 0
      /\ \A c \in Buffers : Live(c) =>
             \A u \in Units(buf[c].file) : Missing(c, u) => disk[buf[c].file][u] = 0
  BY <1>2 DEF DiskInv
<1>3. disk' = [disk EXCEPT ![f] = new]
  BY DEF Confirms
<1>4. \A c \in Buffers : buf[c].offset \in Nat /\ buf[c].done \in Nat /\ buf[c].size \in Nat
  BY <1>2 DEF Types, BufferStates
<1>5. /\ from \in Nat /\ till \in Nat /\ till <= buf[b].offset + buf[b].size /\ buf[b].offset <= from
  BY <1>1, <1>4
<1> HIDE DEF from, till
<1>6. /\ Live(b) /\ \A c \in Buffers : Live(c)' <=> Live(c)
      /\ \A c \in Buffers : Live(c) => buf[c].file \in Files
      /\ \A c \in Buffers : buf'[c].offset = buf[c].offset
  BY <1>1, <1>2 DEF Live, StageInv
<1>7. \A u : u \in Units(f) => u \in Int
  BY <1>1, WriterAssumption DEF Units
<1>8. \A u \in Units(f) : hit(u) => Missing(b, u)
  BY <1>1, <1>4, <1>5, <1>7 DEF Missing, from
<1>9. disk[f] \in [Units(f) -> 0 .. 1] /\ \A u \in Units(f) : hit(u) => disk[f][u] = 0
  BY <1>1, <1>2, <1>6, <1>8 DEF DiskInv
<1>10. \A u \in Units(f) : /\ new[u] \in 0 .. 1 /\ new[u] \in Nat
                           /\ hit(u) => new[u] = 1
                           /\ ~hit(u) => new[u] = disk[f][u]
  <2> HIDE DEF hit
  <2>1. ASSUME NEW u \in Units(f)
        PROVE  /\ new[u] \in 0 .. 1 /\ new[u] \in Nat
               /\ hit(u) => new[u] = 1
               /\ ~hit(u) => new[u] = disk[f][u]
    <3>1. disk[f][u] \in 0 .. 1
      BY <1>9
    <3>2. CASE hit(u)
      BY <1>9, <3>2
    <3>3. CASE ~hit(u)
      BY <3>1, <3>3
    <3>4. QED
      BY <3>2, <3>3
  <2>2. QED
    BY <2>1
<1>11. new \in [Units(f) -> Nat] /\ new \in [Units(f) -> 0 .. 1]
  <2>1. new = [u \in Units(f) |-> new[u]]
    OBVIOUS
  <2> HIDE DEF new
  <2>2. QED
    BY <1>10, <2>1
<1> HIDE DEF new
<1>12. disk' \in [Files -> UNION {[Units(g) -> Nat] : g \in Files}]
       /\ disk'[f] = new /\ \A g \in Files : g # f => disk'[g] = disk[g]
  <2>1. disk \in [Files -> UNION {[Units(g) -> Nat] : g \in Files}]
    BY <1>2 DEF DiskInv
  <2>2. new \in UNION {[Units(g) -> Nat] : g \in Files}
    BY <1>1, <1>11
  <2>3. QED
    BY <1>1, <1>3, <2>1, <2>2
<1>13. \A g \in Files : file'[g].next = file[g].next
  BY <1>1 DEF SameShape
<1>14. \A u \in Units(f) : u >= file[f].next => ~hit(u)
  <2>1. buf[b].offset + buf[b].size <= file[f].next /\ file[f].next \in Nat
    BY <1>1, <1>2, <1>6 DEF DiskInv, Types, FileStates
  <2>2. QED
    BY <1>4, <1>5, <1>7, <2>1
<1>15. \A g \in Files : /\ disk'[g] \in [Units(g) -> 0 .. 1]
                        /\ \A u \in Units(g) : u >= file'[g].next => disk'[g][u] = 0
  <2>1. ASSUME NEW g \in Files
        PROVE  /\ disk'[g] \in [Units(g) -> 0 .. 1]
               /\ \A u \in Units(g) : u >= file'[g].next => disk'[g][u] = 0
    <3>1. CASE g = f
      <4>1. \A u \in Units(f) : u >= file[f].next => new[u] = 0
        BY <1>1, <1>a, <1>10, <1>14
      <4>2. QED
        BY <1>1, <1>11, <1>12, <1>13, <3>1, <4>1
    <3>2. CASE g # f
      BY <1>a, <1>12, <1>13, <3>2
    <3>3. QED
      BY <3>1, <3>2
  <2>2. QED
    BY <2>1
<1>16. \A u \in Units(f) : Missing(b, u)' <=> (Missing(b, u) /\ ~hit(u))
  BY <1>1, <1>4, <1>5, <1>7 DEF Missing, from, till
<1>17. \A c \in Buffers : c # b => \A u : Missing(c, u)' <=> Missing(c, u)
  BY <1>1 DEF Missing
<1>18. ASSUME NEW c \in Buffers, Live(c)', NEW u \in Units(buf'[c].file), Missing(c, u)'
       PROVE  disk'[buf'[c].file][u] = 0
  <2>1. CASE c = b
    <3>1. u \in Units(f) /\ buf'[c].file = f
      BY <1>1, <1>18, <2>1
    <3>2. Missing(b, u) /\ ~hit(u)
      BY <1>16, <1>18, <2>1, <3>1
    <3>3. disk[f][u] = 0
      BY <1>1, <1>a, <1>6, <3>1, <3>2
    <3>4. QED
      BY <1>10, <1>12, <3>1, <3>2, <3>3
  <2>2. CASE c # b /\ buf[c].file = f
    <3>1. /\ buf[b].offset + buf[b].size <= buf[c].offset
          \/ buf[c].offset + buf[c].size <= buf[b].offset
      BY <1>1, <1>2, <1>6, <1>18, <2>2 DEF DiskInv
    <3>2. u \in Units(f) /\ u \in Int /\ Missing(c, u)
      BY <1>1, <1>7, <1>17, <1>18, <2>2
    <3>3. ~hit(u)
      BY <1>4, <1>5, <3>1, <3>2 DEF Missing
    <3>4. disk[f][u] = 0
      BY <1>2, <1>6, <1>18, <2>2, <3>2 DEF DiskInv
    <3>5. QED
      BY <1>1, <1>10, <1>12, <2>2, <3>2, <3>3, <3>4
  <2>3. CASE c # b /\ buf[c].file # f
    <3>1. buf'[c].file = buf[c].file /\ Live(c) /\ Missing(c, u) /\ buf[c].file \in Files
      BY <1>1, <1>6, <1>17, <1>18, <2>3
    <3>2. disk[buf[c].file][u] = 0
      BY <1>a, <1>18, <3>1
    <3>3. QED
      BY <1>12, <2>3, <3>1, <3>2
  <2>4. QED
    BY <2>1, <2>2, <2>3
<1>19. \A c \in Buffers : Live(c)' => buf'[c].offset + buf'[c].size <= file'[buf'[c].file].next
  BY <1>1, <1>2, <1>6, <1>13 DEF DiskInv
<1>20. \A c, d \in Buffers : Live(c)' /\ Live(d)' /\ buf'[c].file = buf'[d].file /\ c # d =>
          \/ buf'[c].offset + buf'[c].size <= buf'[d].offset
          \/ buf'[d].offset + buf'[d].size <= buf'[c].offset
  BY <1>1, <1>2, <1>6 DEF DiskInv
<1>21. ASSUME NEW g \in Files, JobOf[g] \notin err', NEW u \in Units(g),
              u < file'[g].next, disk'[g][u] = 0
       PROVE  \E c \in Buffers : Live(c)' /\ buf'[c].file = g /\ Missing(c, u)'
  <2>1. disk[g][u] = 0 /\ (g = f => ~hit(u))
    <3>1. CASE g = f
      BY <1>10, <1>12, <1>21, <3>1
    <3>2. CASE g # f
      BY <1>12, <1>21, <3>2
    <3>3. QED
      BY <3>1, <3>2
  <2>2. PICK c \in Buffers : Live(c) /\ buf[c].file = g /\ Missing(c, u)
    BY <1>1, <1>2, <1>13, <1>21, <2>1 DEF DiskInv
  <2>3. Missing(c, u)'
    <3>1. CASE c = b
      BY <1>1, <1>16, <1>21, <2>1, <2>2, <3>1
    <3>2. CASE c # b
      BY <1>17, <2>2, <3>2
    <3>3. QED
      BY <3>1, <3>2
  <2>4. QED
    BY <1>1, <1>6, <2>2, <2>3
<1>22. QED
  BY <1>12, <1>15, <1>18, <1>19, <1>20, <1>21 DEF DiskInv, Units

LEMMA CompleteOkStep ==
    ASSUME WriterInv, NEW w \in Workers, NEW b \in Buffers, Waiting(w), buf[b].at = "io",
           NEW n \in 1 .. (buf[b].size - buf[b].done), CompleteOk(w, b, n),
           UNCHANGED <<gate, envVars, token, waking, pending, inflight, prod, workQ,
                       lease, retryQ>>
    PROVE  WriterInv'
<1> DEFINE f == buf[b].file
           p == IF buf'[b].done < buf[b].size THEN "open" ELSE "settle"
           t == Thread(p, b, "ok", FALSE)
<1>1. /\ f \in Files /\ file[f] \in FileStates /\ buf[b] \in BufferStates
      /\ b \in Items /\ b # None /\ b \notin Files
  BY LiveFacts DEF Lives
<1>2. wk[w].pc = "idle" /\ wk[w].item = None /\ ~Searching(wk[w])
  BY IdleFacts
<1>3. Types
  BY DEF WriterInv
<1>4. /\ wk' = [wk EXCEPT ![w] = t] /\ UNCHANGED <<err, wakeVars>> /\ meter' = Written(meter, n)
      /\ buf' = [buf EXCEPT ![b].at = "held", ![b].done = @ + n]
      /\ file' = [file EXCEPT ![f].active = @ - 1]
      /\ disk' = [disk EXCEPT ![f] = [u \in Units(f) |->
             @[u] + (IF buf[b].offset + buf[b].done <= u
                        /\ u < (buf[b].offset + buf[b].done) + n THEN 1 ELSE 0)]]
  BY DEF CompleteOk
<1>5. n \in Nat /\ n > 0 /\ buf[b].done + n <= buf[b].size
  BY <1>1 DEF BufferStates
<1>6. Confirms(b, f, n)
  <2>1. buf' = [buf EXCEPT ![b] = [buf[b] EXCEPT !.at = "held", !.done = buf[b].done + n]]
    BY <1>3, <1>4 DEF Types
  <2>2. file' = [file EXCEPT ![f] = [file[f] EXCEPT !.active = file[f].active - 1]]
    BY <1>1, <1>3, <1>4 DEF Types
  <2>3. disk' = [disk EXCEPT ![f] = [u \in Units(f) |->
            disk[f][u] + (IF buf[b].offset + buf[b].done <= u
                             /\ u < buf[b].offset + buf[b].done + n THEN 1 ELSE 0)]]
    <3>1. disk \in [Files -> UNION {[Units(g) -> Nat] : g \in Files}]
      BY DEF WriterInv, DiskInv
    <3>2. QED
      BY <1>1, <1>4, <3>1
  <2>4. QED
    BY <1>4, <1>5, <2>1, <2>2, <2>3 DEF Confirms
<1>7. /\ buf' \in [Buffers -> BufferStates] /\ buf'[b].at = "held" /\ buf'[b].file = f
      /\ buf'[b].size = buf[b].size /\ buf'[b].done <= buf[b].size
      /\ \A c \in Buffers : c # b => buf'[c] = buf[c]
      /\ file' \in [Files -> FileStates] /\ SameShape
      /\ \A g \in Files : file'[g].queued = file[g].queued /\ Remembers(g)
  BY <1>6, ConfirmShape
<1>8. p \in {"open", "settle"} /\ p \in Serves
      /\ (p = "settle" => ~(buf'[b].done < buf[b].size))
  BY DEF Serves
<1> HIDE DEF p
<1>9. t \in Threads /\ t.item = b /\ t.pc = p /\ t.result = "ok" /\ t.again = FALSE
  BY <1>1, <1>8, ThreadTypes DEF Thread
<1> HIDE DEF t, f
<1>10. wk'[w] = t /\ \A v \in Workers : v # w => wk'[v] = wk[v]
  BY <1>4, WkFacts
<1>11. Types'
  <2>1. wk' \in [Workers -> Threads]
    BY <1>3, <1>4, <1>9, WkTypes
  <2>2. meter' \in [accepted : Int, written : Int, discarded : Int, pending : Int]
    <3>1. /\ meter \in [accepted : Int, written : Int, discarded : Int, pending : Int]
          /\ meter.written + n \in Int /\ meter.pending - n \in Int
      BY <1>3, <1>5 DEF Types
    <3>2. QED
      BY <1>4, <3>1 DEF Written
  <2>3. QED
    BY <1>3, <1>4, <1>7, <2>1, <2>2 DEF Types, envVars, wakeVars
<1>12. PlaceInv'
  <2>1. Queues' /\ ToSet(workQ') = ToSet(workQ) \ {b} /\ ToSet(retryQ') = ToSet(retryQ) \ {b}
    BY UnservedIO, PlaceParts DEF WriterInv, Queues, Once, ToSet
  <2>2. QED
    BY <1>1, <1>2, <1>4, <1>7, <1>8, <1>9, <2>1, PlaceTake
<1>13. CloseInv'
  <2>1. Closing' \cap Files \subseteq Closing
    BY <1>1, <1>9, <1>10 DEF Closing
  <2>2. QED
    BY <1>7, <2>1, CloseFrame DEF SameShape, Remembers
<1>14. StageInv' /\ DecoderInv' /\ CountInv' /\ DiskInv'
  BY <1>6, ConfirmStage, ConfirmDisk
<1>15. AreaInv'
  BY <1>6, <1>11, <1>14, ConfirmArea
<1>16. ErrInv'
  <2>1. \A v \in Workers : v # w /\ wk[v].item \in Buffers => wk[v].item # b
    BY UnservedIO
  <2>2. t.pc = "settle" => buf'[t.item].done = buf'[t.item].size
    <3>1. buf'[b].done \in Nat /\ buf[b].size \in Nat
      BY <1>1, <1>7 DEF BufferStates
    <3>2. QED
      BY <1>7, <1>8, <1>9, <3>1
  <2>3. err \subseteq err' /\ t.pc # "csettle" /\ t.result \notin {"permanent", "terminal"}
    BY <1>4, <1>8, <1>9
  <2>4. \A v \in Workers : v # w /\ wk[v].item \in Buffers =>
            /\ buf'[wk[v].item].file = buf[wk[v].item].file
            /\ buf'[wk[v].item].size = buf[wk[v].item].size
            /\ buf'[wk[v].item].done = buf[wk[v].item].done
    BY <1>7, <2>1
  <2>5. (\A g \in Files : Remembers(g)) /\ wk' = [wk EXCEPT ![w] = t]
    BY <1>4, <1>7
  <2>6. QED
    BY <2>2, <2>3, <2>4, <2>5, ErrThread
<1>17. WakeInv'
  <2>1. UNCHANGED <<packet, posted>>
    BY <1>4 DEF wakeVars
  <2>2. \A y \in ToSet(retryQ) : Owner(y)' = Owner(y)
    <3>1. \A c \in Buffers : buf'[c].file = buf[c].file
      BY <1>7 DEF f
    <3>2. ASSUME NEW y \in ToSet(retryQ) PROVE FileOf(y)' = FileOf(y)
      <4>1. y \in Files \/ y \in Buffers
        BY ItemFacts DEF Items
      <4>2. QED
        BY <3>1, <4>1 DEF FileOf
    <3>3. QED
      BY <3>2 DEF Owner
  <2>3. \A y \in ToSet(retryQ') : Due(y)' => y \in ToSet(retryQ) /\ Due(y)
    BY <2>2 DEF Due
  <2>4. /\ \A v \in Workers : wk[v].pc = "ack" => wk'[v].pc = "ack"
        /\ \A v \in Workers : Searching(wk[v]) => Searching(wk'[v])
        /\ \A v \in Workers : wk'[v].pc = "idle" => ~wk'[v].again
    BY <1>2, <1>8, <1>9, <1>10 DEF WriterInv, WakeInv
  <2>5. QED
    BY <2>1, <2>3, <2>4, WakeKeeps
<1>18. QED
  BY <1>11, <1>12, <1>13, <1>14, <1>15, <1>16, <1>17 DEF WriterInv

LEMMA CompleteStep ==
    ASSUME WriterInv, NEW w \in Workers, NEW b \in Buffers, Complete(w, b) PROVE WriterInv'
<1>1. /\ Waiting(w) /\ buf[b].at = "io"
      /\ \/ \E n \in 1 .. (buf[b].size - buf[b].done) : CompleteOk(w, b, n)
         \/ CompleteFails(w, b, "space")
         \/ CompleteFails(w, b, "permanent")
      /\ UNCHANGED <<gate, envVars, token, waking, pending, inflight, prod, workQ,
                     lease, retryQ>>
  BY DEF Complete
<1>2. ASSUME NEW n \in 1 .. (buf[b].size - buf[b].done), CompleteOk(w, b, n) PROVE WriterInv'
  BY <1>1, <1>2, CompleteOkStep
<1>3. ASSUME NEW r \in {"space", "permanent"}, CompleteFails(w, b, r) PROVE WriterInv'
  BY <1>1, <1>3, CompleteFailsStep
<1>4. QED
  BY <1>1, <1>2, <1>3

-----------------------------------------------------------------------------
(* A buffer is given back to the pool.                                     *)

(* The staged buffers are as they were, the others at most move on or are  *)
(* given back.                                                             *)
LEMMA StageKeeps ==
    ASSUME WriterInv, prod' = prod, \A g \in Files : file'[g].stage = file[g].stage,
           \A c \in Buffers : \/ buf'[c] = buf[c] \/ Moved(c)
                              \/ buf'[c] = FreeBuffer /\ buf[c].at # "stage"
    PROVE  StageInv'
<1>1. StageInv /\ Types
  BY DEF WriterInv
<1>2. ASSUME NEW g \in Files, file'[g].stage # None
      PROVE  /\ buf'[file'[g].stage].at = "stage" /\ buf'[file'[g].stage].file = g
             /\ On(JobOf[g], g)'
  <2>1. /\ file[g].stage # None /\ file[g].stage \in Buffers
        /\ buf[file[g].stage].at = "stage" /\ buf[file[g].stage].file = g /\ On(JobOf[g], g)
    BY <1>1, <1>2 DEF StageInv, Types, FileStates
  <2>2. buf'[file[g].stage] = buf[file[g].stage]
    BY <2>1 DEF Moved, Lives
  <2>3. QED
    BY <2>1, <2>2 DEF On
<1>3. ASSUME NEW c \in Buffers
      PROVE  /\ buf'[c].at = "free" => buf'[c] = FreeBuffer
             /\ buf'[c].at # "free" => buf'[c].file \in Files
             /\ buf'[c].at = "stage" => file'[buf'[c].file].stage = c
             /\ buf'[c].at \in {"stage", "queue"} => buf'[c].done = 0
             /\ buf'[c].done <= buf'[c].size /\ buf'[c].size <= BufferSize
             /\ buf'[c].at # "free" /\ buf'[c].size = 0 =>
                   /\ buf'[c].at = "stage"
                   /\ prod'[JobOf[buf'[c].file]].pc = "commit" /\ prod'[JobOf[buf'[c].file]].fresh
  <2>1. CASE buf'[c] = buf[c]
    BY <1>1, <2>1 DEF StageInv
  <2>2. CASE Moved(c)
    BY <1>1, <2>2 DEF StageInv, Moved, Lives
  <2>3. CASE buf'[c] = FreeBuffer
    BY <2>3, WriterAssumption DEF FreeBuffer
  <2>4. QED
    BY <2>1, <2>2, <2>3
<1>4. QED
  BY <1>2, <1>3 DEF StageInv

LEMMA DecoderKeeps ==
    ASSUME WriterInv, prod' = prod, err \subseteq err',
           \A g \in Files : /\ file'[g].stage = file[g].stage /\ file'[g].next = file[g].next
                            /\ file'[g].accepted = file[g].accepted
                            /\ file'[g].closing = file[g].closing,
           \A c \in Buffers : buf[c].at = "stage" => buf'[c] = buf[c],
           \A j \in Jobs : prod[j].pc = "done" => pending'[j] = 0
    PROVE  DecoderInv'
<1>1. DecoderInv /\ StageInv /\ Types
  BY DEF WriterInv
<1>2. \A g \in Files : file[g].stage # None =>
          buf'[file[g].stage].size = buf[file[g].stage].size
  BY <1>1 DEF StageInv, Types, FileStates
<1>3. ASSUME NEW j \in Jobs
      PROVE  /\ prod'[j].pc \in Writing =>
                   /\ prod'[j].file \in Files /\ JobOf[prod'[j].file] = j
                   /\ ~file'[prod'[j].file].closing
                   /\ file'[prod'[j].file].accepted + prod'[j].left = Size[prod'[j].file]
             /\ prod'[j].pc = "reserve" => prod'[j].left > 0
             /\ prod'[j].pc = "commit" =>
                   /\ file'[prod'[j].file].stage # None
                   /\ prod'[j].chunk > 0 /\ prod'[j].chunk <= prod'[j].left
                   /\ buf'[file'[prod'[j].file].stage].size + prod'[j].chunk <= BufferSize
                   /\ prod'[j].fresh <=> buf'[file'[prod'[j].file].stage].size = 0
             /\ prod'[j].pc # "commit" => prod'[j].chunk = 0
             /\ prod'[j].pc = "done" => pending'[j] = 0
  <2>1. prod[j].pc \in Writing => prod[j].file \in Files
    BY <1>1 DEF DecoderInv
  <2>2. prod[j].pc = "commit" => file[prod[j].file].stage # None /\ prod[j].file \in Files
    BY <1>1, <2>1 DEF DecoderInv, Writing
  <2>3. QED
    BY <1>1, <1>2, <2>1, <2>2 DEF DecoderInv, Writing
<1>4. ASSUME NEW g \in Files
      PROVE  /\ file'[g].accepted <= Size[g]
             /\ ~file'[g].closing /\ ~On(JobOf[g], g)' => file'[g].accepted = 0
             /\ file'[g].next <= file'[g].accepted
             /\ file'[g].stage = None /\ (~file'[g].closing \/ JobOf[g] \notin err') =>
                   file'[g].next = file'[g].accepted
             /\ file'[g].stage # None =>
                   file'[g].next + buf'[file'[g].stage].size = file'[g].accepted
  BY <1>1, <1>2 DEF DecoderInv, On
<1>5. QED
  BY <1>3, <1>4 DEF DecoderInv

(* The fillings by file and by job.                                        *)
LEMMA OwnedFills ==
    ASSUME NEW bs \in [Buffers -> BufferStates], \A c \in Buffers : bs[c].size <= BufferSize
    PROVE  /\ \A g : [c \in Buffers |-> IF bs[c].file = g THEN bs[c].size ELSE 0] \in Fills
           /\ \A j : [c \in Buffers |-> IF bs[c].file \in Files /\ JobOf[bs[c].file] = j
                                        THEN bs[c].size ELSE 0] \in Fills
<1>1. \A c \in Buffers : bs[c].size \in 0 .. BufferSize /\ 0 \in 0 .. BufferSize
  BY WriterAssumption DEF BufferStates
<1>2. QED
  BY <1>1 DEF Fills

LEMMA FreeCounts ==
    ASSUME WriterInv, NEW b \in Buffers, NEW f \in Files, buf[b].file = f, buf[b].size > 0,
           buf[b].at # "io", buf'[b] = FreeBuffer, \A c \in Buffers : c # b => buf'[c] = buf[c]
    PROVE  /\ Cardinality(Filled(f)') = Cardinality(Filled(f)) - 1
           /\ \A g \in Files : g # f => Filled(g)' = Filled(g)
           /\ \A g \in Files : InIO(g)' = InIO(g)
           /\ Cardinality(Holding(JobOf[f])') = Cardinality(Holding(JobOf[f])) - 1
           /\ Cardinality(Holding(JobOf[f])) \in Nat
           /\ Cardinality(Holding(JobOf[f])) > 0
           /\ \A j \in Jobs : j # JobOf[f] => Holding(j)' = Holding(j)
<1>1. buf'[b].file = None /\ buf'[b].size = 0 /\ None \notin Files /\ buf'[b].at # "io"
  BY WriterAssumption DEF FreeBuffer
<1>2. Filled(f)' = Filled(f) \ {b} /\ b \in Filled(f)
  BY <1>1 DEF Filled
<1>3. \A g \in Files : g # f => Filled(g)' = Filled(g)
  BY <1>1 DEF Filled
<1>4. \A g \in Files : InIO(g)' = InIO(g)
  BY <1>1 DEF InIO
<1>5. Holding(JobOf[f])' = Holding(JobOf[f]) \ {b} /\ b \in Holding(JobOf[f])
  BY <1>1 DEF Holding
<1>6. \A j \in Jobs : j # JobOf[f] => Holding(j)' = Holding(j)
  BY <1>1 DEF Holding
<1>7. /\ IsFiniteSet(Buffers) /\ Filled(f) \in SUBSET Buffers
      /\ Holding(JobOf[f]) \in SUBSET Buffers
  BY WriterAssumption DEF Filled, Holding
<1>8. Cardinality(Filled(f) \ {b}) = Cardinality(Filled(f)) - 1
  BY <1>2, <1>7, Sizes
<1>9. /\ Cardinality(Holding(JobOf[f]) \ {b}) = Cardinality(Holding(JobOf[f])) - 1
      /\ Cardinality(Holding(JobOf[f])) \in Nat /\ Cardinality(Holding(JobOf[f])) # 0
  BY <1>5, <1>7, Sizes
<1>10. QED
  BY <1>2, <1>3, <1>4, <1>5, <1>6, <1>8, <1>9

LEMMA FreeAreas ==
    ASSUME WriterInv, NEW b \in Buffers, NEW f \in Files, buf[b].file = f,
           buf'[b] = FreeBuffer, \A c \in Buffers : c # b => buf'[c] = buf[c]
    PROVE  /\ Area(OfFile(f)') = Area(OfFile(f)) - buf[b].size
           /\ \A g \in Files : Area(OfFile(g)) \in Nat
           /\ \A g \in Files : g # f => OfFile(g)' = OfFile(g)
           /\ Area(OfJob(JobOf[f])') = Area(OfJob(JobOf[f])) - buf[b].size
           /\ \A j \in Jobs : Area(OfJob(j)) \in Nat
           /\ \A j \in Jobs : j # JobOf[f] => OfJob(j)' = OfJob(j)
           /\ Area(Left) \in Nat
           /\ Area(Left') = Area(Left) - (buf[b].size - buf[b].done)
<1>1. /\ buf'[b].file = None /\ buf'[b].size = 0 /\ buf'[b].done = 0 /\ None \notin Files
      /\ FreeBuffer \in BufferStates
  BY WriterAssumption DEF FreeBuffer, BufferStates
<1>2. /\ buf \in [Buffers -> BufferStates]
      /\ \A c \in Buffers : buf[c].done <= buf[c].size /\ buf[c].size <= BufferSize
  BY DEF WriterInv, Types, StageInv
<1>3. \A c \in Buffers : buf[c].size \in Nat /\ buf[c].done \in Nat
  BY <1>2 DEF BufferStates
<1>4. Left \in Fills /\ \A g \in Files : OfFile(g) \in Fills
  BY <1>2, LeftFills, OwnedFills DEF Left, OfFile
<1>5. \A j : OfJob(j) \in Fills
  BY <1>2, OwnedFills DEF OfJob
<1>6. 0 \in 0 .. BufferSize
  BY WriterAssumption
<1>7. ASSUME NEW n \in Fills, NEW m, m = [n EXCEPT ![b] = 0]
      PROVE  Area(n) \in Nat /\ Area(m) = Area(n) - n[b]
  <2>1. m \in Fills /\ m[b] = 0 /\ \A c \in Buffers : c # b => m[c] = n[c]
    BY <1>6, <1>7 DEF Fills
  <2>2. /\ Area(n) \in Nat /\ Area(m) = Area(n) - n[b] + m[b] /\ n[b] \in Int
    BY <2>1, AreaChange DEF Fills
  <2>3. QED
    BY <2>1, <2>2
<1>8. OfFile(f)' = [OfFile(f) EXCEPT ![b] = 0] /\ OfFile(f)[b] = buf[b].size
  BY <1>1 DEF OfFile
<1>9. \A g \in Files : g # f => OfFile(g)' = OfFile(g)
  BY <1>1 DEF OfFile
<1>10. OfJob(JobOf[f])' = [OfJob(JobOf[f]) EXCEPT ![b] = 0] /\ OfJob(JobOf[f])[b] = buf[b].size
  BY <1>1 DEF OfJob
<1>11. \A j \in Jobs : j # JobOf[f] => OfJob(j)' = OfJob(j)
  BY <1>1 DEF OfJob
<1>12. Left' = [Left EXCEPT ![b] = 0] /\ Left[b] = buf[b].size - buf[b].done
  <2>1. buf'[b].size - buf'[b].done = 0
    BY <1>1
  <2>2. Left' = [c \in Buffers |-> buf'[c].size - buf'[c].done]
    BY DEF Left
  <2>3. QED
    BY <2>1, <2>2 DEF Left
<1>13. \A g \in Files : Area(OfFile(g)) \in Nat
  BY <1>4, <1>7
<1>14. \A j \in Jobs : Area(OfJob(j)) \in Nat
  BY <1>5, <1>7
<1>15. Area(OfFile(f)') = Area(OfFile(f)) - buf[b].size
  BY <1>4, <1>7, <1>8
<1>16. Area(OfJob(JobOf[f])') = Area(OfJob(JobOf[f])) - buf[b].size
  BY <1>5, <1>7, <1>10
<1>17. Area(Left) \in Nat /\ Area(Left') = Area(Left) - (buf[b].size - buf[b].done)
  BY <1>4, <1>7, <1>12
<1>18. QED
  BY <1>9, <1>11, <1>13, <1>14, <1>15, <1>16, <1>17

(* Nothing is missing from the buffer, or the job has failed anyway.       *)
LEMMA FreeDisk ==
    ASSUME WriterInv, NEW b \in Buffers, NEW f \in Files, buf[b].file = f,
           buf'[b] = FreeBuffer, \A c \in Buffers : c # b => buf'[c] = buf[c],
           disk' = disk, err \subseteq err', \A g \in Files : file'[g].next = file[g].next,
           JobOf[f] \in err' \/ buf[b].done = buf[b].size
    PROVE  DiskInv'
<1>1. DiskInv /\ Types
  BY DEF WriterInv
<1>2. ~Live(b)' /\ \A c \in Buffers : Live(c)' => Live(c) /\ c # b /\ buf'[c] = buf[c]
  BY DEF Live, FreeBuffer
<1>3. \A c \in Buffers : c # b => \A u : Missing(c, u)' <=> Missing(c, u)
  BY DEF Missing
<1>4. \A c \in Buffers : Live(c) => buf[c].file \in Files
  BY DEF WriterInv, StageInv, Live
<1>5. ASSUME NEW g \in Files, JobOf[g] \notin err', NEW u \in Units(g),
             u < file'[g].next, disk'[g][u] = 0
      PROVE  \E c \in Buffers : Live(c)' /\ buf'[c].file = g /\ Missing(c, u)'
  <2>1. PICK c \in Buffers : Live(c) /\ buf[c].file = g /\ Missing(c, u)
    BY <1>1, <1>5 DEF DiskInv
  <2>2. u \in Int /\ buf[b].offset \in Nat /\ buf[b].size \in Nat
    BY <1>1, <1>5, WriterAssumption DEF Units, Types, BufferStates
  <2>3. c # b
    <3>1. SUFFICES ASSUME c = b PROVE FALSE
      OBVIOUS
    <3>2. buf[b].done = buf[b].size
      BY <1>5, <2>1, <3>1
    <3>3. QED
      BY <2>1, <2>2, <3>1, <3>2 DEF Missing
  <2>4. QED
    BY <1>3, <2>1, <2>3 DEF Live
<1>6. \A c \in Buffers : Live(c)' =>
          /\ buf'[c].offset + buf'[c].size <= file'[buf'[c].file].next
          /\ \A u \in Units(buf'[c].file) : Missing(c, u)' => disk'[buf'[c].file][u] = 0
  BY <1>1, <1>2, <1>3, <1>4 DEF DiskInv
<1>7. \A c, d \in Buffers : Live(c)' /\ Live(d)' /\ buf'[c].file = buf'[d].file /\ c # d =>
          \/ buf'[c].offset + buf'[c].size <= buf'[d].offset
          \/ buf'[d].offset + buf'[d].size <= buf'[c].offset
  BY <1>1, <1>2 DEF DiskInv
<1>8. \A g \in Files : /\ disk'[g] \in [Units(g) -> 0 .. 1]
                       /\ \A u \in Units(g) : u >= file'[g].next => disk'[g][u] = 0
  BY <1>1 DEF DiskInv
<1>9. disk' \in [Files -> UNION {[Units(g) -> Nat] : g \in Files}]
  BY <1>1 DEF DiskInv
<1>10. QED
  BY <1>5, <1>6, <1>7, <1>8, <1>9 DEF DiskInv, Units

(* At most file f has its close queued.                                    *)
LEMMA CloseGains ==
    ASSUME WriterInv, NEW f \in Files, \A g \in Files : g # f => file'[g] = file[g],
           \A g \in Files : g # f /\ g \in Closing' => g \in Closing,
           f \in Closing' => file'[f].queued, ~file'[f].closed,
           file'[f].queued => file'[f].closing /\ file'[f].outstanding = 0
    PROVE  CloseInv'
<1>1. CloseInv
  BY DEF WriterInv
<1>2. ASSUME NEW g \in Files
      PROVE  /\ g \in Closing' => file'[g].queued /\ ~file'[g].closed
             /\ file'[g].queued => file'[g].closing /\ file'[g].outstanding = 0
             /\ file'[g].closed => file'[g].queued /\ ~file'[g].handle
  <2>1. CASE g = f
    BY <2>1
  <2>2. CASE g # f
    BY <1>1, <2>2 DEF CloseInv
  <2>3. QED
    BY <2>1, <2>2
<1>3. QED
  BY <1>2 DEF CloseInv

(* The thread is about to search the queue, or to park its item.           *)
LEMMA WakeSearching ==
    ASSUME WriterInv, packet => packet', posted' => posted \/ packet',
           NEW w \in Workers, NEW t, wk' = [wk EXCEPT ![w] = t],
           wk[w].pc # "ack", Searching(t), t.pc = "idle" => ~t.again
    PROVE  WakeInv'
<1>1. wk'[w] = t /\ \A v \in Workers : v # w => wk'[v] = wk[v]
  BY WkFacts
<1>2. NoLostWake'
  BY <1>1 DEF NoLostWake, Searching
<1>3. posted' => packet' \/ \E v \in Workers : wk'[v].pc = "ack"
  BY <1>1 DEF WriterInv, WakeInv
<1>4. \A v \in Workers : wk'[v].pc = "idle" => ~wk'[v].again
  BY <1>1 DEF WriterInv, WakeInv
<1>5. QED
  BY <1>2, <1>3, <1>4 DEF WakeInv

(* A gate that is not notified of decides as it did.                       *)
LEMMA SettleGateSame ==
    ASSUME WriterInv, NEW x \in Items, NEW r, SettleGate(x, r), ~Notifies(x, r)
    PROVE  gate'.phase = gate.phase /\ gate'.owner = gate.owner
<1>1. gate \in GateRecords
  BY DEF WriterInv, Types
<1>2. CASE x \in lease
  <2>1. ~OwnsProbe(gate, x)
    BY <1>2 DEF Notifies
  <2>2. SettleAttempt(gate, x, r) = gate
    BY <2>1 DEF SettleAttempt, SettleSuccess, SettleSpaceFailure, SettleInconclusive
  <2>3. gate' = [gate EXCEPT !.episode = 0]
    BY <1>2, <2>2 DEF SettleGate
  <2>4. QED
    BY <1>1, <2>3 DEF GateRecords
<1>3. CASE x \notin lease
  <2>1. r # "space"
    BY <1>3 DEF Notifies
  <2>2. gate' = [gate EXCEPT !.episode = 0]
    BY <1>3, <2>1 DEF SettleGate
  <2>3. QED
    BY <1>1, <2>2 DEF GateRecords
<1>4. QED
  BY <1>2, <1>3

LEMMA NotifiesBoolean ==
    ASSUME NEW x, NEW r PROVE Notifies(x, r) \in BOOLEAN
BY DEF Notifies, OwnsProbe

(* finish_data_attempt on a write that ran out of space.                   *)
LEMMA SettleSpaceStep ==
    ASSUME WriterInv, NEW w \in Workers, Settle(w), wk[w].result = "space" PROVE WriterInv'
<1> DEFINE b == wk[w].item
           t == [wk[w] EXCEPT !.pc = "defer"]
<1>0. /\ wk[w].pc = "settle" /\ SettleGate(b, "space") /\ WakeIf(Notifies(b, "space"))
      /\ wk' = [wk EXCEPT ![w].pc = "defer"]
      /\ UNCHANGED <<ioVars, inflight, pending, meter>>
      /\ UNCHANGED <<envVars, token, waking, err, prod, retryQ, disk>>
  BY DEF Settle
<1>1. b \in Buffers /\ b \in Items /\ b # None
  BY <1>0, WriterAssumption DEF WriterInv, PlaceInv, Items
<1>2. Types
  BY DEF WriterInv
<1>3. wk' = [wk EXCEPT ![w] = t]
  BY <1>0, <1>2 DEF Types
<1>4. t \in Threads /\ t.pc = "defer" /\ t.item = b /\ t.again = wk[w].again
  BY OnwardFacts DEF Serves
<1> HIDE DEF t, b
<1>5. UNCHANGED <<buf, file, workQ, retryQ, prod, pending, inflight, disk, meter, err>>
  BY <1>0 DEF ioVars
<1>6. PlaceInv' /\ CloseInv' /\ StageInv' /\ DecoderInv' /\ CountInv' /\ AreaInv'
      /\ DiskInv' /\ ErrInv'
  <2>1. t.pc \in Serves /\ t.item # None /\ t.item = wk[w].item
        /\ t.pc \notin {"open", "submit", "copen", "settle", "csettle"}
    BY <1>1, <1>4 DEF Serves, b
  <2>2. QED
    BY <1>3, <1>4, <1>5, <2>1, QuietThread
<1>7. Types'
  <2>1. posted' \in BOOLEAN /\ packet' \in BOOLEAN
    BY <1>0, <1>2, NotifiesBoolean, WakeTypes
  <2>2. gate' \in GateRecords /\ lease' \subseteq Items
    BY <1>0, <1>1, <1>2, SettleGateTypes
  <2>3. wk' \in [Workers -> Threads]
    BY <1>2, <1>3, <1>4, WkTypes
  <2>4. QED
    BY <1>0, <1>2, <1>5, <2>1, <2>2, <2>3 DEF Types, envVars
<1>8. WakeInv'
  <2>1. (packet => packet') /\ (posted' => posted \/ packet')
    BY <1>0, WakeIfFacts
  <2>2. Searching(t)
    BY <1>4 DEF Searching
  <2>3. QED
    BY <1>0, <1>3, <1>4, <2>1, <2>2, WakeSearching
<1>9. QED
  BY <1>6, <1>7, <1>8 DEF WriterInv

(* The last buffer of a closing file queues the close.                     *)
LEMMA QueueCloseCases ==
    ASSUME NEW fl \in FileStates, ~fl.queued, ~fl.closed, NEW f
    PROVE  LET new == QueueClose(fl) IN
           /\ new \in FileStates
           /\ new.stage = fl.stage /\ new.next = fl.next /\ new.inflight = fl.inflight
           /\ new.outstanding = fl.outstanding /\ new.active = fl.active
           /\ new.accepted = fl.accepted /\ new.closing = fl.closing /\ new.closed = fl.closed
           /\ new.handle = fl.handle /\ new.tried = fl.tried /\ new.created = fl.created
           /\ new.failed = fl.failed
           /\ \/ /\ new.queued /\ fl.closing /\ fl.outstanding = 0 /\ CloseItem(f, fl) = <<f>>
              \/ /\ ~new.queued /\ CloseItem(f, fl) = <<>>
<1> DEFINE c == fl.queued \/ WantsClose(fl)
           new == [fl EXCEPT !.queued = c]
<1>1. c \in BOOLEAN /\ (c <=> WantsClose(fl))
  BY DEF FileStates, WantsClose
<1>2. QueueClose(fl) = new
  BY DEF QueueClose
<1> HIDE DEF c
<1>3. /\ new \in FileStates /\ new.queued = c
      /\ new.stage = fl.stage /\ new.next = fl.next /\ new.inflight = fl.inflight
      /\ new.outstanding = fl.outstanding /\ new.active = fl.active
      /\ new.accepted = fl.accepted /\ new.closing = fl.closing /\ new.closed = fl.closed
      /\ new.handle = fl.handle /\ new.tried = fl.tried /\ new.created = fl.created
      /\ new.failed = fl.failed
  BY <1>1 DEF FileStates
<1> HIDE DEF new
<1>4. CASE WantsClose(fl)
  <2>1. fl.closing /\ fl.outstanding = 0 /\ CloseItem(f, fl) = <<f>>
    BY <1>4 DEF CloseItem, WantsClose
  <2>2. QED
    BY <1>1, <1>2, <1>3, <1>4, <2>1
<1>5. CASE ~WantsClose(fl)
  <2>1. CloseItem(f, fl) = <<>>
    BY <1>5 DEF CloseItem
  <2>2. QED
    BY <1>1, <1>2, <1>3, <1>5, <2>1
<1>6. QED
  BY <1>4, <1>5

(* A thread lets go of buffer b of file f, whose accounts go down.         *)
Releases(w, b, f) ==
    /\ wk[w].item = b /\ b \in Buffers /\ f = buf[b].file
    /\ wk' = [wk EXCEPT ![w] = Resting(wk[w].again)]
    /\ buf'[b] = FreeBuffer /\ \A c \in Buffers : c # b => buf'[c] = buf[c]
    /\ \A g \in Files : g # f => file'[g] = file[g]
    /\ LET new == file'[f]
           old == file[f]
       IN  /\ new.stage = old.stage /\ new.next = old.next /\ new.active = old.active
           /\ new.accepted = old.accepted /\ new.closing = old.closing
           /\ new.closed = old.closed /\ new.handle = old.handle /\ new.tried = old.tried
           /\ new.created = old.created /\ new.failed = old.failed
           /\ new.inflight = old.inflight - buf[b].size
           /\ new.outstanding = old.outstanding - 1
           /\ \/ /\ new.queued /\ new.closing /\ new.outstanding = 0
                 /\ workQ' = Append(workQ, f)
              \/ ~new.queued /\ workQ' = workQ
    /\ inflight' = [inflight EXCEPT ![JobOf[f]] = inflight[JobOf[f]] - buf[b].size]
    /\ pending' = [pending EXCEPT ![JobOf[f]] = pending[JobOf[f]] - 1]
    /\ meter' = Discarded(meter, buf[b].size - buf[b].done)
    /\ UNCHANGED <<envVars, token, waking, err, prod, retryQ, disk>>

LEMMA ReleaseEffect ==
    ASSUME WriterInv, NEW w \in Workers, Settle(w), wk[w].result # "space"
    PROVE  LET b == wk[w].item
               f == buf[b].file
           IN  /\ Releases(w, b, f) /\ f \in Files
               /\ buf' \in [Buffers -> BufferStates] /\ file' \in [Files -> FileStates]
               /\ JobOf[f] \in err \/ buf[b].done = buf[b].size
<1> DEFINE b == wk[w].item
           f == buf[b].file
           j == JobOf[f]
           r == wk[w].result
           fl == [file[f] EXCEPT !.inflight = file[f].inflight - buf[b].size,
                                 !.outstanding = file[f].outstanding - 1]
<1>0. /\ wk[w].pc = "settle"
      /\ wk' = [wk EXCEPT ![w] = Resting(@.again)]
      /\ meter' = Discarded(meter, GivenUp(b, r))
      /\ file' = [file EXCEPT ![f] = QueueClose([file[f] EXCEPT !.inflight = @ - buf[b].size,
                                                                !.outstanding = @ - 1])]
      /\ workQ' = workQ \o CloseItem(f, [file[f] EXCEPT !.inflight = @ - buf[b].size,
                                                        !.outstanding = @ - 1])
      /\ inflight' = [inflight EXCEPT ![j] = @ - buf[b].size]
      /\ pending' = [pending EXCEPT ![j] = @ - 1]
      /\ buf' = [buf EXCEPT ![b] = FreeBuffer]
      /\ UNCHANGED <<envVars, token, waking, err, prod, retryQ, disk>>
  BY Zenon DEF Settle
<1>1. b \in Buffers
  BY <1>0, Zenon DEF WriterInv, PlaceInv
<1>2. /\ f \in Files /\ file[f] \in FileStates /\ buf[b] \in BufferStates /\ j \in Jobs
      /\ ~file[f].queued /\ ~file[f].closed
  BY <1>1, HeldFacts
<1>3. Types /\ ErrInv
  BY DEF WriterInv
<1>4. r \in {"ok", "permanent", "terminal"}
  BY <1>3, Zenon DEF Types, Threads
<1>5. JobOf[f] \in err \/ buf[b].done = buf[b].size
  BY <1>0, <1>3, <1>4, Zenon DEF ErrInv
<1>6. buf[b].size \in Nat /\ buf[b].done \in Nat
      /\ file[f].inflight - buf[b].size \in Int /\ file[f].outstanding - 1 \in Int
  BY <1>2 DEF BufferStates, FileStates
<1>7. GivenUp(b, r) = buf[b].size - buf[b].done
  <2>1. CASE r = "ok"
    <3>1. buf[b].done = buf[b].size
      BY <1>0, <1>3, <2>1, Zenon DEF ErrInv
    <3>2. GivenUp(b, r) = 0
      BY <2>1, Zenon DEF GivenUp
    <3>3. buf[b].size - buf[b].done = 0
      BY <1>6, <3>1
    <3>4. QED
      BY <3>2, <3>3, Zenon
  <2>2. CASE r # "ok"
    BY <2>2, Zenon DEF GivenUp
  <2>3. QED
    BY <2>1, <2>2
<1>8. /\ wk' = [wk EXCEPT ![w] = Resting(wk[w].again)]
      /\ inflight' = [inflight EXCEPT ![j] = inflight[j] - buf[b].size]
      /\ pending' = [pending EXCEPT ![j] = pending[j] - 1]
  BY <1>0, <1>2, <1>3, Zenon DEF Types
<1>9. file' = [file EXCEPT ![f] = QueueClose(fl)] /\ workQ' = workQ \o CloseItem(f, fl)
  BY <1>0, Zenon
<1>10. /\ fl \in FileStates /\ fl.inflight = file[f].inflight - buf[b].size
       /\ fl.outstanding = file[f].outstanding - 1
       /\ fl.stage = file[f].stage /\ fl.next = file[f].next /\ fl.active = file[f].active
       /\ fl.accepted = file[f].accepted /\ fl.closing = file[f].closing
       /\ fl.closed = file[f].closed /\ fl.handle = file[f].handle /\ fl.tried = file[f].tried
       /\ fl.created = file[f].created /\ fl.failed = file[f].failed
       /\ fl.queued = file[f].queued
  BY <1>2, <1>6, Zenon DEF FileStates
<1>11. FreeBuffer \in BufferStates
  BY WriterAssumption DEF FreeBuffer, BufferStates
<1>12. /\ buf' \in [Buffers -> BufferStates] /\ buf'[b] = FreeBuffer
       /\ \A c \in Buffers : c # b => buf'[c] = buf[c]
  BY <1>0, <1>1, <1>3, <1>11, Zenon DEF Types
<1> DEFINE new == QueueClose(fl)
<1>13. /\ new \in FileStates
       /\ new.stage = fl.stage /\ new.next = fl.next /\ new.inflight = fl.inflight
       /\ new.outstanding = fl.outstanding /\ new.active = fl.active
       /\ new.accepted = fl.accepted /\ new.closing = fl.closing /\ new.closed = fl.closed
       /\ new.handle = fl.handle /\ new.tried = fl.tried /\ new.created = fl.created
       /\ new.failed = fl.failed
       /\ \/ /\ new.queued /\ fl.closing /\ fl.outstanding = 0 /\ CloseItem(f, fl) = <<f>>
          \/ /\ ~new.queued /\ CloseItem(f, fl) = <<>>
  <2> HIDE DEF fl, f
  <2>1. fl \in FileStates /\ ~fl.queued /\ ~fl.closed
    BY <1>2, <1>10, Zenon
  <2>2. QED
    BY <2>1, QueueCloseCases
<1>14. file' = [file EXCEPT ![f] = new]
  BY <1>9, Zenon
<1> HIDE DEF new, fl, f, j, b, r
<1>15. /\ file' \in [Files -> FileStates] /\ file'[f] = new
       /\ \A g \in Files : g # f => file'[g] = file[g]
  BY <1>2, <1>3, <1>13, <1>14 DEF Types
<1>16. \/ /\ new.queued /\ new.closing /\ new.outstanding = 0 /\ workQ' = Append(workQ, f)
       \/ ~new.queued /\ workQ' = workQ
  <2>1. workQ \in Seq(Items) /\ f \in Items
    BY <1>2 DEF WriterInv, PlaceInv, Items
  <2>2. workQ \o <<>> = workQ /\ workQ \o <<f>> = Append(workQ, f)
    BY <2>1, ConcatFacts, Zenon
  <2>3. QED
    BY <1>9, <1>13, <2>2
<1>17. Releases(w, b, f)
  BY <1>0, <1>1, <1>7, <1>8, <1>10, <1>12, <1>13, <1>15, <1>16, ZenonT(60) DEF Releases, b, f, j
<1>18. QED
  BY <1>2, <1>5, <1>12, <1>15, <1>17, Zenon DEF b, f

(* The accounts after a buffer has been released.                          *)
LEMMA ReleaseAccounts ==
    ASSUME WriterInv, NEW w \in Workers, NEW b \in Buffers, NEW f \in Files, Releases(w, b, f)
    PROVE  CountInv' /\ AreaInv' /\ \A j \in Jobs : prod[j].pc = "done" => pending'[j] = 0
<1>1. /\ wk[w].item = b /\ f = buf[b].file
      /\ buf'[b] = FreeBuffer /\ \A c \in Buffers : c # b => buf'[c] = buf[c]
      /\ \A g \in Files : g # f => file'[g] = file[g]
      /\ file'[f].active = file[f].active
      /\ file'[f].closing = file[f].closing /\ file'[f].closed = file[f].closed
      /\ file'[f].inflight = file[f].inflight - buf[b].size
      /\ file'[f].outstanding = file[f].outstanding - 1
      /\ inflight' = [inflight EXCEPT ![JobOf[f]] = inflight[JobOf[f]] - buf[b].size]
      /\ pending' = [pending EXCEPT ![JobOf[f]] = pending[JobOf[f]] - 1]
      /\ meter' = Discarded(meter, buf[b].size - buf[b].done)
      /\ prod' = prod
  BY DEF Releases
<1>2. Types /\ CountInv /\ AreaInv /\ StageInv /\ DecoderInv
  BY DEF WriterInv
<1>3. /\ buf[b].at = "held" /\ buf[b] \in BufferStates /\ buf[b].size > 0
      /\ file[f] \in FileStates /\ JobOf[f] \in Jobs
  BY <1>1, HeldFacts, Zenon
<1>4. /\ buf[b].size \in Nat /\ buf[b].done \in Nat /\ buf[b].size - buf[b].done \in Nat
  BY <1>2, <1>3 DEF BufferStates, StageInv
<1>5. /\ inflight'[JobOf[f]] = inflight[JobOf[f]] - buf[b].size
      /\ pending'[JobOf[f]] = pending[JobOf[f]] - 1
      /\ \A j \in Jobs : j # JobOf[f] => inflight'[j] = inflight[j] /\ pending'[j] = pending[j]
  BY <1>1, <1>2, <1>3 DEF Types
<1>6. \A j \in Jobs : Ending(j)' = Ending(j) /\ Cardinality(Ending(j)) \in Nat
  <2>1. \A j \in Jobs : Ending(j)' = Ending(j) /\ Ending(j) \in SUBSET Files
    BY <1>1 DEF Ending
  <2>2. QED
    BY <2>1, Sizes, WriterAssumption
<1>7. /\ Cardinality(Filled(f)') = Cardinality(Filled(f)) - 1
      /\ \A g \in Files : g # f => Filled(g)' = Filled(g)
      /\ \A g \in Files : InIO(g)' = InIO(g)
      /\ Cardinality(Holding(JobOf[f])') = Cardinality(Holding(JobOf[f])) - 1
      /\ Cardinality(Holding(JobOf[f])) \in Nat
      /\ Cardinality(Holding(JobOf[f])) > 0
      /\ \A j \in Jobs : j # JobOf[f] => Holding(j)' = Holding(j)
  BY <1>1, <1>3, FreeCounts
<1>8. CountInv'
  <2>1. ASSUME NEW g \in Files
        PROVE  /\ file'[g].outstanding = Cardinality(Filled(g)')
               /\ file'[g].active = Cardinality(InIO(g)')
    <3>1. CASE g = f
      BY <1>1, <1>2, <1>7, <3>1 DEF CountInv
    <3>2. CASE g # f
      BY <1>1, <1>2, <1>7, <3>2 DEF CountInv
    <3>3. QED
      BY <3>1, <3>2
  <2>2. ASSUME NEW j \in Jobs
        PROVE  pending'[j] = Cardinality(Holding(j)') + Cardinality(Ending(j)')
    <3>1. CASE j = JobOf[f]
      <4>1. pending[j] = Cardinality(Holding(j)) + Cardinality(Ending(j))
        BY <1>2 DEF CountInv
      <4>2. QED
        BY <1>5, <1>6, <1>7, <3>1, <4>1
    <3>2. CASE j # JobOf[f]
      BY <1>2, <1>5, <1>6, <1>7, <3>2 DEF CountInv
    <3>3. QED
      BY <3>1, <3>2
  <2>3. QED
    BY <2>1, <2>2 DEF CountInv
<1>9. \A j \in Jobs : prod[j].pc = "done" => pending'[j] = 0
  <2>1. pending[JobOf[f]] # 0
    <3>1. pending[JobOf[f]] = Cardinality(Holding(JobOf[f])) + Cardinality(Ending(JobOf[f]))
      BY <1>2, <1>3 DEF CountInv
    <3>2. QED
      BY <1>3, <1>6, <1>7, <3>1
  <2>2. QED
    BY <1>2, <1>5, <2>1 DEF DecoderInv
<1>10. /\ Area(OfFile(f)') = Area(OfFile(f)) - buf[b].size
       /\ \A g \in Files : Area(OfFile(g)) \in Nat
       /\ \A g \in Files : g # f => OfFile(g)' = OfFile(g)
       /\ Area(OfJob(JobOf[f])') = Area(OfJob(JobOf[f])) - buf[b].size
       /\ \A j \in Jobs : Area(OfJob(j)) \in Nat
       /\ \A j \in Jobs : j # JobOf[f] => OfJob(j)' = OfJob(j)
       /\ Area(Left) \in Nat
       /\ Area(Left') = Area(Left) - (buf[b].size - buf[b].done)
  BY <1>1, FreeAreas
<1>11. \A g \in Files : Reserved(g)' = Reserved(g)
  BY <1>1 DEF Reserved
<1>12. AreaInv'
  <2>1. ASSUME NEW g \in Files
        PROVE  /\ file'[g].inflight = Area(OfFile(g)') + Reserved(g)'
               /\ file'[g].inflight <= FileBudget
    <3>1. CASE g = f
      <4>1. file[f].inflight = Area(OfFile(f)) + Reserved(f) /\ file[f].inflight <= FileBudget
            /\ file[f].inflight \in Int
        BY <1>2, <1>3 DEF AreaInv, FileStates
      <4>2. Reserved(f) \in Int
        <5>1. prod[JobOf[f]].chunk \in Nat
          BY <1>2, <1>3 DEF Types, Decoders
        <5>2. QED
          BY <5>1 DEF Reserved
      <4>3. FileBudget \in Nat
        BY WriterAssumption
      <4>4. QED
        BY <1>1, <1>4, <1>10, <1>11, <3>1, <4>1, <4>2, <4>3
    <3>2. CASE g # f
      BY <1>1, <1>2, <1>10, <1>11, <3>2 DEF AreaInv
    <3>3. QED
      BY <3>1, <3>2
  <2>2. ASSUME NEW j \in Jobs
        PROVE  /\ inflight'[j] = Area(OfJob(j)') + prod'[j].chunk
               /\ inflight'[j] <= JobBudget
    <3>1. CASE j = JobOf[f]
      <4>1. inflight[j] = Area(OfJob(j)) + prod[j].chunk /\ inflight[j] <= JobBudget
            /\ inflight[j] \in Int /\ prod[j].chunk \in Nat
        BY <1>2 DEF AreaInv, Types, Decoders
      <4>2. JobBudget \in Nat
        BY WriterAssumption
      <4>3. QED
        BY <1>1, <1>4, <1>5, <1>10, <3>1, <4>1, <4>2
    <3>2. CASE j # JobOf[f]
      BY <1>1, <1>2, <1>5, <1>10, <3>2 DEF AreaInv
    <3>3. QED
      BY <3>1, <3>2, SMTT(60)
  <2>3. /\ meter'.pending = meter.pending - (buf[b].size - buf[b].done)
        /\ meter'.accepted = meter.accepted /\ meter'.written = meter.written
        /\ meter'.discarded = meter.discarded + (buf[b].size - buf[b].done)
    BY <1>1, <1>2 DEF Discarded, Types
  <2>4. meter'.pending = Area(Left')
    BY <1>2, <1>10, <2>3 DEF AreaInv
  <2>5. meter'.accepted \in Nat /\ meter'.written \in Nat /\ meter'.discarded \in Nat
    BY <1>2, <1>4, <2>3 DEF AreaInv
  <2>6. QED
    BY <2>1, <2>2, <2>4, <2>5 DEF AreaInv, Area
<1>13. QED
  BY <1>8, <1>9, <1>12

(* release_buffer.                                                         *)
LEMMA SettleReleaseStep ==
    ASSUME WriterInv, NEW w \in Workers, Settle(w), wk[w].result # "space" PROVE WriterInv'
<1> DEFINE b == wk[w].item
           f == buf[b].file
           t == Resting(wk[w].again)
<1>0. /\ Releases(w, b, f) /\ f \in Files
      /\ buf' \in [Buffers -> BufferStates] /\ file' \in [Files -> FileStates]
      /\ JobOf[f] \in err \/ buf[b].done = buf[b].size
  BY ReleaseEffect, Zenon
<1>1. /\ wk[w].pc = "settle" /\ SettleGate(b, wk[w].result)
      /\ WakeIf(Notifies(b, wk[w].result))
  BY Zenon DEF Settle
<1>2. b \in Buffers
  BY <1>0, Zenon DEF Releases
<1>3. /\ buf[b].at = "held" /\ buf[b] \in BufferStates /\ buf[b].size > 0
      /\ file[f] \in FileStates /\ JobOf[f] \in Jobs /\ b \in Items /\ b # None
      /\ ~file[f].queued /\ ~file[f].closed /\ f \in Items /\ f # None /\ f \notin Buffers
  BY <1>2, HeldFacts, WriterAssumption DEF Items
<1>4. Types
  BY DEF WriterInv
<1>5. wk[w].again \in BOOLEAN
  BY <1>4 DEF Types, Threads
<1>6. /\ t \in Threads /\ t.item = None /\ t.pc \notin Serves /\ ~t.again
      /\ (Searching(t) <=> wk[w].again)
  BY <1>5, RestingFacts, Zenon
<1>7. /\ wk' = [wk EXCEPT ![w] = t] /\ buf'[b] = FreeBuffer
      /\ \A c \in Buffers : c # b => buf'[c] = buf[c]
      /\ \A g \in Files : g # f => file'[g] = file[g]
      /\ UNCHANGED <<envVars, token, waking, err, prod, retryQ, disk>>
      /\ inflight' = [inflight EXCEPT ![JobOf[f]] = inflight[JobOf[f]] - buf[b].size]
      /\ pending' = [pending EXCEPT ![JobOf[f]] = pending[JobOf[f]] - 1]
      /\ meter' = Discarded(meter, buf[b].size - buf[b].done)
  BY <1>0, Zenon DEF Releases
<1>8. LET new == file'[f]
          old == file[f]
      IN  /\ new.stage = old.stage /\ new.next = old.next /\ new.active = old.active
          /\ new.accepted = old.accepted /\ new.closing = old.closing
          /\ new.closed = old.closed /\ new.handle = old.handle /\ new.tried = old.tried
          /\ new.created = old.created /\ new.failed = old.failed
          /\ \/ /\ new.queued /\ new.closing /\ new.outstanding = 0
                /\ workQ' = Append(workQ, f)
             \/ ~new.queued /\ workQ' = workQ
  BY <1>0, Zenon DEF Releases
<1> HIDE DEF t, f, b
<1>9. wk'[w] = t /\ \A v \in Workers : v # w => wk'[v] = wk[v]
  BY <1>7, WkFacts
<1>10. \A v \in Workers : wk[v].item = b => v = w
  BY <1>3 DEF WriterInv, PlaceInv, b
<1>11. Types'
  <2>1. posted' \in BOOLEAN /\ packet' \in BOOLEAN
    BY <1>1, <1>4, NotifiesBoolean, WakeTypes
  <2>2. gate' \in GateRecords /\ lease' \subseteq Items
    BY <1>1, <1>3, <1>4, SettleGateTypes
  <2>3. wk' \in [Workers -> Threads]
    BY <1>4, <1>6, <1>7, WkTypes
  <2>4. buf[b].size \in Nat /\ buf[b].done \in Nat
    BY <1>3 DEF BufferStates
  <2>5. /\ inflight[JobOf[f]] - buf[b].size \in Int /\ pending[JobOf[f]] - 1 \in Int
        /\ meter.discarded + (buf[b].size - buf[b].done) \in Int
        /\ meter.pending - (buf[b].size - buf[b].done) \in Int
    BY <1>3, <1>4, <2>4 DEF Types
  <2>6. pending' \in [Jobs -> Int] /\ inflight' \in [Jobs -> Int]
    BY <1>3, <1>4, <1>7, <2>5 DEF Types
  <2>7. meter' \in [accepted : Int, written : Int, discarded : Int, pending : Int]
    BY <1>4, <1>7, <2>5 DEF Types, Discarded
  <2>8. QED
    BY <1>0, <1>4, <1>7, <2>1, <2>2, <2>3, <2>6, <2>7 DEF Types, envVars
<1>12. f \notin ToSet(workQ) \cup ToSet(retryQ) /\ \A v \in Workers : wk[v].item # f
  <2>1. f \notin Closing
    BY <1>0, <1>3 DEF WriterInv, CloseInv
  <2>2. QED
    BY <2>1 DEF Closing
<1>13. Queues /\ Placed
  BY PlaceParts DEF WriterInv
<1>14. \/ /\ file'[f].queued /\ Queues' /\ ToSet(workQ') = ToSet(workQ) \cup {f}
       \/ ~file'[f].queued /\ Queues' /\ ToSet(workQ') = ToSet(workQ)
  <2>1. CASE workQ' = Append(workQ, f)
    <3>1. workQ' \in Seq(Items) /\ Once(workQ') /\ ToSet(workQ') = ToSet(workQ) \cup {f}
      BY <1>3, <1>12, <1>13, <2>1, AppendFacts DEF Queues
    <3>2. Queues'
      BY <1>7, <1>13, <3>1 DEF Queues
    <3>3. file'[f].queued \/ workQ' = workQ
      BY <1>8
    <3>4. workQ' # workQ
      BY <1>12, <3>1
    <3>5. QED
      BY <3>1, <3>2, <3>3, <3>4
  <2>2. CASE workQ' = workQ /\ ~file'[f].queued
    BY <1>7, <1>13, <2>2 DEF Queues
  <2>3. QED
    BY <1>8, <2>1, <2>2
<1>15. ToSet(retryQ') = ToSet(retryQ)
  BY <1>7
<1>16. buf'[b].at = "free"
  BY <1>7 DEF FreeBuffer
<1>17. PlaceInv'
  <2>1. CASE file'[f].queued
    <3>1. \A v \in Workers : wk'[v].item # f /\ wk'[v].item # b
      BY <1>3, <1>6, <1>9, <1>10, <1>12
    <3>2. QED
      BY <1>3, <1>6, <1>7, <1>9, <1>12, <1>14, <1>15, <1>16, <2>1, <3>1, PlaceWork
  <2>2. CASE ~file'[f].queued
    <3>1. t.pc \notin {"open", "submit", "settle", "copen", "csettle"}
      BY <1>6 DEF Serves
    <3>2. \A c \in Buffers : \/ buf'[c].at = buf[c].at
                             \/ /\ buf[c].at \notin {"queue", "retry"}
                                /\ buf'[c].at \notin {"queue", "retry"}
                                /\ c = wk[w].item /\ t.item = None
      BY <1>3, <1>6, <1>7, <1>16 DEF b
    <3>3. QED
      BY <1>6, <1>7, <1>14, <1>15, <2>2, <3>1, <3>2, PlaceThread
  <2>3. QED
    BY <2>1, <2>2
<1>18. CloseInv'
  <2>1. \A g \in Files : g \in Closing' => g \in Closing \/ (g = f /\ file'[f].queued)
    <3>1. None \notin Files
      BY WriterAssumption
    <3>2. QED
      BY <1>6, <1>9, <1>14, <1>15, <3>1 DEF Closing
  <2>2. f \notin Closing
    BY <1>12 DEF Closing
  <2>3. /\ \A g \in Files : g # f /\ g \in Closing' => g \in Closing
        /\ f \in Closing' => file'[f].queued
    BY <1>0, <2>1, <2>2
  <2>4. ~file'[f].closed /\ (file'[f].queued => file'[f].closing /\ file'[f].outstanding = 0)
    BY <1>3, <1>8
  <2>5. QED
    BY <1>0, <1>7, <2>3, <2>4, CloseGains
<1>19. CountInv' /\ AreaInv' /\ \A j \in Jobs : prod[j].pc = "done" => pending'[j] = 0
  BY <1>0, <1>2, ReleaseAccounts DEF f, b
<1>20. \A g \in Files : /\ file'[g].stage = file[g].stage /\ file'[g].next = file[g].next
                        /\ file'[g].accepted = file[g].accepted
                        /\ file'[g].closing = file[g].closing
  BY <1>7, <1>8
<1>21. StageInv' /\ DecoderInv'
  <2>1. \A c \in Buffers : \/ buf'[c] = buf[c] \/ Moved(c)
                           \/ buf'[c] = FreeBuffer /\ buf[c].at # "stage"
    BY <1>3, <1>7
  <2>2. \A c \in Buffers : buf[c].at = "stage" => buf'[c] = buf[c]
    BY <1>3, <1>7
  <2>3. prod' = prod /\ err' = err
    BY <1>7
  <2>4. StageInv'
    BY <1>20, <2>1, <2>3, StageKeeps
  <2>5. QED
    BY <1>19, <1>20, <2>2, <2>3, <2>4, DecoderKeeps
<1>22. DiskInv'
  <2>1. buf[b].file = f
    BY DEF f
  <2>2. QED
    BY <1>0, <1>2, <1>7, <1>20, <2>1, FreeDisk
<1>23. ErrInv'
  <2>1. \A g \in Files : Remembers(g)
    BY <1>7, <1>8 DEF Remembers
  <2>2. \A v \in Workers : v # w /\ wk[v].item \in Buffers =>
            /\ buf'[wk[v].item].file = buf[wk[v].item].file
            /\ buf'[wk[v].item].size = buf[wk[v].item].size
            /\ buf'[wk[v].item].done = buf[wk[v].item].done
    BY <1>7, <1>10
  <2>3. t.pc \notin {"settle", "csettle"} /\ err \subseteq err' /\ wk' = [wk EXCEPT ![w] = t]
    BY <1>6, <1>7 DEF Serves
  <2>4. QED
    BY <2>1, <2>2, <2>3, ErrThread
<1>24. WakeInv'
  <2>1. CASE Notifies(b, wk[w].result)
    <3>1. WakeIf(TRUE)
      BY <1>1, <2>1, NotifiesBoolean DEF WakeIf
    <3>2. QED
      BY <1>1, <1>6, <1>7, <3>1, WakeThread
  <2>2. CASE ~Notifies(b, wk[w].result)
    <3>1. gate'.phase = gate.phase /\ gate'.owner = gate.owner
      BY <1>1, <1>3, <2>2, SettleGateSame
    <3>2. ASSUME NEW y \in ToSet(retryQ) PROVE Owner(y)' = Owner(y)
      <4>1. y \in Files \/ y \in Buffers
        BY ItemFacts DEF Items
      <4>2. y # b
        BY <1>3, <1>13 DEF Placed, b
      <4>3. FileOf(y)' = FileOf(y)
        BY <1>7, <4>1, <4>2 DEF FileOf
      <4>4. QED
        BY <4>3 DEF Owner
    <3>3. ASSUME NEW y \in ToSet(retryQ), Due(y)' PROVE Due(y)
      <4>1. (Owner(y) \in token)' <=> (Owner(y) \in token)
        BY <1>7, <3>2
      <4>2. QED
        BY <3>1, <3>3, <4>1 DEF Due, Decision
    <3>4. (packet => packet') /\ (posted' => posted \/ packet')
      BY <1>1, WakeIfFacts
    <3>5. Searching(wk[w]) => Searching(t)
      BY <1>1, <1>6 DEF Searching
    <3>6. /\ \A v \in Workers : wk[v].pc = "ack" => wk'[v].pc = "ack"
          /\ \A v \in Workers : Searching(wk[v]) => Searching(wk'[v])
          /\ \A v \in Workers : wk'[v].pc = "idle" => ~wk'[v].again
      BY <1>1, <1>6, <1>9, <3>5 DEF WriterInv, WakeInv
    <3>7. QED
      BY <1>7, <3>3, <3>4, <3>6, WakeKeeps
  <2>3. QED
    BY <2>1, <2>2
<1>25. QED
  BY <1>11, <1>17, <1>18, <1>19, <1>21, <1>22, <1>23, <1>24 DEF WriterInv

-----------------------------------------------------------------------------
(* Parking, and the end of a close.                                        *)

(* Thread w parks its item and rests.                                      *)
LEMMA PlacePark ==
    ASSUME WriterInv, NEW w \in Workers, NEW x \in Items, wk[w].item = x, Queues',
           NEW t \in Threads, wk' = [wk EXCEPT ![w] = t], t.item = None, t.pc \notin Serves,
           ToSet(workQ') = ToSet(workQ), ToSet(retryQ') = ToSet(retryQ) \cup {x},
           x \in Buffers => buf'[x].at = "retry",
           \A b \in Buffers : b # x => buf'[b].at = buf[b].at
    PROVE  PlaceInv'
<1>1. Placed /\ None \notin Items /\ None \notin ToSet(workQ) \cup ToSet(retryQ)
  BY PlaceParts, ItemFacts DEF WriterInv, Types
<1>2. wk'[w] = t /\ \A v \in Workers : v # w => wk'[v] = wk[v]
  BY WkFacts
<1>3. \A v \in Workers : wk'[v].item # x
  BY <1>1, <1>2 DEF Placed
<1>4. Placed'
  <2>1. \A b \in Buffers : /\ b \in ToSet(workQ') <=> buf'[b].at = "queue"
                           /\ b \in ToSet(retryQ') <=> buf'[b].at = "retry"
    BY <1>1 DEF Placed
  <2>2. ASSUME NEW v \in Workers
        PROVE  /\ wk'[v].pc \in Serves <=> wk'[v].item # None
               /\ wk'[v].pc \in {"open", "submit", "settle"} => wk'[v].item \in Buffers
               /\ wk'[v].pc \in {"copen", "csettle"} => wk'[v].item \in Files
               /\ wk'[v].item \notin ToSet(workQ') \cup ToSet(retryQ')
               /\ wk'[v].item \in Buffers => buf'[wk'[v].item].at = "held"
    <3>1. CASE v = w
      BY <1>1, <1>2, <3>1, WriterAssumption DEF Serves, Items
    <3>2. CASE v # w
      BY <1>1, <1>2, <1>3, <3>2 DEF Placed
    <3>3. QED
      BY <3>1, <3>2
  <2>3. \A u, v \in Workers : wk'[u].item = wk'[v].item /\ wk'[v].item # None => u = v
    BY <1>1, <1>2 DEF Placed
  <2>4. ToSet(workQ') \cap ToSet(retryQ') = {}
    BY <1>1 DEF Placed
  <2>5. QED
    BY <2>1, <2>2, <2>3, <2>4 DEF Placed
<1>5. QED
  BY <1>4 DEF PlaceInv, Queues, Placed

LEMMA DeferStep ==
    ASSUME WriterInv, NEW w \in Workers, Defer(w) PROVE WriterInv'
<1> DEFINE x == wk[w].item
           t == Resting(wk[w].again)
<1>0. /\ wk[w].pc = "defer" /\ retryQ' = Append(retryQ, x) /\ WakeIf(TRUE)
      /\ buf' = IF x \in Files THEN buf ELSE [buf EXCEPT ![x].at = "retry"]
      /\ wk' = [wk EXCEPT ![w] = t]
      /\ UNCHANGED <<gate, envVars, jobVars, file, workQ, lease, disk, meter>>
  BY DEF Defer, WriterInv, Types
<1>1. Types /\ Queues /\ Placed
  BY PlaceParts DEF WriterInv
<1>2. x \in Items /\ x \notin ToSet(workQ) \cup ToSet(retryQ)
  <2>1. x # None /\ x \notin ToSet(workQ) \cup ToSet(retryQ)
    BY <1>0, <1>1 DEF Placed, Serves
  <2>2. x \in Items \cup {None}
    BY <1>1 DEF Types, Threads
  <2>3. QED
    BY <2>1, <2>2
<1>3. wk[w].again \in BOOLEAN
  BY <1>1 DEF Types, Threads
<1>4. t \in Threads /\ t.item = None /\ t.pc \notin Serves /\ ~t.again
  BY <1>3, RestingFacts
<1>5. /\ SameData /\ buf' \in [Buffers -> BufferStates]
      /\ x \in Buffers => buf'[x].at = "retry" /\ buf[x].at = "held"
      /\ \A b \in Buffers : b # x => buf'[b] = buf[b]
  <2>1. CASE x \in Files
    <3>1. buf' = buf /\ x \notin Buffers
      BY <1>0, <2>1, ItemFacts
    <3>2. QED
      BY <1>1, <3>1 DEF SameData, Types
  <2>2. CASE x \notin Files
    <3>1. x \in Buffers /\ buf[x].at = "held"
      BY <1>1, <1>2, <2>2 DEF Items, Placed
    <3>2. buf' = [buf EXCEPT ![x].at = "retry"]
      BY <1>0, <2>2
    <3>3. QED
      BY <3>1, <3>2, MoveFacts DEF Lives
  <2>3. QED
    BY <2>1, <2>2
<1>6. /\ Queues' /\ ToSet(workQ') = ToSet(workQ) /\ ToSet(retryQ') = ToSet(retryQ) \cup {x}
  <2>1. retryQ' \in Seq(Items) /\ Once(retryQ') /\ ToSet(retryQ') = ToSet(retryQ) \cup {x}
    BY <1>0, <1>1, <1>2, AppendFacts DEF Queues
  <2>2. QED
    BY <1>0, <1>1, <2>1 DEF Queues
<1>7. Types'
  <2>1. posted' \in BOOLEAN /\ packet' \in BOOLEAN
    BY <1>0, <1>1, WakeTypes
  <2>2. wk' \in [Workers -> Threads]
    BY <1>0, <1>1, <1>4, WkTypes
  <2>3. QED
    BY <1>0, <1>1, <1>5, <2>1, <2>2 DEF Types, envVars, jobVars
<1>8. PlaceInv'
  BY <1>0, <1>2, <1>4, <1>5, <1>6, PlacePark
<1> HIDE DEF t
<1>9. wk'[w] = t /\ \A v \in Workers : v # w => wk'[v] = wk[v]
  BY <1>0, WkFacts
<1>10. CloseInv'
  <2>1. Closing' \cap Files \subseteq Closing
    <3>1. None \notin Files
      BY WriterAssumption
    <3>2. QED
      BY <1>4, <1>6, <1>9, <3>1 DEF Closing
  <2>2. QED
    BY <1>0, <2>1, CloseFrame
<1>11. StageInv' /\ DecoderInv' /\ CountInv' /\ AreaInv' /\ DiskInv'
  <2>1. Still
    BY <1>0, <1>5 DEF Still, SameShape, jobVars
  <2>2. \A b \in Buffers : buf'[b].at = "io" <=> buf[b].at = "io"
    BY <1>5
  <2>3. QED
    BY <1>0, <1>5, <2>1, <2>2, IOFrame, StillFrame
<1>12. ErrInv'
  <2>1. t.pc \notin {"settle", "csettle"}
    BY <1>4 DEF Serves
  <2>2. QED
    BY <1>0, <1>5, <1>9, <2>1, ErrFrame DEF jobVars
<1>13. WakeInv'
  BY <1>0, <1>4, WakeThread
<1>14. QED
  BY <1>7, <1>8, <1>10, <1>11, <1>12, <1>13 DEF WriterInv

(* A close that is being settled was not given up before.                  *)
ResultInv ==
    \A w \in Workers : wk[w].pc \in {"copen", "csettle"} => wk[w].result # "terminal"

(* The buffers, and with them what is on its way, are as they were.        *)
LEMMA DiskKeeps ==
    ASSUME WriterInv, buf' = buf, disk' = disk, err \subseteq err',
           \A g \in Files : file'[g].next = file[g].next
    PROVE  DiskInv'
<1>1. DiskInv /\ \A c \in Buffers : Live(c) => buf[c].file \in Files
  BY DEF WriterInv, StageInv, Live
<1>2. \A c \in Buffers : (Live(c)' <=> Live(c)) /\ \A u : Missing(c, u)' <=> Missing(c, u)
  BY DEF Live, Missing
<1>3. ASSUME NEW g \in Files, JobOf[g] \notin err', NEW u \in Units(g),
             u < file'[g].next, disk'[g][u] = 0
      PROVE  \E c \in Buffers : Live(c)' /\ buf'[c].file = g /\ Missing(c, u)'
  <2>1. PICK c \in Buffers : Live(c) /\ buf[c].file = g /\ Missing(c, u)
    BY <1>1, <1>3 DEF DiskInv
  <2>2. QED
    BY <1>2, <2>1
<1>4. \A c \in Buffers : Live(c)' =>
          /\ buf'[c].offset + buf'[c].size <= file'[buf'[c].file].next
          /\ \A u \in Units(buf'[c].file) : Missing(c, u)' => disk'[buf'[c].file][u] = 0
  BY <1>1, <1>2 DEF DiskInv
<1>5. \A c, d \in Buffers : Live(c)' /\ Live(d)' /\ buf'[c].file = buf'[d].file /\ c # d =>
          \/ buf'[c].offset + buf'[c].size <= buf'[d].offset
          \/ buf'[d].offset + buf'[d].size <= buf'[c].offset
  BY <1>1, <1>2 DEF DiskInv
<1>6. \A g \in Files : /\ disk'[g] \in [Units(g) -> 0 .. 1]
                       /\ \A u \in Units(g) : u >= file'[g].next => disk'[g][u] = 0
  BY <1>1 DEF DiskInv
<1>7. disk' \in [Files -> UNION {[Units(g) -> Nat] : g \in Files}]
  BY <1>1 DEF DiskInv
<1>8. QED
  BY <1>3, <1>4, <1>5, <1>6, <1>7 DEF DiskInv, Units

LEMMA AreaKeeps ==
    ASSUME WriterInv, buf' = buf, meter' = meter, inflight' = inflight,
           \A g \in Files : file'[g].inflight = file[g].inflight /\ Reserved(g)' = Reserved(g),
           \A j \in Jobs : prod'[j].chunk = prod[j].chunk
    PROVE  AreaInv'
<1>1. AreaInv
  BY DEF WriterInv
<1>2. \A g \in Files : OfFile(g)' = OfFile(g)
  BY DEF OfFile
<1>3. \A j \in Jobs : OfJob(j)' = OfJob(j)
  BY DEF OfJob
<1>4. Left' = Left
  BY DEF Left
<1>5. QED
  BY <1>1, <1>2, <1>3, <1>4 DEF AreaInv, Area

(* process_close on a file that is to be created on a full volume.         *)
LEMMA CloseSettleSpace ==
    ASSUME WriterInv, NEW w \in Workers, CloseSettle(w),
           ~Terminal(JobOf[wk[w].item]), wk[w].result = "space"
    PROVE  WriterInv'
<1> DEFINE f == wk[w].item
           j == JobOf[f]
           t == [wk[w] EXCEPT !.pc = "defer"]
<1>0. /\ wk[w].pc = "csettle" /\ SettleGate(f, "space")
      /\ WakeIf(Notifies(f, "space") \/ FALSE)
      /\ err' = Synchronized({j}) \cup {}
      /\ wk' = [wk EXCEPT ![w].pc = "defer"]
      /\ UNCHANGED <<file, pending>>
      /\ UNCHANGED <<envVars, token, waking, inflight, prod, buf, workQ, retryQ, disk, meter>>
  BY DEF CloseSettle
<1>1. f \in Files /\ f \in Items /\ f # None
  BY <1>0, WriterAssumption DEF WriterInv, PlaceInv, Items
<1>2. Types
  BY DEF WriterInv
<1>3. wk' = [wk EXCEPT ![w] = t]
  BY <1>0, <1>2 DEF Types
<1>4. t \in Threads /\ t.pc = "defer" /\ t.item = f /\ t.again = wk[w].again
  BY OnwardFacts DEF Serves
<1>5. err \subseteq err' /\ err' \subseteq Jobs
  BY <1>0, <1>2 DEF Synchronized, Types
<1> HIDE DEF t, f, j
<1>6. PlaceInv' /\ CloseInv' /\ StageInv' /\ DecoderInv' /\ CountInv' /\ AreaInv'
      /\ DiskInv' /\ ErrInv'
  <2>1. t.pc \in Serves /\ t.item # None /\ t.item = wk[w].item
        /\ t.pc \notin {"open", "submit", "copen", "settle", "csettle"}
    BY <1>1, <1>4 DEF Serves, f
  <2>2. QED
    BY <1>0, <1>3, <1>4, <1>5, <2>1, QuietThread
<1>7. Types'
  <2>1. posted' \in BOOLEAN /\ packet' \in BOOLEAN
    <3>1. (Notifies(f, "space") \/ FALSE) \in BOOLEAN
      OBVIOUS
    <3>2. QED
      BY <1>0, <1>2, <3>1, WakeTypes
  <2>2. gate' \in GateRecords /\ lease' \subseteq Items
    BY <1>0, <1>1, <1>2, SettleGateTypes
  <2>3. wk' \in [Workers -> Threads]
    BY <1>2, <1>3, <1>4, WkTypes
  <2>4. QED
    BY <1>0, <1>2, <1>5, <2>1, <2>2, <2>3 DEF Types, envVars
<1>8. WakeInv'
  <2>1. (packet => packet') /\ (posted' => posted \/ packet')
    BY <1>0, WakeIfFacts
  <2>2. Searching(t)
    BY <1>4 DEF Searching
  <2>3. QED
    BY <1>0, <1>3, <1>4, <2>1, <2>2, WakeSearching
<1>9. QED
  BY <1>6, <1>7, <1>8 DEF WriterInv

(* A file that was to be closed is closed.                                 *)
LEMMA EndCounts ==
    ASSUME WriterInv, NEW f \in Files, file[f].closing, ~file[f].closed, buf' = buf,
           file'[f].closed, \A g \in Files : g # f => file'[g] = file[g],
           \A g \in Files : /\ file'[g].outstanding = file[g].outstanding
                            /\ file'[g].active = file[g].active,
           pending' = [pending EXCEPT ![JobOf[f]] = pending[JobOf[f]] - 1]
    PROVE  CountInv' /\ pending[JobOf[f]] # 0
<1>1. PICK j \in Jobs : j = JobOf[f]
  BY WriterAssumption
<1>2. /\ IsFiniteSet(Files) /\ Ending(j) \in SUBSET Files /\ f \in Ending(j)
      /\ IsFiniteSet(Buffers) /\ Holding(j) \in SUBSET Buffers
  BY <1>1, WriterAssumption DEF Ending, Holding
<1>3. Ending(j)' = Ending(j) \ {f}
  BY DEF Ending
<1>4. \A k \in Jobs : k # j => Ending(k)' = Ending(k)
  BY <1>1 DEF Ending
<1>5. /\ Cardinality(Ending(j) \ {f}) = Cardinality(Ending(j)) - 1
      /\ Cardinality(Ending(j)) \in Nat /\ Cardinality(Ending(j)) # 0
      /\ Cardinality(Holding(j)) \in Nat
  BY <1>2, Sizes
<1>6. \A k \in Jobs : Holding(k)' = Holding(k)
  BY DEF Holding
<1>7. \A g \in Files : Filled(g)' = Filled(g) /\ InIO(g)' = InIO(g)
  BY DEF Filled, InIO
<1>8. CountInv /\ Types
  BY DEF WriterInv
<1>9. pending[j] = Cardinality(Holding(j)) + Cardinality(Ending(j))
  BY <1>8 DEF CountInv
<1>10. pending[j] - 1 = Cardinality(Holding(j)') + Cardinality(Ending(j)')
  BY <1>3, <1>5, <1>6, <1>9
<1>11. \A k \in Jobs : pending'[k] = Cardinality(Holding(k)') + Cardinality(Ending(k)')
  <2>1. ASSUME NEW k \in Jobs
        PROVE  pending'[k] = Cardinality(Holding(k)') + Cardinality(Ending(k)')
    <3>1. CASE k = j
      BY <1>1, <1>8, <1>10, <3>1 DEF Types
    <3>2. CASE k # j
      BY <1>1, <1>4, <1>6, <1>8, <3>2 DEF Types, CountInv
    <3>3. QED
      BY <3>1, <3>2
  <2>2. QED
    BY <2>1
<1>12. QED
  BY <1>1, <1>5, <1>7, <1>8, <1>9, <1>11 DEF CountInv

(* process_close on a file that is closed, created or given up.            *)
LEMMA CloseSettleDone ==
    ASSUME WriterInv, ResultInv, NEW w \in Workers, CloseSettle(w),
           Terminal(JobOf[wk[w].item]) \/ wk[w].result # "space"
    PROVE  WriterInv'
<1> DEFINE f == wk[w].item
           j == JobOf[f]
           r == IF Terminal(j) THEN "terminal" ELSE wk[w].result
           bad == r = "permanent"
           t == Resting(wk[w].again)
           fl == [file[f] EXCEPT !.handle = FALSE, !.closed = TRUE,
                                 !.failed = file[f].failed \/ bad]
<1>0. r # "space" /\ bad \in BOOLEAN
  OBVIOUS
<1>1. /\ wk[w].pc = "csettle" /\ SettleGate(f, r) /\ WakeIf(Notifies(f, r) \/ bad)
      /\ err' = Synchronized({j}) \cup (IF bad THEN {j} ELSE {})
      /\ UNCHANGED <<envVars, token, waking, inflight, prod, buf, workQ, retryQ, disk, meter>>
  BY SMTT(60) DEF CloseSettle
<1>2. /\ wk' = [wk EXCEPT ![w] = Resting(@.again)]
      /\ file' = [file EXCEPT ![f].handle = FALSE, ![f].closed = TRUE,
                              ![f].failed = @ \/ bad]
      /\ pending' = [pending EXCEPT ![j] = @ - 1]
  BY <1>0 DEF CloseSettle
<1>3. f \in Files
  BY <1>1 DEF WriterInv, PlaceInv
<1>4. /\ file[f] \in FileStates /\ j \in Jobs /\ f \in Items /\ f \notin Buffers
      /\ f # None /\ file[f].queued /\ file[f].closing /\ ~file[f].closed
      /\ file[f].outstanding = 0
  BY <1>3, CloserFacts
<1>5. Types
  BY DEF WriterInv
<1>6. /\ wk' = [wk EXCEPT ![w] = t] /\ file' = [file EXCEPT ![f] = fl]
      /\ pending' = [pending EXCEPT ![j] = pending[j] - 1]
  BY <1>2, <1>3, <1>4, <1>5 DEF Types, FileStates
<1>7. /\ fl \in FileStates /\ fl.stage = file[f].stage /\ fl.next = file[f].next
      /\ fl.inflight = file[f].inflight /\ fl.outstanding = file[f].outstanding
      /\ fl.active = file[f].active /\ fl.accepted = file[f].accepted
      /\ fl.tried = file[f].tried /\ fl.created = file[f].created
      /\ fl.closing = file[f].closing /\ fl.queued = file[f].queued
      /\ fl.closed /\ ~fl.handle /\ (fl.failed <=> file[f].failed \/ bad)
  BY <1>0, <1>4 DEF FileStates
<1>8. wk[w].again \in BOOLEAN /\ wk[w].result \in {"ok", "space", "permanent", "terminal"}
  BY <1>5 DEF Types, Threads
<1>9. /\ t \in Threads /\ t.item = None /\ t.pc \notin Serves /\ ~t.again
      /\ (Searching(t) <=> wk[w].again)
  BY <1>8, RestingFacts
<1>10. /\ err \subseteq err' /\ err' \subseteq Jobs /\ (bad => j \in err')
       /\ file[f].created \/ j \in err'
  <2>1. err \subseteq err' /\ err' \subseteq Jobs /\ (bad => j \in err')
    BY <1>1, <1>4, <1>5 DEF Synchronized, Types
  <2>2. CASE Terminal(j)
    BY <1>1, <2>1, <2>2 DEF Terminal, Synchronized
  <2>3. CASE ~Terminal(j) /\ wk[w].result = "ok"
    <3>1. file[f].created \/ file[f].failed
      BY <1>1, <2>3 DEF WriterInv, ErrInv
    <3>2. file[f].failed => j \in err
      BY <1>3 DEF WriterInv, ErrInv
    <3>3. QED
      BY <2>1, <3>1, <3>2
  <2>4. CASE ~Terminal(j) /\ wk[w].result = "permanent"
    BY <2>1, <2>4
  <2>5. wk[w].result # "terminal"
    BY <1>1 DEF ResultInv
  <2>6. QED
    BY <1>0, <1>8, <2>1, <2>2, <2>3, <2>4, <2>5
<1>11. \A v \in Workers : v # w => wk[v].item # f
  BY <1>4 DEF WriterInv, PlaceInv
<1> HIDE DEF t, fl, r, bad, j, f
<1>12. wk'[w] = t /\ \A v \in Workers : v # w => wk'[v] = wk[v]
  BY <1>6, WkFacts
<1>13. file'[f] = fl /\ \A g \in Files : g # f => file'[g] = file[g]
  BY <1>3, <1>5, <1>6 DEF Types
<1>14. Types'
  <2>1. posted' \in BOOLEAN /\ packet' \in BOOLEAN
    <3>1. (Notifies(f, r) \/ bad) \in BOOLEAN
      OBVIOUS
    <3>2. QED
      BY <1>1, <1>5, <3>1, WakeTypes
  <2>2. gate' \in GateRecords /\ lease' \subseteq Items
    BY <1>1, <1>4, <1>5, SettleGateTypes
  <2>3. wk' \in [Workers -> Threads]
    BY <1>5, <1>6, <1>9, WkTypes
  <2>4. pending[j] - 1 \in Int
    BY <1>4, <1>5 DEF Types
  <2>5. pending' \in [Jobs -> Int] /\ file' \in [Files -> FileStates]
    BY <1>4, <1>5, <1>6, <1>7, <2>4 DEF Types
  <2>6. QED
    BY <1>1, <1>5, <1>10, <2>1, <2>2, <2>3, <2>5 DEF Types, envVars
<1>15. Queues' /\ ToSet(workQ') = ToSet(workQ) /\ ToSet(retryQ') = ToSet(retryQ)
  BY <1>1, PlaceParts DEF WriterInv, Queues, Once, ToSet
<1>16. PlaceInv'
  <2>1. t.pc \notin {"open", "submit", "settle", "copen", "csettle"}
    BY <1>9 DEF Serves
  <2>2. \A b \in Buffers : buf'[b].at = buf[b].at
    BY <1>1
  <2>3. QED
    BY <1>6, <1>9, <1>15, <2>1, <2>2, PlaceThread
<1>17. CloseInv'
  <2>1. f \notin ToSet(workQ) \cup ToSet(retryQ)
    BY DEF WriterInv, PlaceInv, f
  <2>2. f \notin Closing' /\ \A g \in Files : g \in Closing' => g \in Closing
    BY <1>3, <1>4, <1>9, <1>11, <1>12, <1>15, <2>1, WriterAssumption DEF Closing
  <2>3. CloseInv
    BY DEF WriterInv
  <2>4. ASSUME NEW g \in Files
        PROVE  /\ g \in Closing' => file'[g].queued /\ ~file'[g].closed
               /\ file'[g].queued => file'[g].closing /\ file'[g].outstanding = 0
               /\ file'[g].closed => file'[g].queued /\ ~file'[g].handle
    <3>1. CASE g = f
      BY <1>4, <1>7, <1>13, <2>2, <3>1
    <3>2. CASE g # f
      BY <1>13, <2>2, <2>3, <3>2 DEF CloseInv
    <3>3. QED
      BY <3>1, <3>2
  <2>5. QED
    BY <2>4 DEF CloseInv
<1>18. \A g \in Files : /\ file'[g].stage = file[g].stage /\ file'[g].next = file[g].next
                        /\ file'[g].accepted = file[g].accepted
                        /\ file'[g].closing = file[g].closing
                        /\ file'[g].inflight = file[g].inflight
                        /\ file'[g].outstanding = file[g].outstanding
                        /\ file'[g].active = file[g].active
  BY <1>7, <1>13
<1>19. CountInv' /\ pending[j] # 0
  BY <1>1, <1>3, <1>4, <1>6, <1>7, <1>13, <1>18, EndCounts, ZenonT(60) DEF j
<1>20. StageInv'
  BY <1>1, <1>18, StageKeeps
<1>21. DecoderInv'
  <2>1. \A k \in Jobs : prod[k].pc = "done" => pending'[k] = 0
    BY <1>4, <1>5, <1>6, <1>19 DEF WriterInv, DecoderInv, Types
  <2>2. QED
    BY <1>1, <1>10, <1>18, <2>1, DecoderKeeps
<1>22. AreaInv'
  <2>1. \A g \in Files : Reserved(g)' = Reserved(g)
    BY <1>1 DEF Reserved
  <2>2. QED
    BY <1>1, <1>18, <2>1, AreaKeeps
<1>23. DiskInv'
  BY <1>1, <1>10, <1>18, DiskKeeps
<1>24. ErrInv'
  <2>1. \A g \in Files : Remembers(g)
    <3>1. Remembers(f)
      BY <1>7, <1>10, <1>13 DEF Remembers, j
    <3>2. \A g \in Files : g # f => Remembers(g)
      BY <1>13 DEF Remembers
    <3>3. QED
      BY <3>1, <3>2
  <2>2. t.pc \notin {"settle", "csettle"}
    BY <1>9 DEF Serves
  <2>3. QED
    BY <1>1, <1>6, <1>10, <2>1, <2>2, ErrThread
<1>25. WakeInv'
  <2>1. CASE Notifies(f, r) \/ bad
    <3>1. WakeIf(TRUE)
      BY <1>1, <2>1 DEF WakeIf
    <3>2. QED
      BY <1>1, <1>6, <1>9, <3>1, WakeThread
  <2>2. CASE ~(Notifies(f, r) \/ bad)
    <3>1. gate'.phase = gate.phase /\ gate'.owner = gate.owner
      BY <1>1, <1>4, <2>2, SettleGateSame
    <3>2. \A y \in ToSet(retryQ) : Owner(y)' = Owner(y)
      BY <1>1 DEF Owner, FileOf
    <3>3. ASSUME NEW y \in ToSet(retryQ), Due(y)' PROVE Due(y)
      <4>1. (Owner(y) \in token)' <=> (Owner(y) \in token)
        BY <1>1, <3>2
      <4>2. QED
        BY <3>1, <3>3, <4>1 DEF Due, Decision
    <3>4. (packet => packet') /\ (posted' => posted \/ packet')
      BY <1>1, WakeIfFacts
    <3>5. Searching(wk[w]) => Searching(t)
      BY <1>1, <1>9 DEF Searching
    <3>6. /\ \A v \in Workers : wk[v].pc = "ack" => wk'[v].pc = "ack"
          /\ \A v \in Workers : Searching(wk[v]) => Searching(wk'[v])
          /\ \A v \in Workers : wk'[v].pc = "idle" => ~wk'[v].again
      BY <1>1, <1>9, <1>12, <3>5 DEF WriterInv, WakeInv
    <3>7. QED
      BY <1>1, <3>3, <3>4, <3>6, WakeKeeps
  <2>3. QED
    BY <2>1, <2>2
<1>26. QED
  BY <1>14, <1>16, <1>17, <1>19, <1>20, <1>21, <1>22, <1>23, <1>24, <1>25 DEF WriterInv

LEMMA CloseSettleStep ==
    ASSUME WriterInv, ResultInv, NEW w \in Workers, CloseSettle(w) PROVE WriterInv'
BY CloseSettleSpace, CloseSettleDone

(* Only what a thread does next matters to ResultInv.                      *)
LEMMA ResultThread ==
    ASSUME WriterInv, ResultInv, NEW w \in Workers, NEW t, wk' = [wk EXCEPT ![w] = t],
           t.pc \in {"copen", "csettle"} => t.result # "terminal"
    PROVE  ResultInv'
<1>1. wk'[w] = t /\ \A v \in Workers : v # w => wk'[v] = wk[v]
  BY WkFacts
<1>2. QED
  BY <1>1 DEF ResultInv

LEMMA ResultStep ==
    ASSUME WriterInv, ResultInv, NEW w \in Workers,
           \/ TakeWork(w) \/ TakeRetry(w) \/ WorkerStep(w)
           \/ \E b \in Buffers : Complete(w, b)
    PROVE  ResultInv'
<1>0. wk \in [Workers -> Threads] /\ wk[w] \in Threads /\ wk[w].again \in BOOLEAN
  BY DEF WriterInv, Types, Threads
<1>1. ASSUME NEW t, wk' = [wk EXCEPT ![w] = t], t.pc \notin {"copen", "csettle"}
      PROVE  ResultInv'
  BY <1>1, ResultThread
<1>2. ASSUME NEW p, NEW x, NEW again, wk' = [wk EXCEPT ![w] = Thread(p, x, "ok", again)]
      PROVE  ResultInv'
  <2>1. Thread(p, x, "ok", again).result # "terminal"
    BY DEF Thread
  <2>2. QED
    BY <1>2, <2>1, ResultThread
<1>3. ASSUME NEW p \in {"ack", "scan", "defer"}, wk' = [wk EXCEPT ![w].pc = p]
      PROVE  ResultInv'
  <2> DEFINE t == [wk[w] EXCEPT !.pc = p]
  <2>1. wk' = [wk EXCEPT ![w] = t]
    BY <1>0, <1>3
  <2>2. t.pc = p
    BY <1>0 DEF Threads
  <2>3. QED
    BY <1>1, <2>1, <2>2
<1>4. ASSUME NEW p \in {"submit", "settle"}, NEW r,
             wk' = [wk EXCEPT ![w].pc = p, ![w].result = r]
      PROVE  ResultInv'
  <2> DEFINE t == [wk[w] EXCEPT !.pc = p, !.result = r]
  <2>1. wk' = [wk EXCEPT ![w] = t]
    BY <1>0, <1>4
  <2>2. t.pc = p
    BY <1>0 DEF Threads
  <2>3. QED
    BY <1>1, <2>1, <2>2
<1>5. ASSUME NEW again \in BOOLEAN, wk' = [wk EXCEPT ![w] = Resting(again)]
      PROVE  ResultInv'
  <2>1. Resting(again).pc \notin {"copen", "csettle"}
    BY RestingFacts
  <2>2. QED
    BY <1>1, <1>5, <2>1
<1>6. wk' = [wk EXCEPT ![w] = Resting(@.again)] => ResultInv'
  <2>1. wk' = [wk EXCEPT ![w] = Resting(@.again)] => wk' = [wk EXCEPT ![w] = Resting(wk[w].again)]
    BY <1>0
  <2>2. QED
    BY <1>0, <1>5, <2>1
<1>7. CASE TakeWork(w)
  BY <1>2, <1>7, ZenonT(60) DEF TakeWork
<1>8. CASE TakeRetry(w)
  BY <1>3, <1>8 DEF TakeRetry
<1>9. CASE \E b \in Buffers : Complete(w, b)
  <2>1. PICK b \in Buffers : Complete(w, b)
    BY <1>9
  <2>2. ASSUME NEW r, CompleteFails(w, b, r) PROVE ResultInv'
    <3>1. Thread("settle", b, r, FALSE).pc \notin {"copen", "csettle"}
      BY DEF Thread
    <3>2. QED
      BY <1>1, <2>2, <3>1 DEF CompleteFails
  <2>3. ASSUME NEW n, CompleteOk(w, b, n) PROVE ResultInv'
    BY <1>2, <2>3 DEF CompleteOk
  <2>4. QED
    BY <2>1, <2>2, <2>3 DEF Complete
<1>10. CASE Ack(w)
  BY <1>3, <1>10 DEF Ack
<1>11. CASE Scan(w)
  <2>1. \/ wk' = [wk EXCEPT ![w] = Resting(FALSE)]
        \/ \E p, x : wk' = [wk EXCEPT ![w] = Thread(p, x, "ok", TRUE)]
    BY <1>11, Zenon DEF Scan
  <2>2. FALSE \in BOOLEAN
    OBVIOUS
  <2>3. QED
    BY <1>2, <1>5, <2>1, <2>2
<1>12. CASE Open(w)
  <2>1. ASSUME NEW r, wk' = [wk EXCEPT ![w].pc = IF r = "ok" THEN "submit" ELSE "settle",
                                       ![w].result = r]
        PROVE  ResultInv'
    <3>1. PICK p \in {"submit", "settle"} : p = IF r = "ok" THEN "submit" ELSE "settle"
      OBVIOUS
    <3>2. wk' = [wk EXCEPT ![w].pc = p, ![w].result = r]
      BY <2>1, <3>1
    <3>3. QED
      BY <1>4, <3>2
  <2>2. QED
    BY <1>4, <1>12, <2>1 DEF Open
<1>13. CASE Submit(w)
  BY <1>4, <1>6, <1>13, Zenon DEF Submit
<1>14. CASE Settle(w)
  BY <1>3, <1>6, <1>14, Zenon DEF Settle
<1>15. CASE Defer(w)
  BY <1>6, <1>15 DEF Defer
<1>16. CASE CloseOpen(w)
  <2>1. wk[w].pc = "copen" /\ wk[w].result # "terminal"
    BY <1>16 DEF CloseOpen, ResultInv
  <2>2. ASSUME NEW r, r # "terminal", wk' = [wk EXCEPT ![w].pc = "csettle", ![w].result = r]
        PROVE  ResultInv'
    <3> DEFINE t == [wk[w] EXCEPT !.pc = "csettle", !.result = r]
    <3>1. wk' = [wk EXCEPT ![w] = t] /\ t.result = r
      BY <1>0, <2>2 DEF Threads
    <3>2. QED
      BY <2>2, <3>1, ResultThread
  <2>3. CASE Terminal(JobOf[wk[w].item])
    <3> DEFINE t == [wk[w] EXCEPT !.pc = "csettle"]
    <3>1. wk' = [wk EXCEPT ![w].pc = "csettle"]
      BY <1>16, <2>3 DEF CloseOpen
    <3>2. wk' = [wk EXCEPT ![w] = t] /\ t.result = wk[w].result
      BY <1>0, <3>1 DEF Threads
    <3>3. QED
      BY <2>1, <3>2, ResultThread
  <2>4. CASE ~Terminal(JobOf[wk[w].item])
    <3>1. \E r \in OpenResults(wk[w].item) \cup {"ok"} :
              wk' = [wk EXCEPT ![w].pc = "csettle", ![w].result = r]
      BY <1>16, <2>4 DEF CloseOpen
    <3>2. wk[w].item \in Files
      BY <2>1 DEF WriterInv, PlaceInv
    <3>3. OpenResults(wk[w].item) \subseteq {"ok", "space", "permanent"}
      BY <3>2, OpenResultsFacts, SMTT(60)
    <3>4. QED
      BY <2>2, <3>1, <3>3
  <2>5. QED
    BY <2>3, <2>4
<1>17. CASE CloseSettle(w)
  BY <1>3, <1>6, <1>17 DEF CloseSettle
<1>18. QED
  BY <1>7, <1>8, <1>9, <1>10, <1>11, <1>12, <1>13, <1>14, <1>15, <1>16, <1>17 DEF WorkerStep

-----------------------------------------------------------------------------
(* Steps of a decoder.                                                     *)

(* A decoder touches neither the threads nor what they and the retry queue *)
(* have.                                                                   *)
LEMMA DecoderQuiet ==
    ASSUME WriterInv, UNCHANGED <<gate, token, waking, retryQ, wk>>, packet => packet',
           posted' => posted \/ packet', err \subseteq err', \A g \in Files : Remembers(g),
           \A c \in Buffers : buf'[c] = buf[c] \/ buf[c].at \in {"free", "stage"}
    PROVE  WakeInv' /\ ErrInv'
<1>1. Placed /\ ErrInv
  BY PlaceParts DEF WriterInv
<1>2. \A y \in ToSet(retryQ) : Owner(y)' = Owner(y)
  <2>1. ASSUME NEW y \in ToSet(retryQ) PROVE Owner(y)' = Owner(y)
    <3>1. CASE y \in Files
      BY <3>1 DEF Owner, FileOf
    <3>2. CASE y \notin Files
      <4>1. y \in Buffers
        BY <3>2, ItemFacts DEF Items
      <4>2. buf'[y] = buf[y]
        BY <1>1, <4>1 DEF Placed
      <4>3. QED
        BY <3>2, <4>2 DEF Owner, FileOf
    <3>3. QED
      BY <3>1, <3>2
  <2>2. QED
    BY <2>1
<1>3. WakeInv'
  <2>1. \A y \in ToSet(retryQ') : Due(y)' => y \in ToSet(retryQ) /\ Due(y)
    BY <1>2 DEF Due
  <2>2. /\ \A v \in Workers : wk[v].pc = "ack" => wk'[v].pc = "ack"
        /\ \A v \in Workers : Searching(wk[v]) => Searching(wk'[v])
        /\ \A v \in Workers : wk'[v].pc = "idle" => ~wk'[v].again
    BY DEF WriterInv, WakeInv
  <2>3. QED
    BY <2>1, <2>2, WakeKeeps
<1>4. ErrInv'
  <2>1. ASSUME NEW g \in Files
        PROVE  /\ file'[g].failed => JobOf[g] \in err'
               /\ file'[g].handle => file'[g].created
               /\ file'[g].tried => file'[g].created \/ file'[g].failed
               /\ file'[g].closed => file'[g].created \/ JobOf[g] \in err'
    BY <1>1 DEF ErrInv, Remembers
  <2>2. ASSUME NEW v \in Workers
        PROVE  /\ wk'[v].pc = "settle" /\ wk'[v].result = "ok" =>
                     buf'[wk'[v].item].done = buf'[wk'[v].item].size
               /\ wk'[v].pc = "settle" /\ wk'[v].result \in {"permanent", "terminal"} =>
                     JobOf[buf'[wk'[v].item].file] \in err'
               /\ wk'[v].pc = "csettle" /\ wk'[v].result = "ok" =>
                     file'[wk'[v].item].created \/ file'[wk'[v].item].failed
    <3>1. /\ wk[v].pc = "settle" => wk[v].item \in Buffers
          /\ wk[v].pc = "csettle" => wk[v].item \in Files
      BY <1>1 DEF Placed
    <3>2. wk[v].item \in Buffers => buf'[wk[v].item] = buf[wk[v].item]
      BY <1>1 DEF Placed
    <3>3. QED
      BY <1>1, <3>1, <3>2 DEF ErrInv, Remembers
  <2>3. QED
    BY <2>1, <2>2 DEF ErrInv
<1>5. QED
  BY <1>3, <1>4

LEMMA ProdFacts ==
    ASSUME WriterInv, NEW j \in Jobs, NEW d, prod' = [prod EXCEPT ![j] = d]
    PROVE  prod'[j] = d /\ \A k \in Jobs : k # j => prod'[k] = prod[k]
BY DEF WriterInv, Types

(* Buffers are taken for a file, or given back, and no item moves.         *)
LEMMA PlaceSame ==
    ASSUME WriterInv, UNCHANGED <<workQ, retryQ, wk>>,
           \A c \in Buffers : \/ buf'[c].at = buf[c].at
                              \/ buf[c].at \in {"free", "stage"} /\ buf'[c].at \in {"free", "stage"}
    PROVE  PlaceInv'
<1>1. Queues /\ Placed
  BY PlaceParts DEF WriterInv
<1>2. ToSet(workQ') = ToSet(workQ) /\ ToSet(retryQ') = ToSet(retryQ)
  OBVIOUS
<1>3. Queues'
  BY <1>1 DEF Queues
<1>4. Placed'
  BY <1>1, <1>2 DEF Placed
<1>5. QED
  BY <1>3, <1>4 DEF PlaceInv, Queues, Placed

(* Only the decoder moves, and it is not about to accept a chunk.          *)
LEMMA ProdStep ==
    ASSUME WriterInv, NEW j \in Jobs, NEW d \in Decoders, prod' = [prod EXCEPT ![j] = d],
           UNCHANGED <<buf, file, workQ, retryQ, wk, pending, inflight, disk, meter>>,
           UNCHANGED <<gate, token, waking>>, packet => packet', posted' => posted \/ packet',
           err \subseteq err',
           prod[j].pc # "commit", d.pc # "commit", d.chunk = 0,
           d.pc \in Writing =>
               /\ d.file \in Files /\ JobOf[d.file] = j /\ ~file[d.file].closing
               /\ file[d.file].accepted + d.left = Size[d.file],
           d.pc = "reserve" => d.left > 0, d.pc = "done" => pending[j] = 0,
           prod[j].pc \in Writing => d.pc \in Writing /\ d.file = prod[j].file
    PROVE  PlaceInv' /\ CloseInv' /\ WakeInv' /\ StageInv' /\ DecoderInv' /\ CountInv'
           /\ AreaInv' /\ DiskInv' /\ ErrInv'
<1>1. prod'[j] = d /\ \A k \in Jobs : k # j => prod'[k] = prod[k]
  BY ProdFacts
<1>2. prod[j].chunk = 0 /\ DecoderInv /\ StageInv /\ JobOf \in [Files -> Jobs]
  BY WriterAssumption DEF WriterInv, DecoderInv
<1>3. PlaceInv' /\ CountInv'
  <2>1. PlaceInv'
    BY PlaceSame
  <2>2. \A g \in Files : Filled(g)' = Filled(g) /\ InIO(g)' = InIO(g)
    BY DEF Filled, InIO
  <2>3. \A k \in Jobs : Holding(k)' = Holding(k) /\ Ending(k)' = Ending(k)
    BY DEF Holding, Ending
  <2>4. QED
    BY <2>1, <2>2, <2>3 DEF WriterInv, CountInv
<1>4. CloseInv'
  <2>1. Closing' = Closing
    BY DEF Closing, ToSet
  <2>2. QED
    BY <2>1, CloseFrame
<1>5. WakeInv' /\ ErrInv'
  <2>1. \A g \in Files : Remembers(g)
    BY DEF Remembers
  <2>2. QED
    BY <2>1, DecoderQuiet
<1>6. \A g \in Files : On(JobOf[g], g) => On(JobOf[g], g)'
  BY <1>1, <1>2 DEF On
<1>7. StageInv'
  BY <1>1, <1>2, <1>6, SMTT(60) DEF StageInv
<1>8. DecoderInv'
  <2>1. ASSUME NEW k \in Jobs
        PROVE  /\ prod'[k].pc \in Writing =>
                     /\ prod'[k].file \in Files /\ JobOf[prod'[k].file] = k
                     /\ ~file'[prod'[k].file].closing
                     /\ file'[prod'[k].file].accepted + prod'[k].left = Size[prod'[k].file]
               /\ prod'[k].pc = "reserve" => prod'[k].left > 0
               /\ prod'[k].pc = "commit" =>
                     /\ file'[prod'[k].file].stage # None
                     /\ prod'[k].chunk > 0 /\ prod'[k].chunk <= prod'[k].left
                     /\ buf'[file'[prod'[k].file].stage].size + prod'[k].chunk <= BufferSize
                     /\ prod'[k].fresh <=> buf'[file'[prod'[k].file].stage].size = 0
               /\ prod'[k].pc # "commit" => prod'[k].chunk = 0
               /\ prod'[k].pc = "done" => pending'[k] = 0
    <3>1. CASE k = j
      BY <1>1, <3>1
    <3>2. CASE k # j
      BY <1>1, <1>2, <3>2 DEF DecoderInv
    <3>3. QED
      BY <3>1, <3>2
  <2>2. ASSUME NEW g \in Files
        PROVE  /\ file'[g].accepted <= Size[g]
               /\ ~file'[g].closing /\ ~On(JobOf[g], g)' => file'[g].accepted = 0
               /\ file'[g].next <= file'[g].accepted
               /\ file'[g].stage = None /\ (~file'[g].closing \/ JobOf[g] \notin err') =>
                     file'[g].next = file'[g].accepted
               /\ file'[g].stage # None =>
                     file'[g].next + buf'[file'[g].stage].size = file'[g].accepted
    <3>1. ~On(JobOf[g], g)' => ~On(JobOf[g], g)
      BY <1>6
    <3>2. QED
      BY <1>2, <3>1 DEF DecoderInv
  <2>3. QED
    BY <2>1, <2>2, SMTT(60) DEF DecoderInv
<1>9. AreaInv'
  <2>1. \A k \in Jobs : prod'[k].chunk = prod[k].chunk
    BY <1>1, <1>2
  <2>2. \A g \in Files : Reserved(g)' = Reserved(g)
    <3>1. ASSUME NEW g \in Files PROVE Reserved(g)' = Reserved(g)
      <4>1. CASE JobOf[g] = j
        BY <1>1, <1>2, <4>1 DEF Reserved
      <4>2. CASE JobOf[g] # j
        BY <1>1, <1>2, <4>2 DEF Reserved
      <4>3. QED
        BY <4>1, <4>2
    <3>2. QED
      BY <3>1
  <2>3. QED
    BY <2>1, <2>2, AreaKeeps
<1>10. DiskInv'
  BY DiskKeeps
<1>11. QED
  BY <1>3, <1>4, <1>5, <1>7, <1>8, <1>9, <1>10

LEMMA MakeFileStep ==
    ASSUME WriterInv, NEW j \in Jobs, MakeFile(j) PROVE WriterInv'
<1>1. PICK f \in Files :
          /\ JobOf[f] = j /\ ~file[f].closing
          /\ prod' = [prod EXCEPT ![j] =
                 Decoder(IF Size[f] > 0 THEN "reserve" ELSE "close", f, Size[f], 0, FALSE)]
  BY DEF MakeFile
<1>2. /\ prod[j].pc = "next"
      /\ UNCHANGED <<gate, envVars, token, waking, err, pending, inflight,
                     ioVars, lease, retryQ, wakeVars, wk, disk, meter>>
  BY DEF MakeFile
<1>3. PICK pc \in {"reserve", "close"} : pc = IF Size[f] > 0 THEN "reserve" ELSE "close"
  OBVIOUS
<1> DEFINE d == Decoder(pc, f, Size[f], 0, FALSE)
<1>4. Size[f] \in Nat /\ (pc = "reserve" => Size[f] > 0)
  BY <1>3, WriterAssumption
<1>5. /\ d \in Decoders /\ d.pc = pc /\ d.file = f /\ d.left = Size[f] /\ d.chunk = 0
      /\ d.pc \in Writing
  BY <1>4 DEF Decoder, Decoders, Writing
<1>6. prod' = [prod EXCEPT ![j] = d]
  BY <1>1, <1>3
<1>7. ~On(JobOf[f], f)
  BY <1>1, <1>2 DEF On, Writing
<1>8. file[f].accepted = 0
  BY <1>1, <1>7 DEF WriterInv, DecoderInv
<1>9. file[f].accepted + Size[f] = Size[f]
  BY <1>4, <1>8
<1> HIDE DEF d
<1>10. /\ UNCHANGED <<buf, file, workQ, retryQ, wk, pending, inflight, disk, meter>>
       /\ UNCHANGED <<gate, token, waking, posted, packet, err>>
  BY <1>2 DEF ioVars, wakeVars
<1>11. prod[j].pc \notin Writing /\ prod[j].pc # "commit" /\ d.pc # "commit" /\ d.pc # "done"
  BY <1>2, <1>5 DEF Writing
<1>12. PlaceInv' /\ CloseInv' /\ WakeInv' /\ StageInv' /\ DecoderInv' /\ CountInv'
       /\ AreaInv' /\ DiskInv' /\ ErrInv'
  BY <1>1, <1>4, <1>5, <1>6, <1>9, <1>10, <1>11, ProdStep
<1>13. Types'
  BY <1>2, <1>5, <1>6, <1>10 DEF WriterInv, Types, envVars
<1>14. QED
  BY <1>12, <1>13 DEF WriterInv

(* The decoder goes on without data in hand.                               *)
LEMMA OnwardDecoder ==
    ASSUME WriterInv, NEW j \in Jobs,
           NEW pc \in {"close", "wait", "done"}, prod' = [prod EXCEPT ![j].pc = pc],
           UNCHANGED <<buf, file, workQ, retryQ, wk, pending, inflight, disk, meter>>,
           UNCHANGED <<gate, envVars, lease, token, waking>>,
           posted' \in BOOLEAN, packet' \in BOOLEAN,
           packet => packet', posted' => posted \/ packet',
           err \subseteq err', err' \subseteq Jobs,
           \/ prod[j].pc = "reserve" /\ pc = "close"
           \/ prod[j].pc \in {"finish", "next"} /\ pc = "wait"
           \/ prod[j].pc = "wait" /\ pc = "done" /\ pending[j] = 0
    PROVE  WriterInv'
<1>1. prod[j] \in Decoders /\ Types /\ DecoderInv
  BY DEF WriterInv, Types
<1> DEFINE d == [prod[j] EXCEPT !.pc = pc]
<1>2. /\ d \in Decoders /\ d.pc = pc /\ d.file = prod[j].file /\ d.left = prod[j].left
      /\ d.chunk = prod[j].chunk
  BY <1>1 DEF Decoders, Writing
<1>3. prod' = [prod EXCEPT ![j] = d]
  BY <1>1 DEF Types
<1>4. prod[j].chunk = 0
  BY <1>1 DEF DecoderInv
<1>5. prod[j].pc \in Writing =>
          /\ prod[j].file \in Files /\ JobOf[prod[j].file] = j /\ ~file[prod[j].file].closing
          /\ file[prod[j].file].accepted + prod[j].left = Size[prod[j].file]
  BY <1>1 DEF DecoderInv
<1> HIDE DEF d
<1>6. /\ prod[j].pc # "commit" /\ d.pc # "commit" /\ d.chunk = 0 /\ d.pc # "reserve"
      /\ d.pc = "done" => pending[j] = 0
      /\ prod[j].pc \in Writing => d.pc \in Writing /\ d.file = prod[j].file
      /\ d.pc \in Writing => prod[j].pc \in Writing
  BY <1>2, <1>4 DEF Writing
<1>7. PlaceInv' /\ CloseInv' /\ WakeInv' /\ StageInv' /\ DecoderInv' /\ CountInv'
      /\ AreaInv' /\ DiskInv' /\ ErrInv'
  BY <1>2, <1>3, <1>5, <1>6, ProdStep
<1>8. Types'
  BY <1>1, <1>2, <1>3 DEF Types, envVars
<1>9. QED
  BY <1>7, <1>8 DEF WriterInv

LEMMA FinishStep ==
    ASSUME WriterInv, NEW j \in Jobs, FinishJob(j) \/ FinishReturns(j) PROVE WriterInv'
<1>0. Types
  BY DEF WriterInv
<1>1. CASE FinishJob(j)
  <2>1. /\ prod[j].pc \in {"finish", "next"} /\ err' = Synchronized({j})
        /\ WakeIf(retryQ # <<>> \/ j \in err') /\ prod' = [prod EXCEPT ![j].pc = "wait"]
        /\ UNCHANGED <<gate, envVars, token, waking, pending, inflight, ioVars,
                       lease, retryQ, wk, disk, meter>>
    BY <1>1 DEF FinishJob
  <2>2. err \subseteq err' /\ err' \subseteq Jobs
    BY <1>0, <2>1 DEF Synchronized, Types
  <2>3. posted' \in BOOLEAN /\ packet' \in BOOLEAN
    <3>1. (retryQ # <<>> \/ j \in err') \in BOOLEAN
      OBVIOUS
    <3>2. QED
      BY <1>0, <2>1, <3>1, WakeTypes
  <2>4. (packet => packet') /\ (posted' => posted \/ packet')
    BY <2>1, WakeIfFacts
  <2>5. QED
    BY <2>1, <2>2, <2>3, <2>4, OnwardDecoder DEF ioVars
<1>2. CASE FinishReturns(j)
  <2>1. /\ prod[j].pc = "wait" /\ pending[j] = 0 /\ prod' = [prod EXCEPT ![j].pc = "done"]
        /\ UNCHANGED <<gate, envVars, token, waking, err, pending, inflight,
                       ioVars, lease, retryQ, wakeVars, wk, disk, meter>>
    BY <1>2 DEF FinishReturns
  <2>2. /\ posted' = posted /\ packet' = packet /\ posted \in BOOLEAN /\ packet \in BOOLEAN
        /\ err \subseteq Jobs
    BY <1>0, <2>1 DEF wakeVars, Types
  <2>3. QED
    BY <2>1, <2>2, OnwardDecoder DEF ioVars
<1>3. QED
  BY <1>1, <1>2

(* A write that finds the job failed.                                      *)
LEMMA ReserveErrStep ==
    ASSUME WriterInv, NEW j \in Jobs, Reserve(j), j \in err PROVE WriterInv'
<1>1. /\ prod[j].pc = "reserve" /\ prod' = [prod EXCEPT ![j].pc = "close"]
      /\ UNCHANGED <<inflight, ioVars>>
      /\ UNCHANGED <<gate, envVars, token, waking, err, pending, lease, retryQ,
                     wakeVars, wk, disk, meter>>
  BY DEF Reserve
<1>2. /\ posted' = posted /\ packet' = packet /\ posted \in BOOLEAN /\ packet \in BOOLEAN
      /\ err \subseteq Jobs
  BY <1>1 DEF wakeVars, Types, WriterInv
<1>3. QED
  BY <1>1, <1>2, OnwardDecoder DEF ioVars

-----------------------------------------------------------------------------
(* A decoder at work on its file, with the staging buffer it has, takes or *)
(* gives away.                                                             *)

(* Decoder j changes file f and buffer b (none, if b is None).             *)
Works(j, f, b) ==
    /\ prod[j].pc \in Writing /\ prod[j].file = f
    /\ \A g \in Files : g # f => file'[g] = file[g]
    /\ \A k \in Jobs : k # j => prod'[k] = prod[k]
    /\ \A c \in Buffers : c # b => buf'[c] = buf[c]
    /\ file[f].stage \in {None, b}
    /\ b # None => /\ b \in Buffers
                   /\ buf[b] = FreeBuffer \/ file[f].stage = b
                   /\ buf'[b].file = f \/ buf'[b] = FreeBuffer

(* Nobody else is on the file or has the buffer.                           *)
LEMMA WorkFacts ==
    ASSUME WriterInv, NEW j \in Jobs, NEW f \in Files, NEW b, Works(j, f, b)
    PROVE  /\ JobOf[f] = j /\ ~file[f].closing /\ ~file[f].queued /\ ~file[f].closed
           /\ \A g \in Files : g # f => /\ file[g].stage = None \/ file[g].stage # b
                                        /\ ~On(j, g)
           /\ \A k \in Jobs : k # j /\ prod[k].pc \in Writing =>
                 prod[k].file \in Files /\ prod[k].file # f
           /\ b # None => /\ b \in Buffers /\ buf[b] \in BufferStates
                          /\ buf[b].at \in {"free", "stage"} /\ buf[b].done = 0
                          /\ buf[b].file = f \/ (buf[b].file = None /\ buf[b].size = 0)
                          /\ buf'[b].file = f \/ (buf'[b].file = None /\ buf'[b].size = 0)
           /\ None \notin Buffers /\ None \notin Files
<1>1. /\ JobOf[f] = j /\ ~file[f].closing /\ ~file[f].queued /\ ~file[f].closed
      /\ file[f].stage # None => buf[file[f].stage].at = "stage"
                                 /\ buf[file[f].stage].file = f /\ buf[file[f].stage].done = 0
  BY DecoderFile DEF Works
<1>2. None \notin Buffers /\ None \notin Files
  BY WriterAssumption
<1>3. b # None => /\ b \in Buffers /\ buf[b] \in BufferStates
                  /\ buf[b].at \in {"free", "stage"} /\ buf[b].done = 0
                  /\ buf[b].file = f \/ (buf[b].file = None /\ buf[b].size = 0)
                  /\ buf'[b].file = f \/ (buf'[b].file = None /\ buf'[b].size = 0)
  BY <1>1, <1>2 DEF Works, FreeBuffer, WriterInv, Types
<1>4. ASSUME NEW g \in Files, g # f, file[g].stage = b, b # None PROVE FALSE
  <2>1. buf[b].at = "stage" /\ buf[b].file = g
    BY <1>4 DEF WriterInv, StageInv
  <2>2. QED
    BY <1>2, <1>3, <1>4, <2>1
<1>5. \A g \in Files : g # f => ~On(j, g)
  BY DEF On, Works
<1>6. \A k \in Jobs : k # j /\ prod[k].pc \in Writing =>
          prod[k].file \in Files /\ prod[k].file # f
  BY <1>1 DEF WriterInv, DecoderInv
<1>7. QED
  BY <1>1, <1>2, <1>3, <1>4, <1>5, <1>6

LEMMA WorkStage ==
    ASSUME WriterInv, NEW j \in Jobs, NEW f \in Files, NEW b, Works(j, f, b),
           file'[f].stage \in {None, b},
           file'[f].stage # None => buf'[b].at = "stage" /\ buf'[b].file = f /\ On(j, f)',
           b # None =>
             /\ buf'[b].at = "free" => buf'[b] = FreeBuffer
             /\ buf'[b].at # "free" => buf'[b].file = f
             /\ buf'[b].at = "stage" => file'[f].stage = b
             /\ buf'[b].at \in {"stage", "queue"} => buf'[b].done = 0
             /\ buf'[b].done <= buf'[b].size /\ buf'[b].size <= BufferSize
             /\ buf'[b].at # "free" /\ buf'[b].size = 0 =>
                   buf'[b].at = "stage" /\ prod'[j].pc = "commit" /\ prod'[j].fresh
    PROVE  StageInv'
<1>1. StageInv
  BY DEF WriterInv
<1>2. /\ \A g \in Files : g # f => /\ file'[g] = file[g] /\ ~On(j, g)
                                   /\ file[g].stage = None \/ file[g].stage # b
      /\ JobOf[f] = j /\ JobOf \in [Files -> Jobs]
      /\ \A k \in Jobs : k # j => prod'[k] = prod[k]
      /\ \A c \in Buffers : c # b => buf'[c] = buf[c]
      /\ file[f].stage \in {None, b} /\ None \notin Buffers
  BY WorkFacts, WriterAssumption DEF Works
<1>3. ASSUME NEW g \in Files, file'[g].stage # None
      PROVE  /\ buf'[file'[g].stage].at = "stage" /\ buf'[file'[g].stage].file = g
             /\ On(JobOf[g], g)'
  <2>1. CASE g = f
    BY <1>2, <1>3, <2>1
  <2>2. CASE g # f
    <3>1. /\ file[g].stage # None /\ file[g].stage \in Buffers /\ file[g].stage # b
          /\ buf[file[g].stage].at = "stage" /\ buf[file[g].stage].file = g /\ On(JobOf[g], g)
      BY <1>1, <1>2, <1>3, <2>2 DEF StageInv, WriterInv, Types, FileStates
    <3>2. JobOf[g] # j /\ prod'[JobOf[g]] = prod[JobOf[g]]
      BY <1>2, <2>2, <3>1
    <3>3. QED
      BY <1>2, <2>2, <3>1, <3>2 DEF On
  <2>3. QED
    BY <2>1, <2>2
<1>4. ASSUME NEW c \in Buffers
      PROVE  /\ buf'[c].at = "free" => buf'[c] = FreeBuffer
             /\ buf'[c].at # "free" => buf'[c].file \in Files
             /\ buf'[c].at = "stage" => file'[buf'[c].file].stage = c
             /\ buf'[c].at \in {"stage", "queue"} => buf'[c].done = 0
             /\ buf'[c].done <= buf'[c].size /\ buf'[c].size <= BufferSize
             /\ buf'[c].at # "free" /\ buf'[c].size = 0 =>
                   /\ buf'[c].at = "stage"
                   /\ prod'[JobOf[buf'[c].file]].pc = "commit" /\ prod'[JobOf[buf'[c].file]].fresh
  <2>1. CASE c = b
    BY <1>2, <2>1
  <2>2. CASE c # b
    <3>1. buf'[c] = buf[c]
      BY <1>2, <2>2
    <3>2. buf[c].at = "stage" => buf[c].file # f
      BY <1>1, <1>2, <2>2 DEF StageInv
    <3>3. buf[c].at = "stage" => JobOf[buf[c].file] # j
      <4>1. SUFFICES ASSUME buf[c].at = "stage", JobOf[buf[c].file] = j PROVE FALSE
        OBVIOUS
      <4>2. buf[c].file \in Files /\ file[buf[c].file].stage = c
        BY <1>1, <4>1 DEF StageInv
      <4>3. On(j, buf[c].file)
        BY <1>1, <1>2, <4>1, <4>2 DEF StageInv
      <4>4. QED
        BY <1>2, <3>2, <4>1, <4>2, <4>3
    <3>4. buf[c].at = "stage" => /\ file'[buf[c].file] = file[buf[c].file]
                                 /\ prod'[JobOf[buf[c].file]] = prod[JobOf[buf[c].file]]
      BY <1>1, <1>2, <3>2, <3>3 DEF StageInv
    <3>5. QED
      BY <1>1, <3>1, <3>4 DEF StageInv
  <2>3. QED
    BY <2>1, <2>2
<1>5. QED
  BY <1>3, <1>4 DEF StageInv

LEMMA WorkDecoder ==
    ASSUME WriterInv, NEW j \in Jobs, NEW f \in Files, NEW b, Works(j, f, b),
           err \subseteq err', \A k \in Jobs : k # j => pending'[k] = pending[k],
           prod'[j].pc \in Writing =>
             /\ prod'[j].file = f /\ ~file'[f].closing
             /\ file'[f].accepted + prod'[j].left = Size[f],
           prod'[j].pc = "reserve" => prod'[j].left > 0,
           prod'[j].pc = "commit" =>
             /\ file'[f].stage # None
             /\ prod'[j].chunk > 0 /\ prod'[j].chunk <= prod'[j].left
             /\ buf'[file'[f].stage].size + prod'[j].chunk <= BufferSize
             /\ prod'[j].fresh <=> buf'[file'[f].stage].size = 0,
           prod'[j].pc # "commit" => prod'[j].chunk = 0,
           prod'[j].pc # "done",
           file'[f].accepted <= Size[f],
           ~file'[f].closing => prod'[j].pc \in Writing,
           file'[f].next <= file'[f].accepted,
           file'[f].stage = None /\ (~file'[f].closing \/ j \notin err') =>
               file'[f].next = file'[f].accepted,
           file'[f].stage # None =>
               file'[f].next + buf'[file'[f].stage].size = file'[f].accepted
    PROVE  DecoderInv'
<1>1. DecoderInv /\ Types
  BY DEF WriterInv
<1>2. /\ \A g \in Files : g # f => /\ file'[g] = file[g] /\ ~On(j, g)
                                   /\ file[g].stage = None \/ file[g].stage # b
      /\ JobOf[f] = j /\ JobOf \in [Files -> Jobs]
      /\ \A k \in Jobs : k # j => prod'[k] = prod[k]
      /\ \A c \in Buffers : c # b => buf'[c] = buf[c]
      /\ \A k \in Jobs : k # j /\ prod[k].pc \in Writing =>
            prod[k].file \in Files /\ prod[k].file # f
  BY WorkFacts, WriterAssumption DEF Works
<1>3. \A g \in Files : g # f /\ file[g].stage # None =>
          buf'[file[g].stage].size = buf[file[g].stage].size
  BY <1>1, <1>2 DEF Types, FileStates
<1>4. ASSUME NEW k \in Jobs
      PROVE  /\ prod'[k].pc \in Writing =>
                   /\ prod'[k].file \in Files /\ JobOf[prod'[k].file] = k
                   /\ ~file'[prod'[k].file].closing
                   /\ file'[prod'[k].file].accepted + prod'[k].left = Size[prod'[k].file]
             /\ prod'[k].pc = "reserve" => prod'[k].left > 0
             /\ prod'[k].pc = "commit" =>
                   /\ file'[prod'[k].file].stage # None
                   /\ prod'[k].chunk > 0 /\ prod'[k].chunk <= prod'[k].left
                   /\ buf'[file'[prod'[k].file].stage].size + prod'[k].chunk <= BufferSize
                   /\ prod'[k].fresh <=> buf'[file'[prod'[k].file].stage].size = 0
             /\ prod'[k].pc # "commit" => prod'[k].chunk = 0
             /\ prod'[k].pc = "done" => pending'[k] = 0
  <2>1. CASE k = j
    <3>1. prod'[j].pc = "commit" => prod'[j].file = f
      BY DEF Writing
    <3>2. QED
      BY <1>2, <2>1, <3>1
  <2>2. CASE k # j
    <3>1. prod'[k] = prod[k] /\ pending'[k] = pending[k]
      BY <1>2, <2>2
    <3>2. prod[k].pc \in Writing => /\ prod[k].file \in Files /\ prod[k].file # f
                                    /\ file'[prod[k].file] = file[prod[k].file]
      BY <1>2, <2>2
    <3>3. prod[k].pc = "commit" =>
              /\ prod[k].pc \in Writing /\ file[prod[k].file].stage # None
              /\ buf'[file[prod[k].file].stage].size = buf[file[prod[k].file].stage].size
      BY <1>1, <1>3, <3>2 DEF DecoderInv, Writing
    <3>4. QED
      BY <1>1, <3>1, <3>2, <3>3 DEF DecoderInv
  <2>3. QED
    BY <2>1, <2>2
<1>5. ASSUME NEW g \in Files
      PROVE  /\ file'[g].accepted <= Size[g]
             /\ ~file'[g].closing /\ ~On(JobOf[g], g)' => file'[g].accepted = 0
             /\ file'[g].next <= file'[g].accepted
             /\ file'[g].stage = None /\ (~file'[g].closing \/ JobOf[g] \notin err') =>
                   file'[g].next = file'[g].accepted
             /\ file'[g].stage # None =>
                   file'[g].next + buf'[file'[g].stage].size = file'[g].accepted
  <2>1. CASE g = f
    <3>1. ~file'[f].closing => On(j, f)'
      BY DEF On
    <3>2. QED
      BY <1>2, <2>1, <3>1
  <2>2. CASE g # f
    <3>1. file'[g] = file[g]
      BY <1>2, <2>2
    <3>2. ~On(JobOf[g], g)' => ~On(JobOf[g], g)
      BY <1>2, <2>2 DEF On
    <3>3. QED
      BY <1>1, <1>3, <2>2, <3>1, <3>2 DEF DecoderInv
  <2>3. QED
    BY <2>1, <2>2
<1>6. QED
  BY <1>4, <1>5 DEF DecoderInv

(* Only the counts of the file and its job can change.                     *)
LEMMA WorkCounts ==
    ASSUME WriterInv, NEW j \in Jobs, NEW f \in Files, NEW b, Works(j, f, b),
           b # None => buf'[b].at # "io"
    PROVE  /\ \A g \in Files : g # f => Filled(g)' = Filled(g)
           /\ \A g \in Files : InIO(g)' = InIO(g)
           /\ \A k \in Jobs : k # j => Holding(k)' = Holding(k)
           /\ b # None /\ (buf'[b].size > 0 <=> buf[b].size > 0) =>
                 Filled(f)' = Filled(f) /\ Holding(j)' = Holding(j)
           /\ b = None => Filled(f)' = Filled(f) /\ Holding(j)' = Holding(j)
           /\ b # None /\ buf[b].size = 0 /\ buf'[b].size > 0 =>
                 /\ Cardinality(Filled(f)') = Cardinality(Filled(f)) + 1
                 /\ Cardinality(Holding(j)') = Cardinality(Holding(j)) + 1
           /\ Cardinality(Filled(f)) \in Nat /\ Cardinality(Holding(j)) \in Nat
<1>1. /\ JobOf[f] = j /\ None \notin Buffers /\ None \notin Files
      /\ \A c \in Buffers : c # b => buf'[c] = buf[c]
      /\ b # None => /\ b \in Buffers /\ buf[b].at # "io" /\ buf[b].size \in Nat
                     /\ buf[b].file = f \/ (buf[b].file = None /\ buf[b].size = 0)
                     /\ buf'[b].file = f \/ (buf'[b].file = None /\ buf'[b].size = 0)
  BY WorkFacts DEF Works, BufferStates
<1>2. \A g \in Files : g # f => Filled(g)' = Filled(g)
  BY <1>1 DEF Filled
<1>3. \A g \in Files : InIO(g)' = InIO(g)
  BY <1>1 DEF InIO
<1>4. \A k \in Jobs : k # j => Holding(k)' = Holding(k)
  BY <1>1 DEF Holding
<1>5. ASSUME b # None, buf'[b].size > 0 <=> buf[b].size > 0
      PROVE  Filled(f)' = Filled(f) /\ Holding(j)' = Holding(j)
  BY <1>1, <1>5 DEF Filled, Holding
<1>6. b = None => Filled(f)' = Filled(f) /\ Holding(j)' = Holding(j)
  BY <1>1 DEF Filled, Holding
<1>7. /\ IsFiniteSet(Buffers) /\ Filled(f) \in SUBSET Buffers /\ Holding(j) \in SUBSET Buffers
  BY WriterAssumption DEF Filled, Holding
<1>8. Cardinality(Filled(f)) \in Nat /\ Cardinality(Holding(j)) \in Nat
  BY <1>7, Sizes
<1>9. ASSUME b # None, buf[b].size = 0, buf'[b].size > 0
      PROVE  /\ Cardinality(Filled(f)') = Cardinality(Filled(f)) + 1
             /\ Cardinality(Holding(j)') = Cardinality(Holding(j)) + 1
  <2>1. buf'[b].file = f
    BY <1>1, <1>9
  <2>2. Filled(f)' = Filled(f) \cup {b} /\ b \in Buffers \ Filled(f)
    BY <1>1, <1>9, <2>1 DEF Filled
  <2>3. Holding(j)' = Holding(j) \cup {b} /\ b \in Buffers \ Holding(j)
    BY <1>1, <1>9, <2>1 DEF Holding
  <2>4. QED
    BY <1>7, <2>2, <2>3, Sizes
<1>10. QED
  BY <1>2, <1>3, <1>4, <1>5, <1>6, <1>8, <1>9

(* The areas, when the buffer is filled from one size to another.          *)
LEMMA WorkAreas ==
    ASSUME WriterInv, NEW j \in Jobs, NEW f \in Files, NEW b, b # None, Works(j, f, b),
           buf'[b].done = 0, buf'[b].size \in Nat, buf'[b].size <= BufferSize
    PROVE  /\ \A g \in Files : g # f => OfFile(g)' = OfFile(g)
           /\ \A k \in Jobs : k # j => OfJob(k)' = OfJob(k)
           /\ Area(OfFile(f)) \in Nat /\ Area(OfJob(j)) \in Nat /\ Area(Left) \in Nat
           /\ Area(OfFile(f)') = Area(OfFile(f)) - buf[b].size + buf'[b].size
           /\ Area(OfJob(j)') = Area(OfJob(j)) - buf[b].size + buf'[b].size
           /\ Area(Left') = Area(Left) - buf[b].size + buf'[b].size
<1>1. /\ JobOf[f] = j /\ None \notin Buffers /\ None \notin Files
      /\ \A c \in Buffers : c # b => buf'[c] = buf[c]
      /\ b \in Buffers /\ buf[b].size \in Nat /\ buf[b].done = 0
      /\ buf[b].file = f \/ (buf[b].file = None /\ buf[b].size = 0)
      /\ buf'[b].file = f \/ (buf'[b].file = None /\ buf'[b].size = 0)
  BY WorkFacts DEF Works, BufferStates
<1>2. /\ buf \in [Buffers -> BufferStates]
      /\ \A c \in Buffers : buf[c].done <= buf[c].size /\ buf[c].size <= BufferSize
  BY DEF WriterInv, Types, StageInv
<1>3. Left \in Fills /\ (\A g \in Files : OfFile(g) \in Fills) /\ \A k : OfJob(k) \in Fills
  BY <1>2, LeftFills, OwnedFills DEF Left, OfFile, OfJob
<1>4. PICK s \in 0 .. BufferSize : s = buf'[b].size
  BY WriterAssumption
<1>5. ASSUME NEW n \in Fills, NEW m, m = [n EXCEPT ![b] = s]
      PROVE  Area(n) \in Nat /\ Area(m) = Area(n) - n[b] + s
  <2>1. m \in Fills /\ m[b] = s /\ \A c \in Buffers : c # b => m[c] = n[c]
    BY <1>1, <1>5 DEF Fills
  <2>2. Area(n) \in Nat /\ Area(m) = Area(n) - n[b] + m[b]
    BY <1>1, <2>1, AreaChange
  <2>3. QED
    BY <2>1, <2>2
<1>6. \A g \in Files : g # f => OfFile(g)' = OfFile(g)
  BY <1>1 DEF OfFile
<1>7. \A k \in Jobs : k # j => OfJob(k)' = OfJob(k)
  BY <1>1 DEF OfJob
<1>8. OfFile(f)' = [OfFile(f) EXCEPT ![b] = s] /\ OfFile(f)[b] = buf[b].size
  BY <1>1, <1>4 DEF OfFile
<1>9. OfJob(j)' = [OfJob(j) EXCEPT ![b] = s] /\ OfJob(j)[b] = buf[b].size
  BY <1>1, <1>4 DEF OfJob
<1>10. Left' = [Left EXCEPT ![b] = s] /\ Left[b] = buf[b].size
  <2>1. buf'[b].size - buf'[b].done = s /\ buf[b].size - buf[b].done = buf[b].size
    BY <1>1, <1>4
  <2>2. Left' = [c \in Buffers |-> buf'[c].size - buf'[c].done]
    BY DEF Left
  <2>3. QED
    BY <1>1, <2>1, <2>2 DEF Left
<1>11. /\ Area(OfFile(f)) \in Nat
       /\ Area(OfFile(f)') = Area(OfFile(f)) - buf[b].size + s
  BY <1>3, <1>5, <1>8
<1>12. /\ Area(OfJob(j)) \in Nat
       /\ Area(OfJob(j)') = Area(OfJob(j)) - buf[b].size + s
  BY <1>3, <1>5, <1>9
<1>13. /\ Area(Left) \in Nat
       /\ Area(Left') = Area(Left) - buf[b].size + s
  BY <1>3, <1>5, <1>10
<1>14. QED
  BY <1>4, <1>6, <1>7, <1>11, <1>12, <1>13

(* A buffer without a place in its file stays without one.                 *)
LEMMA WorkDisk ==
    ASSUME WriterInv, NEW j \in Jobs, NEW f \in Files, NEW b, Works(j, f, b),
           disk' = disk, err \subseteq err', file'[f].next = file[f].next,
           b # None => ~Live(b)'
    PROVE  DiskInv'
<1>1. DiskInv /\ \A c \in Buffers : Live(c) => buf[c].file \in Files
  BY DEF WriterInv, StageInv, Live
<1>2. \A c \in Buffers : /\ c # b \/ ~Live(c)
                         /\ Live(c)' <=> Live(c)
                         /\ Live(c) => buf'[c] = buf[c] /\ \A u : Missing(c, u)' <=> Missing(c, u)
  BY WorkFacts DEF Works, Live, Missing
<1>3. \A g \in Files : file'[g].next = file[g].next
  BY DEF Works
<1>4. ASSUME NEW g \in Files, JobOf[g] \notin err', NEW u \in Units(g),
             u < file'[g].next, disk'[g][u] = 0
      PROVE  \E c \in Buffers : Live(c)' /\ buf'[c].file = g /\ Missing(c, u)'
  <2>1. PICK c \in Buffers : Live(c) /\ buf[c].file = g /\ Missing(c, u)
    BY <1>1, <1>3, <1>4 DEF DiskInv
  <2>2. QED
    BY <1>2, <2>1
<1>5. \A c \in Buffers : Live(c)' =>
          /\ buf'[c].offset + buf'[c].size <= file'[buf'[c].file].next
          /\ \A u \in Units(buf'[c].file) : Missing(c, u)' => disk'[buf'[c].file][u] = 0
  BY <1>1, <1>2, <1>3 DEF DiskInv
<1>6. \A c, d \in Buffers : Live(c)' /\ Live(d)' /\ buf'[c].file = buf'[d].file /\ c # d =>
          \/ buf'[c].offset + buf'[c].size <= buf'[d].offset
          \/ buf'[d].offset + buf'[d].size <= buf'[c].offset
  BY <1>1, <1>2 DEF DiskInv
<1>7. \A g \in Files : /\ disk'[g] \in [Units(g) -> 0 .. 1]
                       /\ \A u \in Units(g) : u >= file'[g].next => disk'[g][u] = 0
  BY <1>1, <1>3 DEF DiskInv
<1>8. disk' \in [Files -> UNION {[Units(g) -> Nat] : g \in Files}]
  BY <1>1 DEF DiskInv
<1>9. QED
  BY <1>4, <1>5, <1>6, <1>7, <1>8 DEF DiskInv, Units

(* The buffer gets its place in the file, behind the others.               *)
LEMMA QueueDisk ==
    ASSUME WriterInv, NEW j \in Jobs, NEW f \in Files, NEW b, b # None, Works(j, f, b),
           disk' = disk, err \subseteq err', buf'[b].at = "queue", buf'[b].file = f,
           buf'[b].done = 0, buf'[b].offset = file[f].next, buf'[b].size \in Nat,
           file'[f].next = file[f].next + buf'[b].size
    PROVE  DiskInv'
<1>1. DiskInv /\ \A c \in Buffers : Live(c) => buf[c].file \in Files
  BY DEF WriterInv, StageInv, Live
<1>2. /\ b \in Buffers /\ ~Live(b) /\ Live(b)' /\ file[f].next \in Nat
      /\ \A c \in Buffers : c # b => /\ buf'[c] = buf[c] /\ (Live(c)' <=> Live(c))
                                     /\ \A u : Missing(c, u)' <=> Missing(c, u)
      /\ \A g \in Files : g # f => file'[g] = file[g]
  <2>1. file[f] \in FileStates
    BY DEF WriterInv, Types
  <2>2. b \in Buffers /\ buf[b].at \in {"free", "stage"}
    BY WorkFacts
  <2>3. \A c \in Buffers : c # b => buf'[c] = buf[c]
    BY DEF Works
  <2>4. ~Live(b) /\ Live(b)'
    BY <2>2 DEF Live
  <2>5. \A c \in Buffers : c # b => /\ Live(c)' <=> Live(c)
                                   /\ \A u : Missing(c, u)' <=> Missing(c, u)
    BY <2>3 DEF Live, Missing
  <2>6. QED
    BY <2>1, <2>2, <2>3, <2>4, <2>5 DEF Works, FileStates
<1>3. \A c \in Buffers : Live(c) => buf[c].offset \in Nat /\ buf[c].size \in Nat
  BY DEF WriterInv, Types, BufferStates
<1>4. \A u : Missing(b, u)' <=> (file[f].next <= u /\ u < file[f].next + buf'[b].size)
  <2>1. buf'[b].offset + buf'[b].done = file[f].next
    BY <1>2
  <2>2. QED
    BY <2>1 DEF Missing
<1>5. ASSUME NEW g \in Files, JobOf[g] \notin err', NEW u \in Units(g),
             u < file'[g].next, disk'[g][u] = 0
      PROVE  \E c \in Buffers : Live(c)' /\ buf'[c].file = g /\ Missing(c, u)'
  <2>1. JobOf[g] \notin err /\ disk[g][u] = 0 /\ u \in Int
    BY <1>5, WriterAssumption DEF Units
  <2>2. CASE u < file[g].next
    <3>1. PICK c \in Buffers : Live(c) /\ buf[c].file = g /\ Missing(c, u)
      BY <1>1, <2>1, <2>2 DEF DiskInv
    <3>2. QED
      BY <1>2, <3>1
  <2>3. CASE ~(u < file[g].next)
    <3>1. g = f
      BY <1>2, <1>5, <2>3
    <3>2. file[f].next <= u /\ u < file[f].next + buf'[b].size
      BY <1>2, <1>5, <2>1, <2>3, <3>1
    <3>3. QED
      BY <1>2, <1>4, <3>1, <3>2
  <2>4. QED
    BY <2>2, <2>3
<1>6. ASSUME NEW c \in Buffers, Live(c)'
      PROVE  /\ buf'[c].offset + buf'[c].size <= file'[buf'[c].file].next
             /\ \A u \in Units(buf'[c].file) : Missing(c, u)' => disk'[buf'[c].file][u] = 0
  <2>1. CASE c = b
    <3>1. \A u \in Units(f) : file[f].next <= u => disk[f][u] = 0
      BY <1>1 DEF DiskInv
    <3>2. QED
      BY <1>2, <1>4, <2>1, <3>1
  <2>2. CASE c # b
    <3>1. /\ Live(c) /\ buf[c].file \in Files
          /\ buf[c].offset + buf[c].size <= file[buf[c].file].next
          /\ \A u \in Units(buf[c].file) : Missing(c, u) => disk[buf[c].file][u] = 0
      BY <1>1, <1>2, <1>6, <2>2 DEF DiskInv
    <3>2. buf[c].offset + buf[c].size <= file'[buf[c].file].next
      <4>1. CASE buf[c].file = f
        BY <1>2, <1>3, <3>1, <4>1
      <4>2. CASE buf[c].file # f
        BY <1>2, <3>1, <4>2
      <4>3. QED
        BY <4>1, <4>2
    <3>3. QED
      BY <1>2, <2>2, <3>1, <3>2
  <2>3. QED
    BY <2>1, <2>2
<1>7. ASSUME NEW c \in Buffers, NEW d \in Buffers, Live(c)', Live(d)',
             buf'[c].file = buf'[d].file, c # d
      PROVE  \/ buf'[c].offset + buf'[c].size <= buf'[d].offset
             \/ buf'[d].offset + buf'[d].size <= buf'[c].offset
  <2>1. CASE c = b
    <3>1. Live(d) /\ buf[d].file = f /\ buf'[d] = buf[d]
      BY <1>2, <1>7, <2>1
    <3>2. buf[d].offset + buf[d].size <= file[f].next
      BY <1>1, <3>1 DEF DiskInv
    <3>3. QED
      BY <2>1, <3>1, <3>2
  <2>2. CASE d = b
    <3>1. Live(c) /\ buf[c].file = f /\ buf'[c] = buf[c]
      BY <1>2, <1>7, <2>2
    <3>2. buf[c].offset + buf[c].size <= file[f].next
      BY <1>1, <3>1 DEF DiskInv
    <3>3. QED
      BY <2>2, <3>1, <3>2
  <2>3. CASE c # b /\ d # b
    <3>1. Live(c) /\ Live(d) /\ buf'[c] = buf[c] /\ buf'[d] = buf[d]
      BY <1>2, <1>7, <2>3
    <3>2. QED
      BY <1>1, <1>7, <3>1 DEF DiskInv
  <2>4. QED
    BY <2>1, <2>2, <2>3
<1>8. ASSUME NEW g \in Files
      PROVE  /\ disk'[g] \in [Units(g) -> 0 .. 1]
             /\ \A u \in Units(g) : u >= file'[g].next => disk'[g][u] = 0
  <2>1. disk[g] \in [Units(g) -> 0 .. 1] /\ \A u \in Units(g) : u >= file[g].next => disk[g][u] = 0
    BY <1>1 DEF DiskInv
  <2>2. \A u \in Units(g) : u >= file'[g].next => u >= file[g].next
    <3>1. CASE g = f
      BY <1>2, <3>1, WriterAssumption DEF Units
    <3>2. CASE g # f
      BY <1>2, <3>2
    <3>3. QED
      BY <3>1, <3>2
  <2>3. QED
    BY <2>1, <2>2
<1>9. disk' \in [Files -> UNION {[Units(g) -> Nat] : g \in Files}]
  BY <1>1 DEF DiskInv
<1>10. \A g \in Files : Units(g)' = Units(g)
  BY DEF Units
<1>11. QED
  BY <1>5, <1>6, <1>7, <1>8, <1>9 DEF DiskInv, Units

LEMMA WorkReserved ==
    ASSUME WriterInv, NEW j \in Jobs, NEW f \in Files, NEW b, Works(j, f, b),
           prod'[j].file = f \/ prod'[j].chunk = 0
    PROVE  /\ Reserved(f) = prod[j].chunk /\ Reserved(f)' = prod'[j].chunk
           /\ \A g \in Files : g # f => Reserved(g)' = Reserved(g)
<1>1. JobOf[f] = j /\ JobOf \in [Files -> Jobs] /\ prod[j].file = f
  BY WorkFacts, WriterAssumption DEF Works
<1>2. \A k \in Jobs : k # j => prod'[k] = prod[k]
  BY DEF Works
<1>3. Reserved(f) = prod[j].chunk /\ Reserved(f)' = prod'[j].chunk
  BY <1>1 DEF Reserved
<1>4. ASSUME NEW g \in Files, g # f PROVE Reserved(g)' = Reserved(g)
  <2>1. CASE JobOf[g] = j
    BY <1>1, <1>4, <2>1 DEF Reserved
  <2>2. CASE JobOf[g] # j
    BY <1>1, <1>2, <2>2 DEF Reserved
  <2>3. QED
    BY <2>1, <2>2
<1>5. QED
  BY <1>3, <1>4

(* The budgets and the gauge change by what the buffer's size and the      *)
(* decoder's reservation do.                                               *)
LEMMA WorkArea ==
    ASSUME WriterInv, NEW j \in Jobs, NEW f \in Files, NEW b, b # None, Works(j, f, b),
           buf'[b].done = 0, buf'[b].size \in Nat, buf'[b].size <= BufferSize,
           prod'[j].file = f \/ prod'[j].chunk = 0, prod'[j].chunk \in Nat,
           file'[f].inflight =
               file[f].inflight - buf[b].size + buf'[b].size - prod[j].chunk + prod'[j].chunk,
           inflight'[j] =
               inflight[j] - buf[b].size + buf'[b].size - prod[j].chunk + prod'[j].chunk,
           meter'.pending = meter.pending - buf[b].size + buf'[b].size,
           file'[f].inflight <= FileBudget, inflight'[j] <= JobBudget,
           \A k \in Jobs : k # j => inflight'[k] = inflight[k],
           meter'.accepted \in Nat, meter'.written \in Nat, meter'.discarded \in Nat
    PROVE  AreaInv'
<1>1. AreaInv /\ prod[j].chunk \in Nat /\ buf[b].size \in Nat
  BY WorkFacts DEF WriterInv, Types, Decoders, BufferStates
<1>2. /\ \A g \in Files : g # f => OfFile(g)' = OfFile(g)
      /\ \A k \in Jobs : k # j => OfJob(k)' = OfJob(k)
      /\ Area(OfFile(f)) \in Nat /\ Area(OfJob(j)) \in Nat /\ Area(Left) \in Nat
      /\ Area(OfFile(f)') = Area(OfFile(f)) - buf[b].size + buf'[b].size
      /\ Area(OfJob(j)') = Area(OfJob(j)) - buf[b].size + buf'[b].size
      /\ Area(Left') = Area(Left) - buf[b].size + buf'[b].size
  BY WorkAreas
<1>3. /\ Reserved(f) = prod[j].chunk /\ Reserved(f)' = prod'[j].chunk
      /\ \A g \in Files : g # f => Reserved(g)' = Reserved(g)
  BY WorkReserved
<1>4. /\ file[f].inflight = Area(OfFile(f)) + prod[j].chunk
      /\ inflight[j] = Area(OfJob(j)) + prod[j].chunk
      /\ meter.pending = Area(Left)
  BY <1>1, <1>3 DEF AreaInv
<1>5. file'[f].inflight = Area(OfFile(f)') + prod'[j].chunk
  BY <1>1, <1>2, <1>4
<1>6. inflight'[j] = Area(OfJob(j)') + prod'[j].chunk
  BY <1>1, <1>2, <1>4
<1>7. meter'.pending = Area(Left')
  BY <1>1, <1>2, <1>4
<1>8. ASSUME NEW g \in Files
      PROVE  file'[g].inflight = Area(OfFile(g)') + Reserved(g)' /\ file'[g].inflight <= FileBudget
  <2>1. CASE g = f
    BY <1>3, <1>5, <2>1
  <2>2. CASE g # f
    <3>1. file'[g] = file[g]
      BY <2>2 DEF Works
    <3>2. QED
      BY <1>1, <1>2, <1>3, <2>2, <3>1 DEF AreaInv
  <2>3. QED
    BY <2>1, <2>2
<1>9. ASSUME NEW k \in Jobs
      PROVE  inflight'[k] = Area(OfJob(k)') + prod'[k].chunk /\ inflight'[k] <= JobBudget
  <2>1. CASE k = j
    BY <1>6, <2>1
  <2>2. CASE k # j
    <3>1. prod'[k] = prod[k]
      BY <2>2 DEF Works
    <3>2. QED
      BY <1>1, <1>2, <2>2, <3>1 DEF AreaInv
  <2>3. QED
    BY <2>1, <2>2
<1>10. QED
  BY <1>7, <1>8, <1>9 DEF AreaInv, Area

(* The threads, the retry queue and what is known of the file do not       *)
(* change, and nothing is queued.                                          *)
LEMMA WorkUnqueued ==
    ASSUME WriterInv, NEW j \in Jobs, NEW f \in Files, NEW b, Works(j, f, b),
           UNCHANGED <<gate, token, waking, retryQ, wk, posted, packet, err, workQ>>,
           b # None => buf'[b].at \in {"free", "stage"},
           /\ file'[f].queued = file[f].queued /\ file'[f].closed = file[f].closed
           /\ file'[f].closing = file[f].closing /\ file'[f].handle = file[f].handle
           /\ file'[f].failed = file[f].failed /\ file'[f].tried = file[f].tried
           /\ file'[f].created = file[f].created
    PROVE  PlaceInv' /\ CloseInv' /\ WakeInv' /\ ErrInv'
<1>1. \A c \in Buffers : \/ buf'[c] = buf[c]
                         \/ buf[c].at \in {"free", "stage"} /\ buf'[c].at \in {"free", "stage"}
  BY WorkFacts DEF Works
<1>2. \A g \in Files : g # f => file'[g] = file[g]
  BY DEF Works
<1>3. PlaceInv'
  BY <1>1, PlaceSame
<1>4. CloseInv'
  <2>1. Closing' = Closing
    BY DEF Closing, ToSet
  <2>2. ~file[f].queued
    BY WorkFacts
  <2>3. QED
    BY <1>2, <2>1, <2>2, CloseFrame
<1>5. \A g \in Files : Remembers(g)
  BY <1>2 DEF Remembers
<1>6. QED
  BY <1>1, <1>3, <1>4, <1>5, DecoderQuiet

(* The first critical section of write(), in a job without an error.       *)
LEMMA ReservesStep ==
    ASSUME WriterInv, NEW j \in Jobs, NEW f \in Files, NEW b \in Buffers, NEW n \in Nat,
           Reserves(j, f, b, n)
    PROVE  WriterInv'
<1> DEFINE fl == [file[f] EXCEPT !.stage = b, !.inflight = file[f].inflight + n]
           d == Decoder("commit", f, prod[j].left, n, file[f].stage = None)
<1>1. /\ f = prod[j].file /\ prod[j].pc = "reserve"
      /\ n > 0 /\ n <= prod[j].left /\ buf[b].size + n <= BufferSize
      /\ inflight[j] + n <= JobBudget /\ file[f].inflight + n <= FileBudget
      /\ prod' = [prod EXCEPT ![j] = d] /\ file' = [file EXCEPT ![f] = fl]
      /\ inflight' = [inflight EXCEPT ![j] = inflight[j] + n]
      /\ UNCHANGED <<gate, envVars, token, waking, err, pending, workQ, lease, retryQ,
                     wakeVars, wk, disk, meter>>
  BY DEF Reserves
<1>2. \/ file[f].stage = b /\ buf' = buf /\ buf[b].size > 0
      \/ file[f].stage = None /\ buf[b] = FreeBuffer /\ buf' = [buf EXCEPT ![b] = Staged(f)]
  BY DEF Reserves
<1>3. Types /\ DecoderInv /\ prod[j].pc \in Writing
  BY <1>1, SMTT(60) DEF WriterInv, Writing
<1>4. /\ JobOf[f] = j /\ ~file[f].closing /\ file[f] \in FileStates /\ prod[j] \in Decoders
      /\ file[f].stage # None =>
                 /\ buf[file[f].stage].at = "stage" /\ buf[file[f].stage].file = f
                 /\ buf[file[f].stage].done = 0
  BY <1>1, <1>3, DecoderFile
<1>5. /\ buf[b] \in BufferStates /\ buf[b].size \in Nat /\ buf[b].size <= BufferSize
      /\ prod[j].left \in Nat /\ file[f].inflight \in Int /\ inflight[j] \in Int
      /\ b # None /\ prod[j].chunk = 0
      /\ file[f].accepted \in Nat /\ file[f].next \in Nat
  <2>1. buf[b] \in BufferStates /\ inflight[j] \in Int
    BY <1>3 DEF Types
  <2>2. buf[b].size <= BufferSize /\ b # None
    BY WriterAssumption DEF WriterInv, StageInv
  <2>3. prod[j].chunk = 0
    BY <1>1, <1>3 DEF DecoderInv
  <2>4. QED
    BY <1>4, <2>1, <2>2, <2>3 DEF BufferStates, FileStates, Decoders
<1>6. /\ fl \in FileStates /\ fl.stage = b /\ fl.inflight = file[f].inflight + n
      /\ fl.next = file[f].next /\ fl.outstanding = file[f].outstanding
      /\ fl.active = file[f].active /\ fl.accepted = file[f].accepted
      /\ fl.handle = file[f].handle /\ fl.tried = file[f].tried /\ fl.created = file[f].created
      /\ fl.failed = file[f].failed /\ fl.closing = file[f].closing
      /\ fl.queued = file[f].queued /\ fl.closed = file[f].closed
  <2>1. file[f].inflight + n \in Int
    BY <1>5
  <2>2. QED
    BY <1>4, <2>1 DEF FileStates
<1>7. /\ d \in Decoders /\ d.pc = "commit" /\ d.file = f /\ d.left = prod[j].left
      /\ d.chunk = n /\ (d.fresh <=> file[f].stage = None)
  BY <1>5 DEF Decoder, Decoders, Writing
<1> HIDE DEF fl, d
<1>8. /\ buf' \in [Buffers -> BufferStates] /\ \A c \in Buffers : c # b => buf'[c] = buf[c]
      /\ buf'[b].at = "stage" /\ buf'[b].file = f /\ buf'[b].size = buf[b].size
      /\ buf'[b].done = 0 /\ (buf[b].size = 0 <=> file[f].stage = None)
      /\ file[f].stage \in {None, b} /\ (buf[b] = FreeBuffer \/ file[f].stage = b)
  <2>1. CASE file[f].stage = b
    BY <1>2, <1>3, <1>4, <1>5, <2>1 DEF Types
  <2>2. CASE file[f].stage = None
    <3>1. buf[b] = FreeBuffer /\ buf' = [buf EXCEPT ![b] = Staged(f)]
      BY <1>2, <1>5, <2>2
    <3>2. /\ Staged(f) \in BufferStates /\ Staged(f).at = "stage" /\ Staged(f).file = f
          /\ Staged(f).size = 0 /\ Staged(f).done = 0 /\ buf[b].size = 0
      <4>1. FreeBuffer \in BufferStates /\ FreeBuffer.size = 0 /\ FreeBuffer.done = 0
        BY WriterAssumption DEF FreeBuffer, BufferStates
      <4>2. QED
        BY <3>1, <4>1 DEF Staged, BufferStates
    <3>3. buf'[b] = Staged(f)
      BY <1>3, <3>1 DEF Types
    <3>4. QED
      BY <1>3, <2>2, <3>1, <3>2, <3>3 DEF Types
  <2>3. QED
    BY <1>2, <2>1, <2>2
<1>9. file'[f] = fl /\ \A g \in Files : g # f => file'[g] = file[g]
  BY <1>1, <1>3 DEF Types
<1>10. prod'[j] = d /\ \A k \in Jobs : k # j => prod'[k] = prod[k]
  BY <1>1, ProdFacts
<1>11. inflight'[j] = inflight[j] + n /\ \A k \in Jobs : k # j => inflight'[k] = inflight[k]
  BY <1>1, <1>3 DEF Types
<1>12. Works(j, f, b)
  BY <1>1, <1>3, <1>8, <1>9, <1>10 DEF Works
<1>13. Types'
  <2>1. inflight' \in [Jobs -> Int]
    BY <1>1, <1>3, <1>5 DEF Types
  <2>2. prod' \in [Jobs -> Decoders] /\ file' \in [Files -> FileStates]
    BY <1>1, <1>3, <1>6, <1>7 DEF Types
  <2>3. QED
    BY <1>1, <1>3, <1>8, <2>1, <2>2 DEF Types, envVars, wakeVars
<1>14. PlaceInv' /\ CloseInv' /\ WakeInv' /\ ErrInv'
  BY <1>1, <1>6, <1>8, <1>9, <1>12, WorkUnqueued DEF wakeVars
<1>15. StageInv'
  <2>1. On(j, f)'
    BY <1>7, <1>10, ZenonT(60) DEF On, Writing
  <2>2. QED
    BY <1>5, <1>6, <1>7, <1>8, <1>9, <1>10, <1>12, <2>1, WorkStage
<1>16. DecoderInv'
  <2>1. /\ file[f].accepted + prod[j].left = Size[f] /\ file[f].next <= file[f].accepted
        /\ file[f].accepted <= Size[f]
        /\ file[f].stage = None => file[f].next = file[f].accepted
        /\ file[f].stage = b => file[f].next + buf[b].size = file[f].accepted
    BY <1>1, <1>3, <1>4, <1>5 DEF DecoderInv
  <2>2. file[f].next + buf[b].size = file[f].accepted
    BY <1>5, <1>8, <2>1
  <2>3. /\ prod'[j].pc = "commit" /\ prod'[j].file = f /\ prod'[j].left = prod[j].left
        /\ prod'[j].chunk = n /\ (prod'[j].fresh <=> buf[b].size = 0)
        /\ file'[f].stage = b /\ b # None /\ file'[f].accepted = file[f].accepted
        /\ file'[f].next = file[f].next /\ file'[f].closing = file[f].closing
    BY <1>5, <1>6, <1>7, <1>8, <1>9, <1>10
  <2>4. pending' = pending /\ err' = err
    BY <1>1
  <2>5. prod'[j].pc \in Writing
    BY <2>3 DEF Writing
  <2>6. QED
    BY <1>1, <1>4, <1>8, <1>12, <2>1, <2>2, <2>3, <2>4, <2>5, WorkDecoder
<1>17. CountInv'
  <2>1. /\ \A g \in Files : Filled(g)' = Filled(g) /\ InIO(g)' = InIO(g)
        /\ \A k \in Jobs : Holding(k)' = Holding(k)
    BY <1>5, <1>8, <1>12, WorkCounts
  <2>2. \A g \in Files : /\ file'[g].outstanding = file[g].outstanding
                         /\ file'[g].active = file[g].active
                         /\ file'[g].closing = file[g].closing
                         /\ file'[g].closed = file[g].closed
    BY <1>6, <1>9
  <2>3. \A k \in Jobs : Ending(k)' = Ending(k)
    BY <2>2 DEF Ending
  <2>4. QED
    BY <1>1, <2>1, <2>2, <2>3 DEF WriterInv, CountInv
<1>18. AreaInv'
  <2>1. /\ file'[f].inflight = file[f].inflight - buf[b].size + buf'[b].size - prod[j].chunk + prod'[j].chunk
        /\ inflight'[j] = inflight[j] - buf[b].size + buf'[b].size - prod[j].chunk + prod'[j].chunk
    BY <1>5, <1>6, <1>7, <1>8, <1>9, <1>10, <1>11
  <2>2. /\ meter' = meter /\ meter.accepted \in Nat /\ meter.written \in Nat
        /\ meter.discarded \in Nat /\ meter.pending \in Int
    BY <1>1 DEF WriterInv, AreaInv, Types
  <2>3. meter'.pending = meter.pending - buf[b].size + buf'[b].size
    BY <1>5, <1>8, <2>2
  <2>4. /\ file'[f].inflight <= FileBudget /\ inflight'[j] <= JobBudget
        /\ prod'[j].file = f /\ prod'[j].chunk \in Nat
    BY <1>1, <1>6, <1>7, <1>9, <1>10, <1>11
  <2>5. QED
    BY <1>5, <1>8, <1>11, <1>12, <2>1, <2>2, <2>3, <2>4, WorkArea
<1>19. DiskInv'
  <2>1. ~Live(b)'
    BY <1>8 DEF Live
  <2>2. file'[f].next = file[f].next
    BY <1>6, <1>9
  <2>3. QED
    BY <1>1, <1>12, <2>1, <2>2, WorkDisk
<1>20. QED
  BY <1>13, <1>14, <1>15, <1>16, <1>17, <1>18, <1>19 DEF WriterInv

LEMMA ReserveStep ==
    ASSUME WriterInv, NEW j \in Jobs, Reserve(j) PROVE WriterInv'
BY ReserveEffect, ReserveErrStep, ReservesStep

(* The second critical section of write(), when the job has failed.        *)
LEMMA AbortsStep ==
    ASSUME WriterInv, NEW j \in Jobs, NEW f \in Files, NEW b \in Buffers, NEW n \in Nat,
           Aborts(j, f, b, n)
    PROVE  WriterInv'
<1> DEFINE st == IF prod[j].fresh THEN None ELSE b
           fl == [file[f] EXCEPT !.inflight = file[f].inflight - n, !.stage = st]
           d == Decoder("close", f, prod[j].left, 0, FALSE)
<1>1. /\ f = prod[j].file /\ prod[j].pc = "commit" /\ b = file[f].stage /\ n = prod[j].chunk
      /\ prod' = [prod EXCEPT ![j] = d] /\ file' = [file EXCEPT ![f] = fl]
      /\ inflight' = [inflight EXCEPT ![j] = inflight[j] - n]
      /\ UNCHANGED <<gate, envVars, token, waking, err, pending, workQ, lease,
                     retryQ, wakeVars, wk, disk, meter>>
  BY SMTT(60) DEF Aborts
<1>2. \/ prod[j].fresh /\ buf[b].size = 0 /\ buf' = [buf EXCEPT ![b] = FreeBuffer]
      \/ ~prod[j].fresh /\ buf[b].size > 0 /\ buf' = buf
  BY DEF Aborts
<1>3. Types /\ DecoderInv /\ prod[j].pc \in Writing
  BY <1>1 DEF WriterInv, Writing
<1>4. b # None
  BY WriterAssumption, ZenonT(60)
<1>5. /\ JobOf[f] = j /\ ~file[f].closing /\ file[f] \in FileStates /\ prod[j] \in Decoders
      /\ buf[b] \in BufferStates /\ buf[b].at = "stage" /\ buf[b].file = f /\ buf[b].done = 0
  BY <1>1, <1>3, <1>4, DecoderFile
<1>6. /\ buf[b].size \in Nat /\ prod[j].left \in Nat /\ file[f].inflight \in Int
      /\ file[f].accepted \in Nat /\ file[f].next \in Nat
  BY <1>5 DEF BufferStates, FileStates, Decoders
<1>7. buf[b].size <= BufferSize /\ inflight[j] \in Int
  BY <1>3 DEF WriterInv, StageInv, Types
<1>8. /\ fl \in FileStates /\ fl.stage = st /\ fl.inflight = file[f].inflight - n
      /\ fl.next = file[f].next /\ fl.outstanding = file[f].outstanding
      /\ fl.active = file[f].active /\ fl.accepted = file[f].accepted
      /\ fl.handle = file[f].handle /\ fl.tried = file[f].tried /\ fl.created = file[f].created
      /\ fl.failed = file[f].failed /\ fl.closing = file[f].closing
      /\ fl.queued = file[f].queued /\ fl.closed = file[f].closed
  <2>1. file[f].inflight - n \in Int /\ st \in Buffers \cup {None}
    BY <1>6
  <2> HIDE DEF st
  <2>2. QED
    BY <1>5, <2>1 DEF FileStates
<1>9. /\ d \in Decoders /\ d.pc = "close" /\ d.file = f /\ d.left = prod[j].left /\ d.chunk = 0
  BY <1>6 DEF Decoder, Decoders, Writing
<1> HIDE DEF fl, d
<1>10. /\ buf' \in [Buffers -> BufferStates] /\ \A c \in Buffers : c # b => buf'[c] = buf[c]
       /\ buf'[b].size = buf[b].size /\ buf'[b].done = 0
       /\ \/ /\ st = None /\ buf'[b] = FreeBuffer /\ buf'[b].at = "free" /\ buf[b].size = 0
          \/ /\ st = b /\ buf'[b].at = "stage" /\ buf'[b].file = f /\ buf[b].size > 0
  <2>1. CASE prod[j].fresh
    <3>1. FreeBuffer \in BufferStates /\ FreeBuffer.size = 0 /\ FreeBuffer.done = 0
          /\ FreeBuffer.at = "free"
      BY WriterAssumption DEF FreeBuffer, BufferStates
    <3>2. QED
      BY <1>2, <1>3, <2>1, <3>1 DEF Types
  <2>2. CASE ~prod[j].fresh
    BY <1>2, <1>3, <1>5, <2>2 DEF Types
  <2>3. QED
    BY <2>1, <2>2
<1> HIDE DEF st
<1>11. file'[f] = fl /\ \A g \in Files : g # f => file'[g] = file[g]
  BY <1>1, <1>3 DEF Types
<1>12. prod'[j] = d /\ \A k \in Jobs : k # j => prod'[k] = prod[k]
  BY <1>1, ProdFacts
<1>13. inflight'[j] = inflight[j] - n /\ \A k \in Jobs : k # j => inflight'[k] = inflight[k]
  BY <1>1, <1>3 DEF Types
<1>14. Works(j, f, b)
  BY <1>1, <1>3, <1>10, <1>11, <1>12 DEF Works
<1>15. Types'
  <2>1. inflight' \in [Jobs -> Int]
    BY <1>1, <1>3, <1>7 DEF Types
  <2>2. prod' \in [Jobs -> Decoders] /\ file' \in [Files -> FileStates]
    BY <1>1, <1>3, <1>8, <1>9, SMTT(60) DEF Types
  <2>3. QED
    BY <1>1, <1>3, <1>10, <2>1, <2>2 DEF Types, envVars, wakeVars
<1>16. PlaceInv' /\ CloseInv' /\ WakeInv' /\ ErrInv'
  <2>1. buf'[b].at \in {"free", "stage"}
    BY <1>10
  <2>2. QED
    BY <1>1, <1>8, <1>11, <1>14, <2>1, WorkUnqueued DEF wakeVars
<1>17. StageInv'
  <2>1. On(j, f)'
    BY <1>9, <1>12 DEF On, Writing
  <2>2. file'[f].stage = st
    BY <1>8, <1>11
  <2>3. QED
    BY <1>4, <1>6, <1>7, <1>10, <1>14, <2>1, <2>2, WorkStage
<1>18. DecoderInv'
  <2>1. /\ file[f].accepted + prod[j].left = Size[f] /\ file[f].next <= file[f].accepted
        /\ file[f].accepted <= Size[f]
        /\ file[f].next + buf[b].size = file[f].accepted
    BY <1>1, <1>3, <1>4, <1>5 DEF DecoderInv
  <2>2. /\ prod'[j].pc = "close" /\ prod'[j].file = f /\ prod'[j].left = prod[j].left
        /\ prod'[j].chunk = 0
        /\ file'[f].stage = st /\ file'[f].accepted = file[f].accepted
        /\ file'[f].next = file[f].next /\ file'[f].closing = file[f].closing
    BY <1>8, <1>9, <1>11, <1>12
  <2>3. pending' = pending /\ err' = err
    BY <1>1
  <2>4. prod'[j].pc \in Writing
    BY <2>2 DEF Writing
  <2>5. /\ st = None => file[f].next = file[f].accepted
        /\ st # None => file[f].next + buf'[st].size = file[f].accepted
    BY <1>4, <1>6, <1>10, <2>1
  <2>6. QED
    BY <1>5, <1>14, <2>1, <2>2, <2>3, <2>4, <2>5, WorkDecoder, SMTT(60)
<1>19. CountInv'
  <2>1. buf'[b].at # "io"
    BY <1>10
  <2>2. /\ \A g \in Files : Filled(g)' = Filled(g) /\ InIO(g)' = InIO(g)
        /\ \A k \in Jobs : Holding(k)' = Holding(k)
    BY <1>4, <1>10, <1>14, <2>1, WorkCounts
  <2>3. \A g \in Files : /\ file'[g].outstanding = file[g].outstanding
                         /\ file'[g].active = file[g].active
                         /\ file'[g].closing = file[g].closing
                         /\ file'[g].closed = file[g].closed
    BY <1>8, <1>11
  <2>4. \A k \in Jobs : Ending(k)' = Ending(k)
    BY <2>3 DEF Ending
  <2>5. QED
    BY <1>1, <2>2, <2>3, <2>4 DEF WriterInv, CountInv
<1>20. AreaInv'
  <2>1. /\ file'[f].inflight = file[f].inflight - buf[b].size + buf'[b].size - prod[j].chunk + prod'[j].chunk
        /\ inflight'[j] = inflight[j] - buf[b].size + buf'[b].size - prod[j].chunk + prod'[j].chunk
    BY <1>1, <1>6, <1>7, <1>8, <1>9, <1>10, <1>11, <1>12, <1>13
  <2>2. /\ meter' = meter /\ meter.accepted \in Nat /\ meter.written \in Nat
        /\ meter.discarded \in Nat /\ meter.pending \in Int
        /\ file[f].inflight <= FileBudget /\ inflight[j] <= JobBudget
    BY <1>1 DEF WriterInv, AreaInv, Types
  <2>3. meter'.pending = meter.pending - buf[b].size + buf'[b].size
    BY <1>6, <1>10, <2>2
  <2>4. /\ file'[f].inflight <= FileBudget /\ inflight'[j] <= JobBudget
        /\ prod'[j].file = f /\ prod'[j].chunk \in Nat
    BY <1>6, <1>7, <1>8, <1>9, <1>11, <1>12, <1>13, <2>2, WriterAssumption
  <2>5. QED
    BY <1>4, <1>6, <1>7, <1>10, <1>13, <1>14, <2>1, <2>2, <2>3, <2>4, WorkArea, ZenonT(60)
<1>21. DiskInv'
  <2>1. ~Live(b)'
    BY <1>10 DEF Live
  <2>2. file'[f].next = file[f].next
    BY <1>8, <1>11
  <2>3. QED
    BY <1>1, <1>14, <2>1, <2>2, WorkDisk
<1>22. QED
  BY <1>15, <1>16, <1>17, <1>18, <1>19, <1>20, <1>21 DEF WriterInv

(* What the acceptance of a chunk leaves, whether the buffer is queued or  *)
(* not.                                                                    *)
Takes(f, b, n, size, first, fl, nb) ==
    /\ file' = [file EXCEPT ![f] = fl] /\ buf' = [buf EXCEPT ![b] = nb]
    /\ fl \in FileStates /\ fl.accepted = file[f].accepted + n
    /\ fl.outstanding = file[f].outstanding + first /\ fl.inflight = file[f].inflight
    /\ fl.active = file[f].active
    /\ fl.handle = file[f].handle /\ fl.tried = file[f].tried /\ fl.created = file[f].created
    /\ fl.failed = file[f].failed /\ fl.closing = file[f].closing
    /\ fl.queued = file[f].queued /\ fl.closed = file[f].closed
    /\ nb \in BufferStates /\ nb.size = size /\ nb.done = 0 /\ nb.file = f
    /\ \/ fl.stage = b /\ nb.at = "stage" /\ fl.next = file[f].next
       \/ /\ fl.stage = None /\ nb.at = "queue" /\ fl.next = file[f].next + size
          /\ nb.offset = file[f].next

LEMMA AcceptCommon ==
    ASSUME WriterInv, NEW j \in Jobs, NEW f \in Files, NEW b \in Buffers, NEW n \in Nat,
           NEW size \in Nat, NEW first \in {0, 1}, NEW pc \in {"reserve", "close"},
           Accepts(j, f, b, n, size, first, pc),
           NEW fl, NEW nb, Takes(f, b, n, size, first, fl, nb)
    PROVE  /\ Works(j, f, b) /\ Types' /\ StageInv' /\ DecoderInv' /\ CountInv'
           /\ AreaInv' /\ DiskInv'
<1> DEFINE d == Decoder(pc, f, prod[j].left - n, 0, FALSE)
<1>1. /\ f = prod[j].file /\ prod[j].pc = "commit" /\ b = file[f].stage /\ n = prod[j].chunk
      /\ size = buf[b].size + n /\ size > 0 /\ size <= BufferSize
      /\ \/ buf[b].size = 0 /\ first = 1
         \/ buf[b].size > 0 /\ first = 0
      /\ pending' = [pending EXCEPT ![j] = pending[j] + first]
      /\ meter' = Accepted(meter, n)
      /\ (pc = "reserve" => prod[j].left - n > 0)
      /\ prod' = [prod EXCEPT ![j] = d]
      /\ UNCHANGED <<gate, envVars, token, waking, err, inflight, lease, retryQ,
                     wakeVars, wk, disk>>
  BY Zenon DEF Accepts
<1>0. /\ size = buf[b].size + n /\ size > 0 /\ size <= BufferSize /\ n = prod[j].chunk
      /\ (buf[b].size = 0 /\ first = 1) \/ (buf[b].size > 0 /\ first = 0)
  BY <1>1, Zenon
<1>2. Types /\ DecoderInv /\ prod[j].pc \in Writing /\ b # None
  BY <1>1, WriterAssumption, Zenon DEF WriterInv, Writing
<1>3. /\ JobOf[f] = j /\ ~file[f].closing /\ file[f] \in FileStates /\ prod[j] \in Decoders
      /\ buf[b] \in BufferStates /\ buf[b].at = "stage" /\ buf[b].file = f /\ buf[b].done = 0
  BY <1>1, <1>2, DecoderFile, Zenon
<1>4. /\ buf[b].size \in Nat /\ prod[j].left \in Nat /\ file[f].inflight \in Int
      /\ file[f].accepted \in Nat /\ file[f].next \in Nat /\ file[f].outstanding \in Int
  BY <1>3, Zenon DEF BufferStates, FileStates, Decoders
<1>5. /\ n <= prod[j].left /\ file[f].accepted + prod[j].left = Size[f]
      /\ file[f].next + buf[b].size = file[f].accepted /\ Size[f] \in Nat
  BY <1>1, <1>2, WriterAssumption, ZenonT(60) DEF DecoderInv
<1>6. prod[j].left - n \in Nat /\ inflight[j] \in Int /\ pending[j] \in Int
  BY <1>2, <1>4, <1>5 DEF Types
<1>7. d \in Decoders /\ d.pc = pc /\ d.file = f /\ d.left = prod[j].left - n /\ d.chunk = 0
  BY <1>6 DEF Decoder, Decoders, Writing
<1> HIDE DEF d
<1>8. file'[f] = fl /\ \A g \in Files : g # f => file'[g] = file[g]
  BY <1>2 DEF Types, Takes
<1>9. prod'[j] = d /\ \A k \in Jobs : k # j => prod'[k] = prod[k]
  BY <1>1, ProdFacts, Zenon
<1>10. buf'[b] = nb /\ \A c \in Buffers : c # b => buf'[c] = buf[c]
  BY <1>2 DEF Types, Takes
<1>11. pending'[j] = pending[j] + first /\ \A k \in Jobs : k # j => pending'[k] = pending[k]
  BY <1>1, <1>2, Zenon DEF Types
<1>12. nb.size = size /\ nb.done = 0 /\ nb.file = f /\ nb.at \in {"stage", "queue"}
  BY Zenon DEF Takes
<1>13. /\ meter'.accepted = meter.accepted + n /\ meter'.pending = meter.pending + n
       /\ meter'.written = meter.written /\ meter'.discarded = meter.discarded
       /\ meter' \in [accepted : Int, written : Int, discarded : Int, pending : Int]
  <2>1. meter.accepted + n \in Int /\ meter.pending + n \in Int
    BY <1>2 DEF Types
  <2>2. QED
    BY <1>1, <1>2, <2>1, Zenon DEF Accepted, Types
<1>14. Works(j, f, b)
  BY <1>1, <1>2, <1>8, <1>9, <1>10, <1>12, Zenon DEF Works
<1>15. Types'
  <2>1. pending' \in [Jobs -> Int]
    <3>1. pending \in [Jobs -> Int]
      BY <1>2, Zenon DEF Types
    <3>2. first \in Int
      OBVIOUS
    <3>3. pending[j] + first \in Int
      BY <1>6, <3>2
    <3>4. QED
      BY <1>1, <3>1, <3>3, Zenon
  <2>2. prod' \in [Jobs -> Decoders] /\ file' \in [Files -> FileStates]
    BY <1>1, <1>2, <1>7, Zenon DEF Types, Takes
  <2>3. buf' \in [Buffers -> BufferStates]
    BY <1>2 DEF Types, Takes
  <2>4. QED
    BY <1>1, <1>2, <1>13, <2>1, <2>2, <2>3, Zenon DEF Types, envVars, wakeVars
<1>16. StageInv'
  <2>1. On(j, f)'
    BY <1>7, <1>9 DEF On, Writing
  <2>2. \/ file'[f].stage = b /\ nb.at = "stage"
        \/ file'[f].stage = None /\ nb.at = "queue"
    BY <1>8, Zenon DEF Takes
  <2>3. QED
    BY <1>0, <1>2, <1>10, <1>12, <1>14, <2>1, <2>2, WorkStage
<1>17. DecoderInv'
  <2>1. /\ prod'[j].pc = pc /\ prod'[j].file = f /\ prod'[j].left = prod[j].left - n
        /\ prod'[j].chunk = 0 /\ pc \in Writing /\ pc # "commit" /\ pc # "done"
    BY <1>7, <1>9 DEF Writing
  <2>2. /\ file'[f].accepted = file[f].accepted + n /\ ~file'[f].closing
        /\ \/ file'[f].stage = b /\ file'[f].next = file[f].next
           \/ file'[f].stage = None /\ file'[f].next = file[f].next + size
    BY <1>3, <1>8 DEF Takes
  <2>3. /\ file'[f].accepted + prod'[j].left = Size[f] /\ file'[f].accepted <= Size[f]
    BY <1>4, <1>5, <2>1, <2>2
  <2>4. file[f].next + size = file'[f].accepted
    BY <1>0, <1>4, <1>5, <2>2
  <2>5. file'[f].next <= file'[f].accepted
    BY <1>0, <1>4, <2>2, <2>4
  <2>6. /\ file'[f].stage = None => file'[f].next = file'[f].accepted
        /\ file'[f].stage # None => file'[f].next + buf'[file'[f].stage].size = file'[f].accepted
    BY <1>2, <1>10, <1>12, <2>2, <2>4, Zenon
  <2>7. err' = err
    BY <1>1, Zenon
  <2>8. QED
    BY <1>1, <1>11, <1>14, <2>1, <2>2, <2>3, <2>5, <2>6, <2>7, WorkDecoder, Zenon
<1>18. CountInv'
  <2>1. buf'[b].at # "io" /\ buf'[b].size > 0
    BY <1>1, <1>10, <1>12, Zenon
  <2>2. /\ \A g \in Files : g # f => Filled(g)' = Filled(g)
        /\ \A g \in Files : InIO(g)' = InIO(g)
        /\ \A k \in Jobs : k # j => Holding(k)' = Holding(k)
        /\ buf[b].size > 0 => Filled(f)' = Filled(f) /\ Holding(j)' = Holding(j)
        /\ buf[b].size = 0 =>
              /\ Cardinality(Filled(f)') = Cardinality(Filled(f)) + 1
              /\ Cardinality(Holding(j)') = Cardinality(Holding(j)) + 1
        /\ Cardinality(Filled(f)) \in Nat /\ Cardinality(Holding(j)) \in Nat
    BY <1>2, <1>14, <2>1, WorkCounts
  <2>3. /\ Cardinality(Filled(f)') = Cardinality(Filled(f)) + first
        /\ Cardinality(Holding(j)') = Cardinality(Holding(j)) + first
    BY <1>0, <2>2
  <2>4. \A g \in Files : /\ file'[g].active = file[g].active
                         /\ file'[g].closing = file[g].closing
                         /\ file'[g].closed = file[g].closed
    BY <1>8 DEF Takes
  <2>5. \A k \in Jobs : Ending(k)' = Ending(k)
    BY <2>4 DEF Ending
  <2>6. CountInv /\ file'[f].outstanding = file[f].outstanding + first
    BY <1>8 DEF WriterInv, Takes
  <2>7. Ending(j) \in SUBSET Files /\ IsFiniteSet(Files)
    BY WriterAssumption DEF Ending
  <2>8. Cardinality(Ending(j)) \in Nat
    BY <2>7, Sizes
  <2>9. pending[j] = Cardinality(Holding(j)) + Cardinality(Ending(j))
    BY <2>6 DEF CountInv
  <2>10. pending'[j] = Cardinality(Holding(j)') + Cardinality(Ending(j)')
    BY <1>11, <2>2, <2>3, <2>5, <2>8, <2>9
  <2>11. \A k \in Jobs : pending'[k] = Cardinality(Holding(k)') + Cardinality(Ending(k)')
    BY <1>11, <2>2, <2>5, <2>6, <2>10 DEF CountInv
  <2>12. \A g \in Files : /\ file'[g].outstanding = Cardinality(Filled(g)')
                          /\ file'[g].active = Cardinality(InIO(g)')
    BY <1>8, <2>2, <2>3, <2>4, <2>6, ZenonT(60) DEF CountInv
  <2>13. QED
    BY <2>11, <2>12, Zenon DEF CountInv
<1>19. AreaInv'
  <2>1. file'[f].inflight = file[f].inflight /\ inflight'[j] = inflight[j] /\ inflight' = inflight
    BY <1>1, <1>8, Zenon DEF Takes
  <2>2. prod'[j].chunk = 0 /\ prod'[j].file = f /\ buf'[b].size = size /\ buf'[b].done = 0
    BY <1>7, <1>9, <1>10, <1>12
  <2>3. /\ file'[f].inflight = file[f].inflight - buf[b].size + buf'[b].size - prod[j].chunk + prod'[j].chunk
        /\ inflight'[j] = inflight[j] - buf[b].size + buf'[b].size - prod[j].chunk + prod'[j].chunk
    BY <1>0, <1>4, <1>6, <2>1, <2>2
  <2>4. /\ meter.accepted \in Nat /\ meter.written \in Nat
        /\ meter.discarded \in Nat /\ meter.pending \in Int
        /\ file[f].inflight <= FileBudget /\ inflight[j] <= JobBudget
    BY DEF WriterInv, AreaInv, Types
  <2>5. meter'.pending = meter.pending - buf[b].size + buf'[b].size
    BY <1>0, <1>4, <1>13, <2>2, <2>4
  <2>6. meter'.accepted \in Nat /\ meter'.written \in Nat /\ meter'.discarded \in Nat
    BY <1>13, <2>4
  <2>7. 0 \in Nat
    OBVIOUS
  <2>8. QED
    BY <1>1, <1>2, <1>14, <2>1, <2>2, <2>3, <2>4, <2>5, <2>6, <2>7, WorkArea, Zenon
<1>20. DiskInv'
  <2>1. CASE file'[f].stage = b
    <3>1. nb.at = "stage" /\ file'[f].next = file[f].next
      BY <1>2, <1>8, <2>1 DEF Takes
    <3>2. ~Live(b)'
      BY <1>10, <3>1, Zenon DEF Live
    <3>3. QED
      BY <1>1, <1>14, <3>1, <3>2, WorkDisk, Zenon
  <2>2. CASE file'[f].stage # b
    <3>1. nb.at = "queue" /\ file'[f].next = file[f].next + size /\ nb.offset = file[f].next
      BY <1>8, <2>2 DEF Takes
    <3>2. QED
      BY <1>1, <1>2, <1>10, <1>12, <1>14, <3>1, QueueDisk, Zenon
  <2>3. QED
    BY <2>1, <2>2, Zenon
<1>21. QED
  BY <1>14, <1>15, <1>16, <1>17, <1>18, <1>19, <1>20, Zenon

(* A buffer the decoder hands over to the writer.                          *)
LEMMA WorkQueued ==
    ASSUME WriterInv, NEW j \in Jobs, NEW f \in Files, NEW b \in Buffers, Works(j, f, b),
           UNCHANGED <<gate, token, waking, retryQ, wk, posted, packet>>, err \subseteq err',
           buf[b].at = "stage", buf'[b].at = "queue", workQ' = Append(workQ, b),
           /\ file'[f].queued = file[f].queued /\ file'[f].closed = file[f].closed
           /\ file'[f].handle = file[f].handle
           /\ file'[f].failed = file[f].failed /\ file'[f].tried = file[f].tried
           /\ file'[f].created = file[f].created
    PROVE  PlaceInv' /\ CloseInv' /\ WakeInv' /\ ErrInv'
<1>1. /\ \A c \in Buffers : c # b => buf'[c] = buf[c]
      /\ \A g \in Files : g # f => file'[g] = file[g]
  BY DEF Works
<1>2. Queues /\ Placed
  BY PlaceParts DEF WriterInv
<1>3. /\ b \in Items /\ b \notin Files /\ b \notin ToSet(workQ) \cup ToSet(retryQ)
      /\ \A w \in Workers : wk[w].item # b
  BY <1>2, WriterAssumption DEF Placed, Items
<1>4. workQ' \in Seq(Items) /\ Once(workQ') /\ ToSet(workQ') = ToSet(workQ) \cup {b}
  BY <1>2, <1>3, AppendFacts DEF Queues
<1>5. Queues' /\ ToSet(retryQ') = ToSet(retryQ)
  BY <1>2, <1>4 DEF Queues
<1>6. PlaceInv'
  BY <1>1, <1>3, <1>4, <1>5, PlaceWork
<1>7. CloseInv'
  <2>1. Closing' \cap Files \subseteq Closing
    BY <1>3, <1>4, <1>5 DEF Closing
  <2>2. ~file[f].queued /\ ~file[f].closed
    BY WorkFacts
  <2>3. \A g \in Files : g \in Closing' => g \in Closing
    BY <2>1
  <2>4. f \notin Closing
    BY <2>2 DEF WriterInv, CloseInv
  <2>5. QED
    BY <1>1, <2>2, <2>3, <2>4, CloseGains
<1>8. \A g \in Files : Remembers(g)
  BY <1>1 DEF Remembers
<1>9. \A c \in Buffers : buf'[c] = buf[c] \/ buf[c].at \in {"free", "stage"}
  BY <1>1
<1>10. QED
  BY <1>6, <1>7, <1>8, <1>9, DecoderQuiet

(* The second critical section of write() otherwise.                       *)
LEMMA CommitStep ==
    ASSUME WriterInv, NEW j \in Jobs, Commit(j) PROVE WriterInv'
<1>1. PICK f \in Files, b \in Buffers, n \in Nat, size \in Nat, first \in {0, 1},
           pc \in {"reserve", "close"} :
           Accepts(j, f, b, n, size, first, pc)
               /\ (Kept(f, b, n, size, first) \/ Enqueued(f, b, n, size, first))
  BY CommitEffect, ZenonT(60)
<1>2. /\ f = prod[j].file /\ prod[j].pc = "commit" /\ b = file[f].stage
      /\ UNCHANGED <<gate, token, waking, err, retryQ, wakeVars, wk>>
  BY <1>1 DEF Accepts
<1>3. UNCHANGED <<gate, token, waking, err, retryQ, posted, packet, wk>>
  BY <1>2 DEF wakeVars
<1>4. b # None /\ prod[j].pc \in Writing
  BY <1>2, WriterAssumption DEF Writing
<1>5. /\ JobOf[f] = j /\ ~file[f].closing /\ file[f] \in FileStates
      /\ buf[b] \in BufferStates /\ buf[b].at = "stage" /\ buf[b].file = f /\ buf[b].done = 0
  BY <1>2, <1>4, DecoderFile
<1>6. file[f].accepted + n \in Nat /\ file[f].outstanding + first \in Int /\ file[f].next + size \in Nat
  BY <1>5 DEF FileStates
<1>7. CASE Kept(f, b, n, size, first)
  <2> DEFINE fl == [file[f] EXCEPT !.accepted = file[f].accepted + n,
                                   !.outstanding = file[f].outstanding + first]
             nb == [buf[b] EXCEPT !.size = size]
  <2>1. file' = [file EXCEPT ![f] = fl] /\ buf' = [buf EXCEPT ![b] = nb] /\ workQ' = workQ
    BY <1>7 DEF Kept
  <2>2. /\ nb \in BufferStates /\ nb.size = size /\ nb.done = 0 /\ nb.file = f /\ nb.at = "stage"
    BY <1>5 DEF BufferStates
  <2>3. Takes(f, b, n, size, first, fl, nb)
    <3>1. /\ fl \in FileStates /\ fl.accepted = file[f].accepted + n
          /\ fl.outstanding = file[f].outstanding + first /\ fl.inflight = file[f].inflight
          /\ fl.active = file[f].active
          /\ fl.handle = file[f].handle /\ fl.tried = file[f].tried /\ fl.created = file[f].created
          /\ fl.failed = file[f].failed /\ fl.closing = file[f].closing
          /\ fl.queued = file[f].queued /\ fl.closed = file[f].closed
          /\ fl.stage = b /\ fl.next = file[f].next
      BY <1>2, <1>5, <1>6 DEF FileStates
    <3> HIDE DEF fl, nb
    <3>2. QED
      BY <2>1, <2>2, <3>1 DEF Takes
  <2> HIDE DEF fl, nb
  <2>4. /\ Works(j, f, b) /\ Types' /\ StageInv' /\ DecoderInv' /\ CountInv'
        /\ AreaInv' /\ DiskInv'
    BY <1>1, <2>3, AcceptCommon
  <2>5. file'[f] = fl /\ buf'[b] = nb
    BY <2>1 DEF WriterInv, Types
  <2>6. PlaceInv' /\ CloseInv' /\ WakeInv' /\ ErrInv'
    <3>1. /\ file'[f].queued = file[f].queued /\ file'[f].closed = file[f].closed
          /\ file'[f].closing = file[f].closing /\ file'[f].handle = file[f].handle
          /\ file'[f].failed = file[f].failed /\ file'[f].tried = file[f].tried
          /\ file'[f].created = file[f].created /\ buf'[b].at = "stage"
      BY <2>2, <2>3, <2>5 DEF Takes
    <3>2. QED
      BY <1>3, <2>1, <2>4, <3>1, WorkUnqueued
  <2>7. QED
    BY <2>4, <2>6 DEF WriterInv
<1>8. CASE Enqueued(f, b, n, size, first)
  <2> DEFINE fl == [file[f] EXCEPT !.accepted = file[f].accepted + n,
                                   !.outstanding = file[f].outstanding + first,
                                   !.stage = None, !.next = file[f].next + size]
             nb == [buf[b] EXCEPT !.size = size, !.at = "queue", !.offset = file[f].next]
  <2>1. file' = [file EXCEPT ![f] = fl] /\ buf' = [buf EXCEPT ![b] = nb]
        /\ workQ' = Append(workQ, b)
    BY <1>8 DEF Enqueued
  <2>2. /\ nb \in BufferStates /\ nb.size = size /\ nb.done = 0 /\ nb.file = f
        /\ nb.at = "queue" /\ nb.offset = file[f].next
    <3>1. file[f].next \in Nat
      BY <1>5 DEF FileStates
    <3>2. QED
      BY <1>5, <3>1 DEF BufferStates
  <2>3. Takes(f, b, n, size, first, fl, nb)
    <3>1. /\ fl \in FileStates /\ fl.accepted = file[f].accepted + n
          /\ fl.outstanding = file[f].outstanding + first /\ fl.inflight = file[f].inflight
          /\ fl.active = file[f].active
          /\ fl.handle = file[f].handle /\ fl.tried = file[f].tried /\ fl.created = file[f].created
          /\ fl.failed = file[f].failed /\ fl.closing = file[f].closing
          /\ fl.queued = file[f].queued /\ fl.closed = file[f].closed
          /\ fl.stage = None /\ fl.next = file[f].next + size
      BY <1>5, <1>6, ZenonT(60) DEF FileStates
    <3> HIDE DEF fl, nb
    <3>2. QED
      BY <2>1, <2>2, <3>1 DEF Takes
  <2> HIDE DEF fl, nb
  <2>4. /\ Works(j, f, b) /\ Types' /\ StageInv' /\ DecoderInv' /\ CountInv'
        /\ AreaInv' /\ DiskInv'
    BY <1>1, <2>3, AcceptCommon
  <2>5. file'[f] = fl /\ buf'[b] = nb
    BY <2>1 DEF WriterInv, Types
  <2>6. PlaceInv' /\ CloseInv' /\ WakeInv' /\ ErrInv'
    <3>1. /\ file'[f].queued = file[f].queued /\ file'[f].closed = file[f].closed
          /\ file'[f].closing = file[f].closing /\ file'[f].handle = file[f].handle
          /\ file'[f].failed = file[f].failed /\ file'[f].tried = file[f].tried
          /\ file'[f].created = file[f].created /\ buf'[b].at = "queue"
      BY <2>2, <2>3, <2>5 DEF Takes
    <3>2. QED
      BY <1>3, <1>5, <2>1, <2>4, <3>1, WorkQueued
  <2>7. QED
    BY <2>4, <2>6 DEF WriterInv
<1>9. QED
  BY <1>1, <1>7, <1>8

LEMMA CommitAbortsStep ==
    ASSUME WriterInv, NEW j \in Jobs, CommitAborts(j) PROVE WriterInv'
BY AbortEffect, AbortsStep

(* The stream of a file is closed, and its close queued if nothing of it   *)
(* is outstanding.                                                         *)
LEMMA WorkCloses ==
    ASSUME WriterInv, NEW j \in Jobs, NEW f \in Files, NEW b, Works(j, f, b),
           UNCHANGED <<gate, token, waking, retryQ, wk, posted, packet>>, err \subseteq err',
           b # None => buf'[b].at \in {"free", "stage"},
           NEW fl \in FileStates, fl.closing, ~fl.queued, ~fl.closed, CloseQueued(f, fl),
           /\ fl.handle = file[f].handle /\ fl.failed = file[f].failed
           /\ fl.tried = file[f].tried /\ fl.created = file[f].created
    PROVE  /\ PlaceInv' /\ CloseInv' /\ WakeInv' /\ ErrInv'
           /\ \E q \in BOOLEAN : file' = [file EXCEPT ![f] = [fl EXCEPT !.queued = q]]
<1>1. PICK q \in BOOLEAN :
          /\ file' = [file EXCEPT ![f] = [fl EXCEPT !.queued = q]]
          /\ \/ q /\ fl.outstanding = 0 /\ workQ' = Append(workQ, f)
             \/ ~q /\ workQ' = workQ
  <2>1. CASE fl.outstanding = 0
    BY <2>1 DEF CloseQueued
  <2>2. CASE fl.outstanding # 0
    <3>1. fl = [fl EXCEPT !.queued = FALSE]
      BY DEF FileStates
    <3>2. file' = [file EXCEPT ![f] = [fl EXCEPT !.queued = FALSE]] /\ workQ' = workQ
      BY <2>2, <3>1 DEF CloseQueued
    <3>3. QED
      BY <3>2
  <2>3. QED
    BY <2>1, <2>2
<1> DEFINE new == [fl EXCEPT !.queued = q]
<1>2. /\ new.closing /\ ~new.closed /\ new.queued = q /\ new.outstanding = fl.outstanding
      /\ new.handle = file[f].handle /\ new.failed = file[f].failed
      /\ new.tried = file[f].tried /\ new.created = file[f].created
  BY DEF FileStates
<1> HIDE DEF new
<1>3. file'[f] = new
  BY <1>1 DEF WriterInv, Types, new
<1>4. /\ \A g \in Files : g # f => file'[g] = file[g]
      /\ \A c \in Buffers : \/ buf'[c] = buf[c]
                            \/ buf[c].at \in {"free", "stage"} /\ buf'[c].at \in {"free", "stage"}
      /\ ~file[f].queued /\ ~file[f].closed
  BY WorkFacts DEF Works
<1>5. Queues /\ Placed
  BY PlaceParts DEF WriterInv
<1>6. f \notin Closing
  BY <1>4 DEF WriterInv, CloseInv
<1>7. /\ f \notin ToSet(workQ) \cup ToSet(retryQ) /\ (\A w \in Workers : wk[w].item # f)
      /\ f \in Items /\ f \notin Buffers
  BY <1>6, WriterAssumption DEF Closing, Items
<1>8. PlaceInv' /\ (\A g \in Files : g # f /\ g \in Closing' => g \in Closing) /\ (f \in Closing' => q)
  <2>1. CASE workQ' = workQ
    <3>1. PlaceInv'
      BY <1>4, <2>1, PlaceSame
    <3>2. Closing' = Closing
      BY <2>1 DEF Closing, ToSet
    <3>3. QED
      BY <1>6, <3>1, <3>2
  <2>2. CASE q /\ workQ' = Append(workQ, f)
    <3>1. workQ' \in Seq(Items) /\ Once(workQ') /\ ToSet(workQ') = ToSet(workQ) \cup {f}
      BY <1>5, <1>7, <2>2, AppendFacts DEF Queues
    <3>2. Queues' /\ ToSet(retryQ') = ToSet(retryQ)
      BY <1>5, <3>1 DEF Queues
    <3>3. \A c \in Buffers : \/ buf'[c].at = buf[c].at
                             \/ /\ buf[c].at \notin {"queue", "retry"}
                                /\ buf'[c].at \notin {"queue", "retry"}
                                /\ \A w \in Workers : wk'[w].item # c
      BY <1>4, <1>5 DEF Placed
    <3>4. PlaceInv'
      BY <1>7, <3>1, <3>2, <3>3, PlaceWork
    <3>5. \A g \in Files : g # f /\ g \in Closing' => g \in Closing
      BY <3>1, <3>2 DEF Closing
    <3>6. QED
      BY <2>2, <3>4, <3>5
  <2>3. QED
    BY <1>1, <2>1, <2>2
<1>9. CloseInv'
  <2>1. q => fl.outstanding = 0
    BY <1>1
  <2>2. QED
    BY <1>2, <1>3, <1>4, <1>8, <2>1, CloseGains
<1>10. \A g \in Files : Remembers(g)
  BY <1>2, <1>3, <1>4 DEF Remembers
<1>11. \A c \in Buffers : buf'[c] = buf[c] \/ buf[c].at \in {"free", "stage"}
  BY <1>4
<1>12. QED
  BY <1>1, <1>8, <1>9, <1>10, <1>11, DecoderQuiet

LEMMA EndingGrows ==
    ASSUME WriterInv, NEW j \in Jobs, NEW f \in Files, NEW b, Works(j, f, b),
           file'[f].closing, ~file'[f].closed
    PROVE  /\ Cardinality(Ending(j)') = Cardinality(Ending(j)) + 1
           /\ Cardinality(Ending(j)) \in Nat
           /\ \A k \in Jobs : k # j => Ending(k)' = Ending(k)
<1>1. /\ JobOf[f] = j /\ ~file[f].closing /\ \A g \in Files : g # f => file'[g] = file[g]
  BY WorkFacts DEF Works
<1>2. Ending(j)' = Ending(j) \cup {f} /\ f \in Files \ Ending(j)
  BY <1>1 DEF Ending
<1>3. Ending(j) \in SUBSET Files /\ IsFiniteSet(Files)
  BY WriterAssumption DEF Ending
<1>4. \A k \in Jobs : k # j => Ending(k)' = Ending(k)
  BY <1>1 DEF Ending
<1>5. QED
  BY <1>2, <1>3, <1>4, Sizes

(* What all three ways to close a stream have in common.                   *)
LEMMA ClosesFacts ==
    ASSUME WriterInv, NEW j \in Jobs, NEW f \in Files, Closes(j, f)
    PROVE  /\ f = prod[j].file /\ prod[j].pc = "close" /\ prod[j].pc \in Writing
           /\ JobOf[f] = j /\ ~file[f].closing /\ ~file[f].queued /\ ~file[f].closed
           /\ file[f] \in FileStates /\ prod[j].chunk = 0
           /\ err \subseteq err' /\ err' \subseteq Jobs
           /\ prod' \in [Jobs -> Decoders] /\ \A k \in Jobs : k # j => prod'[k] = prod[k]
           /\ prod'[j].pc \notin Writing \cup {"done"} /\ prod'[j].chunk = 0
           /\ prod'[j].left = 0
           /\ UNCHANGED <<gate, token, waking, retryQ, wk, posted, packet, vol, events,
                          lease, disk>>
           /\ file[f].accepted \in Nat /\ file[f].next \in Nat
           /\ file[f].next <= file[f].accepted /\ file[f].accepted <= Size[f]
<1>1. /\ f = prod[j].file /\ prod[j].pc = "close" /\ err' = Synchronized({j})
      /\ UNCHANGED <<gate, token, waking, retryQ, wk, posted, packet, vol, events, lease, disk>>
  BY DEF Closes, envVars, wakeVars
<1>2. prod[j].pc \in Writing
  BY <1>1 DEF Writing
<1>3. /\ JobOf[f] = j /\ ~file[f].closing /\ ~file[f].queued /\ ~file[f].closed
      /\ file[f] \in FileStates
  BY <1>1, <1>2, DecoderFile
<1>4. PICK pc \in {"next", "finish"} : prod' = [prod EXCEPT ![j] = Decoder(pc, None, 0, 0, FALSE)]
  BY DEF Closes
<1> DEFINE d == Decoder(pc, None, 0, 0, FALSE)
<1>5. d \in Decoders /\ d.pc = pc /\ d.chunk = 0 /\ d.left = 0
  BY DEF Decoder, Decoders, Writing
<1>6. pc \notin Writing \cup {"done"}
  BY DEF Writing
<1> HIDE DEF d
<1>7. prod' = [prod EXCEPT ![j] = d]
  BY <1>4 DEF d
<1>8. prod'[j] = d /\ \A k \in Jobs : k # j => prod'[k] = prod[k]
  BY <1>7, ProdFacts
<1>9. prod' \in [Jobs -> Decoders] /\ err \subseteq err' /\ err' \subseteq Jobs
  BY <1>1, <1>5, <1>7 DEF WriterInv, Types, Synchronized
<1>10. /\ prod[j].chunk = 0 /\ file[f].next <= file[f].accepted /\ file[f].accepted <= Size[f]
  BY <1>1 DEF WriterInv, DecoderInv
<1>11. file[f].accepted \in Nat /\ file[f].next \in Nat
  BY <1>3 DEF FileStates
<1>12. QED
  BY <1>1, <1>2, <1>3, <1>5, <1>6, <1>8, <1>9, <1>10, <1>11

LEMMA ClosesDecoder ==
    ASSUME WriterInv, NEW j \in Jobs, NEW f \in Files, NEW b, Closes(j, f), Works(j, f, b),
           \A k \in Jobs : k # j => pending'[k] = pending[k],
           file'[f].closing, file'[f].stage = None, file'[f].accepted = file[f].accepted,
           file'[f].next <= file[f].accepted,
           j \notin err' => file'[f].next = file[f].accepted
    PROVE  DecoderInv'
<1>1. /\ prod'[j].pc \notin Writing \cup {"done"} /\ prod'[j].chunk = 0
      /\ err \subseteq err' /\ file[f].accepted <= Size[f]
  BY ClosesFacts
<1>2. prod'[j].pc # "reserve" /\ prod'[j].pc # "commit" /\ prod'[j].pc # "done"
  BY <1>1 DEF Writing
<1>3. QED
  BY <1>1, <1>2, WorkDecoder

(* close_file without a staging buffer.                                    *)
LEMMA ClosesBareStep ==
    ASSUME WriterInv, NEW j \in Jobs, NEW f \in Files, ClosesBare(j, f)
    PROVE  WriterInv'
<1> DEFINE fl == [file[f] EXCEPT !.closing = TRUE]
<1>1. /\ Closes(j, f) /\ file[f].stage = None /\ CloseQueued(f, fl)
      /\ pending' = [pending EXCEPT ![j] = pending[j] + 1]
      /\ buf' = buf /\ inflight' = inflight /\ meter' = meter
  BY DEF ClosesBare
<1>2. /\ f = prod[j].file /\ prod[j].pc \in Writing
      /\ JobOf[f] = j /\ ~file[f].closing /\ ~file[f].queued /\ ~file[f].closed
      /\ file[f] \in FileStates /\ prod[j].chunk = 0
      /\ err \subseteq err' /\ err' \subseteq Jobs
      /\ prod' \in [Jobs -> Decoders] /\ \A k \in Jobs : k # j => prod'[k] = prod[k]
      /\ prod'[j].pc \notin Writing \cup {"done"} /\ prod'[j].chunk = 0
      /\ UNCHANGED <<gate, token, waking, retryQ, wk, posted, packet, vol, events, lease, disk>>
      /\ file[f].next <= file[f].accepted
  BY <1>1, ClosesFacts
<1>3. Types /\ pending[j] \in Int
  BY DEF WriterInv, Types
<1>4. /\ fl \in FileStates /\ fl.closing /\ ~fl.queued /\ ~fl.closed /\ fl.stage = None
      /\ fl.next = file[f].next /\ fl.accepted = file[f].accepted
      /\ fl.inflight = file[f].inflight /\ fl.outstanding = file[f].outstanding
      /\ fl.active = file[f].active /\ fl.handle = file[f].handle /\ fl.tried = file[f].tried
      /\ fl.created = file[f].created /\ fl.failed = file[f].failed
  BY <1>1, <1>2 DEF FileStates
<1> HIDE DEF fl
<1>5. \A g \in Files : g # f => file'[g] = file[g]
  BY <1>1, <1>3 DEF CloseQueued, Types
<1>6. Works(j, f, None)
  BY <1>1, <1>2, <1>5 DEF Works
<1>7. /\ PlaceInv' /\ CloseInv' /\ WakeInv' /\ ErrInv'
      /\ \E q \in BOOLEAN : file' = [file EXCEPT ![f] = [fl EXCEPT !.queued = q]]
  BY <1>1, <1>2, <1>4, <1>6, WorkCloses
<1>8. PICK q \in BOOLEAN : file' = [file EXCEPT ![f] = [fl EXCEPT !.queued = q]]
  BY <1>7
<1> DEFINE new == [fl EXCEPT !.queued = q]
<1>9. /\ new \in FileStates /\ new.closing /\ ~new.closed /\ new.stage = None
      /\ new.next = file[f].next /\ new.accepted = file[f].accepted
      /\ new.inflight = file[f].inflight /\ new.outstanding = file[f].outstanding
      /\ new.active = file[f].active
  BY <1>4 DEF FileStates
<1> HIDE DEF new
<1>10. file'[f] = new /\ file' \in [Files -> FileStates]
  BY <1>3, <1>8, <1>9 DEF Types, new
<1>11. pending' \in [Jobs -> Int] /\ pending'[j] = pending[j] + 1
       /\ \A k \in Jobs : k # j => pending'[k] = pending[k]
  BY <1>1, <1>3 DEF Types
<1>12. Types'
  BY <1>1, <1>2, <1>3, <1>10, <1>11 DEF Types
<1>13. StageInv'
  BY <1>6, <1>9, <1>10, WorkStage
<1>14. DecoderInv'
  <2>1. file[f].next = file[f].accepted
    BY <1>1, <1>2 DEF WriterInv, DecoderInv
  <2>2. QED
    BY <1>1, <1>2, <1>6, <1>9, <1>10, <1>11, <2>1, ClosesDecoder, SMTT(60)
<1>15. CountInv'
  <2>1. /\ \A g \in Files : Filled(g)' = Filled(g) /\ InIO(g)' = InIO(g)
        /\ \A k \in Jobs : Holding(k)' = Holding(k)
        /\ Cardinality(Holding(j)) \in Nat
    BY <1>6, WorkCounts
  <2>2. /\ Cardinality(Ending(j)') = Cardinality(Ending(j)) + 1
        /\ Cardinality(Ending(j)) \in Nat
        /\ \A k \in Jobs : k # j => Ending(k)' = Ending(k)
    BY <1>6, <1>9, <1>10, EndingGrows
  <2>3. \A g \in Files : /\ file'[g].outstanding = file[g].outstanding
                         /\ file'[g].active = file[g].active
    BY <1>5, <1>9, <1>10
  <2>4. pending[j] = Cardinality(Holding(j)) + Cardinality(Ending(j))
    BY DEF WriterInv, CountInv
  <2>5. pending'[j] = Cardinality(Holding(j)') + Cardinality(Ending(j)')
    BY <1>11, <2>1, <2>2, <2>4
  <2>6. \A k \in Jobs : pending'[k] = Cardinality(Holding(k)') + Cardinality(Ending(k)')
    BY <1>11, <2>1, <2>2, <2>5 DEF WriterInv, CountInv
  <2>7. QED
    BY <2>1, <2>3, <2>6 DEF WriterInv, CountInv
<1>16. AreaInv'
  <2>1. \A g \in Files : Reserved(g)' = Reserved(g)
    BY <1>2, <1>6, WorkReserved
  <2>2. \A k \in Jobs : prod'[k].chunk = prod[k].chunk
    BY <1>2
  <2>3. QED
    BY <1>1, <1>5, <1>9, <1>10, <2>1, <2>2, AreaKeeps
<1>17. DiskInv'
  BY <1>2, <1>6, <1>9, <1>10, WorkDisk
<1>18. QED
  BY <1>7, <1>12, <1>13, <1>14, <1>15, <1>16, <1>17 DEF WriterInv

(* close_file in a job that has failed: what is staged is dropped.         *)
LEMMA ClosesDroppingStep ==
    ASSUME WriterInv, NEW j \in Jobs, NEW f \in Files, NEW b \in Buffers,
           buf[b].size > 0, ClosesDropping(j, f, b)
    PROVE  WriterInv'
<1> DEFINE fl == [file[f] EXCEPT !.closing = TRUE, !.stage = None,
                      !.inflight = file[f].inflight - buf[b].size,
                      !.outstanding = file[f].outstanding - 1]
<1>1. /\ Closes(j, f) /\ b = file[f].stage /\ j \in err' /\ CloseQueued(f, fl)
      /\ buf' = [buf EXCEPT ![b] = FreeBuffer]
      /\ inflight' = [inflight EXCEPT ![j] = inflight[j] - buf[b].size]
      /\ meter' = Discarded(meter, buf[b].size) /\ pending' = pending
  BY DEF ClosesDropping
<1>2. /\ f = prod[j].file /\ prod[j].pc \in Writing
      /\ JobOf[f] = j /\ ~file[f].closing /\ ~file[f].queued /\ ~file[f].closed
      /\ file[f] \in FileStates /\ prod[j].chunk = 0
      /\ err \subseteq err' /\ err' \subseteq Jobs
      /\ prod' \in [Jobs -> Decoders] /\ \A k \in Jobs : k # j => prod'[k] = prod[k]
      /\ prod'[j].pc \notin Writing \cup {"done"} /\ prod'[j].chunk = 0
      /\ UNCHANGED <<gate, token, waking, retryQ, wk, posted, packet, vol, events, lease, disk>>
      /\ file[f].next <= file[f].accepted
  BY <1>1, ClosesFacts
<1>3. Types /\ inflight[j] \in Int /\ b # None
  BY WriterAssumption, Zenon DEF WriterInv, Types
<1>4. /\ buf[b] \in BufferStates /\ buf[b].at = "stage" /\ buf[b].file = f /\ buf[b].done = 0
  BY <1>1, <1>2, <1>3, DecoderFile, Zenon
<1>5. /\ buf[b].size \in Nat /\ file[f].inflight \in Int /\ file[f].outstanding \in Int
      /\ file[f].inflight - buf[b].size \in Int /\ file[f].outstanding - 1 \in Int
  BY <1>2, <1>4 DEF BufferStates, FileStates
<1>6. /\ fl \in FileStates /\ fl.closing /\ ~fl.queued /\ ~fl.closed /\ fl.stage = None
      /\ fl.next = file[f].next /\ fl.accepted = file[f].accepted
      /\ fl.inflight = file[f].inflight - buf[b].size
      /\ fl.outstanding = file[f].outstanding - 1
      /\ fl.active = file[f].active /\ fl.handle = file[f].handle /\ fl.tried = file[f].tried
      /\ fl.created = file[f].created /\ fl.failed = file[f].failed
  BY <1>2, <1>5, ZenonT(60) DEF FileStates
<1> HIDE DEF fl
<1>7. FreeBuffer \in BufferStates /\ FreeBuffer.size = 0 /\ FreeBuffer.done = 0
      /\ FreeBuffer.at = "free"
  BY WriterAssumption DEF FreeBuffer, BufferStates
<1>8. /\ buf' \in [Buffers -> BufferStates] /\ buf'[b] = FreeBuffer
      /\ \A c \in Buffers : c # b => buf'[c] = buf[c]
  BY <1>1, <1>3, <1>7 DEF Types
<1>9. \A g \in Files : g # f => file'[g] = file[g]
  BY <1>1, <1>3, SMTT(60) DEF CloseQueued, Types
<1>10. Works(j, f, b)
  BY <1>1, <1>2, <1>3, <1>8, <1>9 DEF Works
<1>11. /\ PlaceInv' /\ CloseInv' /\ WakeInv' /\ ErrInv'
       /\ \E q \in BOOLEAN : file' = [file EXCEPT ![f] = [fl EXCEPT !.queued = q]]
  <2>1. buf'[b].at \in {"free", "stage"} /\ CloseQueued(f, fl)
    BY <1>1, <1>7, <1>8
  <2>2. UNCHANGED <<gate, token, waking, retryQ, wk, posted, packet>> /\ err \subseteq err'
    BY <1>2
  <2>3. QED
    BY <1>6, <1>10, <2>1, <2>2, WorkCloses
<1>12. PICK q \in BOOLEAN : file' = [file EXCEPT ![f] = [fl EXCEPT !.queued = q]]
  BY <1>11
<1> DEFINE new == [fl EXCEPT !.queued = q]
<1>13. /\ new \in FileStates /\ new.closing /\ ~new.closed /\ new.stage = None
       /\ new.next = file[f].next /\ new.accepted = file[f].accepted
       /\ new.inflight = file[f].inflight - buf[b].size
       /\ new.outstanding = file[f].outstanding - 1
       /\ new.active = file[f].active
  BY <1>6 DEF FileStates
<1> HIDE DEF new
<1>14. file'[f] = new /\ file' \in [Files -> FileStates]
  BY <1>3, <1>12, <1>13 DEF Types, new
<1>15. /\ inflight' \in [Jobs -> Int] /\ inflight'[j] = inflight[j] - buf[b].size
       /\ \A k \in Jobs : k # j => inflight'[k] = inflight[k]
  BY <1>1, <1>3, <1>5 DEF Types
<1>16. /\ meter' \in [accepted : Int, written : Int, discarded : Int, pending : Int]
       /\ meter'.accepted = meter.accepted /\ meter'.written = meter.written
       /\ meter'.discarded = meter.discarded + buf[b].size
       /\ meter'.pending = meter.pending - buf[b].size
  <2>1. meter \in [accepted : Int, written : Int, discarded : Int, pending : Int]
    BY <1>3 DEF Types
  <2>2. meter.discarded + buf[b].size \in Int /\ meter.pending - buf[b].size \in Int
    BY <1>5, <2>1
  <2>3. QED
    BY <1>1, <2>1, <2>2 DEF Discarded
<1>17. Types'
  BY <1>1, <1>2, <1>3, <1>8, <1>14, <1>15, <1>16, Zenon DEF Types
<1>18. StageInv'
  <2>1. /\ buf'[b].at = "free" /\ buf'[b].done <= buf'[b].size /\ buf'[b].size <= BufferSize
    BY <1>7, <1>8, WriterAssumption
  <2>2. file'[f].stage = None
    BY <1>13, <1>14, ZenonT(60)
  <2>3. QED
    BY <1>8, <1>10, <2>1, <2>2, WorkStage
<1>19. DecoderInv'
  BY <1>1, <1>2, <1>10, <1>13, <1>14, ClosesDecoder
<1>20. CountInv'
  <2>1. /\ Cardinality(Filled(f)') = Cardinality(Filled(f)) - 1
        /\ \A g \in Files : g # f => Filled(g)' = Filled(g)
        /\ \A g \in Files : InIO(g)' = InIO(g)
        /\ Cardinality(Holding(j)') = Cardinality(Holding(j)) - 1
        /\ Cardinality(Holding(j)) \in Nat
        /\ \A k \in Jobs : k # j => Holding(k)' = Holding(k)
    BY <1>2, <1>4, <1>8, FreeCounts
  <2>2. /\ Cardinality(Ending(j)') = Cardinality(Ending(j)) + 1
        /\ Cardinality(Ending(j)) \in Nat
        /\ \A k \in Jobs : k # j => Ending(k)' = Ending(k)
    BY <1>10, <1>13, <1>14, EndingGrows
  <2>3. pending[j] = Cardinality(Holding(j)) + Cardinality(Ending(j))
    BY DEF WriterInv, CountInv
  <2>4. pending'[j] = Cardinality(Holding(j)') + Cardinality(Ending(j)')
    BY <1>1, <2>1, <2>2, <2>3
  <2>5. \A k \in Jobs : pending'[k] = Cardinality(Holding(k)') + Cardinality(Ending(k)')
    BY <1>1, <2>1, <2>2, <2>4 DEF WriterInv, CountInv
  <2>6. \A g \in Files : /\ file'[g].outstanding = Cardinality(Filled(g)')
                         /\ file'[g].active = Cardinality(InIO(g)')
    BY <1>9, <1>13, <1>14, <2>1 DEF WriterInv, CountInv
  <2>7. QED
    BY <2>5, <2>6 DEF CountInv
<1>21. AreaInv'
  <2>1. /\ meter.accepted \in Nat /\ meter.written \in Nat /\ meter.discarded \in Nat
        /\ meter.pending \in Int /\ file[f].inflight <= FileBudget /\ inflight[j] <= JobBudget
    BY <1>3 DEF WriterInv, AreaInv, Types
  <2>2. /\ buf'[b].size = 0 /\ buf'[b].done = 0
        /\ file'[f].inflight = file[f].inflight - buf[b].size
    BY <1>7, <1>8, <1>13, <1>14
  <2>3. /\ file'[f].inflight = file[f].inflight - buf[b].size + buf'[b].size - prod[j].chunk + prod'[j].chunk
        /\ inflight'[j] = inflight[j] - buf[b].size + buf'[b].size - prod[j].chunk + prod'[j].chunk
        /\ meter'.pending = meter.pending - buf[b].size + buf'[b].size
    BY <1>2, <1>3, <1>5, <1>15, <1>16, <2>1, <2>2
  <2>4. /\ file'[f].inflight <= FileBudget /\ inflight'[j] <= JobBudget
        /\ meter'.accepted \in Nat /\ meter'.written \in Nat /\ meter'.discarded \in Nat
        /\ buf'[b].size \in Nat /\ buf'[b].size <= BufferSize /\ prod'[j].chunk \in Nat
    BY <1>2, <1>3, <1>5, <1>15, <1>16, <2>1, <2>2, WriterAssumption
  <2>5. QED
    BY <1>2, <1>3, <1>10, <1>15, <2>2, <2>3, <2>4, WorkArea
<1>22. DiskInv'
  <2>1. \A g \in Files : file'[g].next = file[g].next
    BY <1>9, <1>13, <1>14, SMTT(60)
  <2>2. JobOf[f] \in err' /\ err \subseteq err' /\ disk' = disk
    BY <1>1, <1>2
  <2>3. buf[b].file = f /\ buf'[b] = FreeBuffer /\ \A c \in Buffers : c # b => buf'[c] = buf[c]
    BY <1>4, <1>8
  <2>4. QED
    BY <2>1, <2>2, <2>3, FreeDisk
<1>23. QED
  BY <1>11, <1>17, <1>18, <1>19, <1>20, <1>21, <1>22 DEF WriterInv

(* close_file otherwise: what is staged is queued.                         *)
LEMMA ClosesQueueingStep ==
    ASSUME WriterInv, NEW j \in Jobs, NEW f \in Files, NEW b \in Buffers,
           buf[b].size > 0, ClosesQueueing(j, f, b)
    PROVE  WriterInv'
<1> DEFINE fl == [file[f] EXCEPT !.closing = TRUE, !.stage = None,
                      !.next = file[f].next + buf[b].size]
           nb == [buf[b] EXCEPT !.at = "queue", !.offset = file[f].next]
<1>1. /\ Closes(j, f) /\ b = file[f].stage
      /\ file' = [file EXCEPT ![f] = fl] /\ buf' = [buf EXCEPT ![b] = nb]
      /\ workQ' = Append(workQ, b)
      /\ pending' = [pending EXCEPT ![j] = pending[j] + 1]
      /\ inflight' = inflight /\ meter' = meter
  BY DEF ClosesQueueing
<1>2. /\ f = prod[j].file /\ prod[j].pc \in Writing
      /\ JobOf[f] = j /\ ~file[f].closing /\ ~file[f].queued /\ ~file[f].closed
      /\ file[f] \in FileStates /\ prod[j].chunk = 0
      /\ err \subseteq err' /\ err' \subseteq Jobs
      /\ prod' \in [Jobs -> Decoders] /\ \A k \in Jobs : k # j => prod'[k] = prod[k]
      /\ prod'[j].pc \notin Writing \cup {"done"} /\ prod'[j].chunk = 0
      /\ UNCHANGED <<gate, token, waking, retryQ, wk, posted, packet, vol, events, lease, disk>>
      /\ file[f].accepted \in Nat /\ file[f].next \in Nat
  BY <1>1, ClosesFacts
<1>3. Types /\ inflight[j] \in Int /\ pending[j] \in Int /\ b # None
  BY WriterAssumption, Zenon DEF WriterInv, Types
<1>4. /\ buf[b] \in BufferStates /\ buf[b].at = "stage" /\ buf[b].file = f /\ buf[b].done = 0
  BY <1>1, <1>2, <1>3, DecoderFile, Zenon
<1>5. /\ buf[b].size \in Nat /\ file[f].inflight \in Int /\ file[f].next + buf[b].size \in Nat
  BY <1>2, <1>4 DEF BufferStates, FileStates
<1>6. /\ fl \in FileStates /\ fl.closing /\ ~fl.queued /\ ~fl.closed /\ fl.stage = None
      /\ fl.next = file[f].next + buf[b].size /\ fl.accepted = file[f].accepted
      /\ fl.inflight = file[f].inflight /\ fl.outstanding = file[f].outstanding
      /\ fl.active = file[f].active /\ fl.handle = file[f].handle /\ fl.tried = file[f].tried
      /\ fl.created = file[f].created /\ fl.failed = file[f].failed
  BY <1>2, <1>5, ZenonT(60) DEF FileStates
<1>7. /\ nb \in BufferStates /\ nb.at = "queue" /\ nb.file = f /\ nb.size = buf[b].size
      /\ nb.done = 0 /\ nb.offset = file[f].next
  BY <1>2, <1>4 DEF BufferStates
<1> HIDE DEF fl, nb
<1>8. /\ buf' \in [Buffers -> BufferStates] /\ buf'[b] = nb
      /\ \A c \in Buffers : c # b => buf'[c] = buf[c]
  BY <1>1, <1>3, <1>7 DEF Types
<1>9. /\ file' \in [Files -> FileStates] /\ file'[f] = fl
      /\ \A g \in Files : g # f => file'[g] = file[g]
  BY <1>1, <1>3, <1>6 DEF Types
<1>10. Works(j, f, b)
  BY <1>1, <1>2, <1>3, <1>7, <1>8, <1>9, ZenonT(60) DEF Works
<1>11. PlaceInv' /\ CloseInv' /\ WakeInv' /\ ErrInv'
  <2>1. /\ file'[f].queued = file[f].queued /\ file'[f].closed = file[f].closed
        /\ file'[f].handle = file[f].handle /\ file'[f].failed = file[f].failed
        /\ file'[f].tried = file[f].tried /\ file'[f].created = file[f].created
    <3>1. fl.queued = file[f].queued /\ fl.closed = file[f].closed
      BY <1>2 DEF fl, FileStates
    <3>2. QED
      BY <1>6, <1>9, <3>1
  <2>2. buf'[b].at = "queue"
    BY <1>7, <1>8
  <2>3. QED
    BY <1>1, <1>2, <1>4, <1>10, <2>1, <2>2, WorkQueued
<1>12. pending' \in [Jobs -> Int] /\ pending'[j] = pending[j] + 1
       /\ \A k \in Jobs : k # j => pending'[k] = pending[k]
  BY <1>1, <1>3 DEF Types
<1>14. Types'
  BY <1>1, <1>2, <1>3, <1>8, <1>9, <1>12 DEF Types
<1>15. StageInv'
  <2>1. buf[b].size <= BufferSize
    BY DEF WriterInv, StageInv
  <2>2. /\ buf'[b].at = "queue" /\ buf'[b].file = f /\ buf'[b].done = 0
        /\ buf'[b].size = buf[b].size /\ file'[f].stage = None
    BY <1>6, <1>7, <1>8, <1>9
  <2>3. QED
    BY <1>5, <1>10, <2>1, <2>2, WorkStage
<1>16. DecoderInv'
  <2>1. file[f].next + buf[b].size = file[f].accepted
    BY <1>1, <1>2, <1>3 DEF WriterInv, DecoderInv
  <2>2. file'[f].next = file[f].accepted
    BY <1>6, <1>9, <2>1
  <2>3. file'[f].next <= file[f].accepted
    BY <1>2, <2>2
  <2>4. QED
    BY <1>1, <1>6, <1>9, <1>10, <1>12, <2>2, <2>3, ClosesDecoder
<1>17. CountInv'
  <2>1. buf'[b].at # "io" /\ (buf'[b].size > 0 <=> buf[b].size > 0)
    BY <1>7, <1>8
  <2>2. /\ \A g \in Files : Filled(g)' = Filled(g) /\ InIO(g)' = InIO(g)
        /\ \A k \in Jobs : Holding(k)' = Holding(k)
        /\ Cardinality(Holding(j)) \in Nat
    BY <1>3, <1>10, <2>1, WorkCounts
  <2>3. /\ Cardinality(Ending(j)') = Cardinality(Ending(j)) + 1
        /\ Cardinality(Ending(j)) \in Nat
        /\ \A k \in Jobs : k # j => Ending(k)' = Ending(k)
    BY <1>6, <1>9, <1>10, EndingGrows
  <2>4. \A g \in Files : /\ file'[g].outstanding = file[g].outstanding
                         /\ file'[g].active = file[g].active
    BY <1>6, <1>9
  <2>5. pending[j] = Cardinality(Holding(j)) + Cardinality(Ending(j))
    BY DEF WriterInv, CountInv
  <2>6. pending'[j] = Cardinality(Holding(j)') + Cardinality(Ending(j)')
    BY <1>12, <2>2, <2>3, <2>5
  <2>7. \A k \in Jobs : pending'[k] = Cardinality(Holding(k)') + Cardinality(Ending(k)')
    BY <1>12, <2>2, <2>3, <2>6 DEF WriterInv, CountInv
  <2>8. QED
    BY <2>2, <2>4, <2>7 DEF WriterInv, CountInv
<1>18. AreaInv'
  <2>1. /\ meter.accepted \in Nat /\ meter.written \in Nat /\ meter.discarded \in Nat
        /\ meter.pending \in Int /\ file[f].inflight <= FileBudget /\ inflight[j] <= JobBudget
        /\ buf[b].size <= BufferSize
    BY <1>3 DEF WriterInv, AreaInv, Types, StageInv
  <2>2. /\ buf'[b].size = buf[b].size /\ buf'[b].done = 0
        /\ file'[f].inflight = file[f].inflight /\ inflight'[j] = inflight[j] /\ meter' = meter
    BY <1>1, <1>6, <1>7, <1>8, <1>9
  <2>3. /\ file'[f].inflight = file[f].inflight - buf[b].size + buf'[b].size - prod[j].chunk + prod'[j].chunk
        /\ inflight'[j] = inflight[j] - buf[b].size + buf'[b].size - prod[j].chunk + prod'[j].chunk
        /\ meter'.pending = meter.pending - buf[b].size + buf'[b].size
    BY <1>2, <1>3, <1>5, <2>1, <2>2
  <2>4. \A k \in Jobs : k # j => inflight'[k] = inflight[k]
    BY <1>1
  <2>5. QED
    BY <1>2, <1>3, <1>5, <1>10, <2>1, <2>2, <2>3, <2>4, WorkArea
<1>19. DiskInv'
  <2>1. /\ buf'[b].at = "queue" /\ buf'[b].file = f /\ buf'[b].done = 0
        /\ buf'[b].offset = file[f].next /\ buf'[b].size = buf[b].size
        /\ file'[f].next = file[f].next + buf'[b].size
    BY <1>6, <1>7, <1>8, <1>9
  <2>2. QED
    BY <1>2, <1>3, <1>5, <1>10, <2>1, QueueDisk
<1>20. QED
  BY <1>11, <1>14, <1>15, <1>16, <1>17, <1>18, <1>19 DEF WriterInv

LEMMA CloseFileStep ==
    ASSUME WriterInv, NEW j \in Jobs, CloseFile(j) PROVE WriterInv'
<1>1. PICK f \in Files : \/ ClosesBare(j, f)
                         \/ \E b \in Buffers : /\ buf[b].size > 0
                                               /\ ClosesDropping(j, f, b) \/ ClosesQueueing(j, f, b)
  BY CloseEffect
<1>2. CASE ClosesBare(j, f)
  BY <1>2, ClosesBareStep
<1>3. CASE \E b \in Buffers : /\ buf[b].size > 0
                              /\ ClosesDropping(j, f, b) \/ ClosesQueueing(j, f, b)
  <2>1. PICK b \in Buffers : /\ buf[b].size > 0
                             /\ ClosesDropping(j, f, b) \/ ClosesQueueing(j, f, b)
    BY <1>3
  <2>2. QED
    BY <2>1, ClosesDroppingStep, ClosesQueueingStep
<1>4. QED
  BY <1>1, <1>2, <1>3

-----------------------------------------------------------------------------
(* The invariant holds, and what follows from it.                          *)

LEMMA InitWriterInv == Init => WriterInv /\ ResultInv
<1> SUFFICES ASSUME Init PROVE WriterInv /\ ResultInv
  OBVIOUS
<1>1. Types
  BY TypesInit
<1>2. /\ workQ = <<>> /\ retryQ = <<>> /\ token = {} /\ err = {}
      /\ pending = [j \in Jobs |-> 0] /\ inflight = [j \in Jobs |-> 0]
      /\ posted = FALSE
      /\ disk = [f \in Files |-> [u \in Units(f) |-> 0]]
      /\ meter = [accepted |-> 0, written |-> 0, discarded |-> 0, pending |-> 0]
  BY DEF Init
<1>3. \A j \in Jobs : prod[j].pc = "next" /\ prod[j].chunk = 0 /\ prod[j].file = None
  BY DEF Init, Decoder
<1>4. \A f \in Files : file[f] = NewFile
  BY DEF Init
<1>5. /\ NewFile.stage = None /\ NewFile.next = 0 /\ NewFile.inflight = 0
      /\ NewFile.outstanding = 0 /\ NewFile.active = 0 /\ NewFile.accepted = 0
      /\ ~NewFile.handle /\ ~NewFile.tried /\ ~NewFile.failed /\ ~NewFile.closing
      /\ ~NewFile.queued /\ ~NewFile.closed
  BY DEF NewFile
<1>6. \A b \in Buffers : buf[b] = FreeBuffer
  BY DEF Init
<1>7. /\ FreeBuffer.at = "free" /\ FreeBuffer.file = None /\ FreeBuffer.size = 0
      /\ FreeBuffer.done = 0
  BY DEF FreeBuffer
<1>8. \A w \in Workers : /\ wk[w].pc = "idle" /\ wk[w].item = None /\ wk[w].again = FALSE
  BY DEF Init, Resting, Thread
<1>9. None \notin Buffers /\ None \notin Files /\ JobOf \in [Files -> Jobs]
      /\ BufferSize \in Nat /\ JobBudget \in Nat /\ FileBudget \in Nat /\ Size \in [Files -> Nat]
  BY WriterAssumption
<1>10. ToSet(workQ) = {} /\ ToSet(retryQ) = {} /\ DOMAIN workQ = {} /\ DOMAIN retryQ = {}
  BY <1>2 DEF ToSet
<1>11. PlaceInv
  <2>1. workQ \in Seq(Items) /\ retryQ \in Seq(Items)
    BY <1>2
  <2>2. Once(workQ) /\ Once(retryQ)
    BY <1>10 DEF Once
  <2>3. QED
    BY <1>6, <1>7, <1>8, <1>9, <1>10, <2>1, <2>2 DEF PlaceInv, Serves
<1>12. CloseInv
  BY <1>4, <1>5, <1>8, <1>9, <1>10 DEF CloseInv, Closing
<1>13. WakeInv
  BY <1>2, <1>8, <1>10 DEF WakeInv, NoLostWake
<1>14. StageInv
  BY <1>4, <1>5, <1>6, <1>7, <1>9 DEF StageInv
<1>15. DecoderInv
  BY <1>3, <1>4, <1>5, <1>9 DEF DecoderInv, Writing
<1>16. CountInv
  <2>1. \A f \in Files : Filled(f) = {} /\ InIO(f) = {}
    BY <1>6, <1>7, <1>9 DEF Filled, InIO
  <2>2. \A j \in Jobs : Holding(j) = {} /\ Ending(j) = {}
    BY <1>4, <1>5, <1>6, <1>7, <1>9 DEF Holding, Ending
  <2>3. Cardinality({}) = 0
    BY FS_EmptySet
  <2>4. \A f \in Files : file[f].outstanding = 0 /\ file[f].active = 0
    BY <1>4, <1>5
  <2>5. \A f \in Files : /\ file[f].outstanding = Cardinality(Filled(f))
                         /\ file[f].active = Cardinality(InIO(f))
    BY <2>1, <2>3, <2>4
  <2>6. ASSUME NEW j \in Jobs
        PROVE  pending[j] = Cardinality(Holding(j)) + Cardinality(Ending(j))
    <3>1. pending[j] = 0
      BY <1>2
    <3>2. Cardinality(Holding(j)) = 0 /\ Cardinality(Ending(j)) = 0
      BY <2>2, <2>3
    <3>3. QED
      BY <3>1, <3>2
  <2>7. QED
    BY <2>5, <2>6 DEF CountInv
<1>17. AreaInv
  <2>1. ASSUME NEW n, n = [b \in Buffers |-> 0] PROVE Area(n) = 0
    <3>1. n \in Fills /\ \A b \in Buffers : n[b] = 0
      BY <1>9, <2>1 DEF Fills
    <3>2. QED
      BY <3>1, AreaEmpty
  <2>2. \A f \in Files : OfFile(f) = [b \in Buffers |-> 0]
    BY <1>6, <1>7 DEF OfFile
  <2>3. \A j \in Jobs : OfJob(j) = [b \in Buffers |-> 0]
    BY <1>6, <1>7 DEF OfJob
  <2>4. Left = [b \in Buffers |-> 0]
    BY <1>6, <1>7 DEF Left
  <2>5. \A f \in Files : Area(OfFile(f)) = 0
    BY <2>1, <2>2
  <2>6. \A j \in Jobs : Area(OfJob(j)) = 0
    BY <2>1, <2>3
  <2>7. Area(Left) = 0
    BY <2>1, <2>4
  <2>8. \A f \in Files : Reserved(f) = 0
    BY <1>3, <1>9 DEF Reserved
  <2>9. QED
    BY <1>2, <1>3, <1>4, <1>5, <1>9, <2>5, <2>6, <2>7, <2>8 DEF AreaInv
<1>18. DiskInv
  <2>1. \A f \in Files : disk[f] = [u \in Units(f) |-> 0]
    BY <1>2
  <2>2. ASSUME NEW f \in Files
        PROVE  disk[f] \in [Units(f) -> 0 .. 1] /\ disk[f] \in [Units(f) -> Nat]
    <3>1. 0 \in 0 .. 1 /\ 0 \in Nat
      OBVIOUS
    <3>2. [u \in Units(f) |-> 0] \in [Units(f) -> 0 .. 1]
          /\ [u \in Units(f) |-> 0] \in [Units(f) -> Nat]
      BY <3>1
    <3>3. QED
      BY <2>1, <3>2
  <2>3. disk \in [Files -> UNION {[Units(f) -> Nat] : f \in Files}]
    <3>1. \A f \in Files : disk[f] \in UNION {[Units(g) -> Nat] : g \in Files}
      BY <2>2, Zenon
    <3>2. disk = [f \in Files |-> disk[f]]
      BY <1>2
    <3>3. QED
      BY <3>1, <3>2
  <2>4. \A b \in Buffers : ~Live(b)
    BY <1>6, <1>7 DEF Live
  <2>5. ASSUME NEW f \in Files, NEW u \in Units(f)
        PROVE  disk[f][u] = 0 /\ ~(u < file[f].next)
    <3>1. disk[f][u] = 0 /\ file[f].next = 0
      BY <1>4, <1>5, <2>1
    <3>2. u \in Int /\ 0 <= u
      BY <1>9 DEF Units
    <3>3. QED
      BY <3>1, <3>2
  <2>6. \A f \in Files : \A u \in Units(f) :
            /\ u >= file[f].next => disk[f][u] = 0
            /\ u < file[f].next => FALSE
    BY <2>5
  <2>7. \A f \in Files : /\ disk[f] \in [Units(f) -> 0 .. 1]
                         /\ \A u \in Units(f) : u >= file[f].next => disk[f][u] = 0
    BY <2>2, <2>6
  <2>8. \A f \in Files : JobOf[f] \notin err =>
            \A u \in Units(f) : u < file[f].next /\ disk[f][u] = 0 =>
                \E b \in Buffers : Live(b) /\ buf[b].file = f /\ Missing(b, u)
    BY <2>6, Zenon
  <2>9. QED
    BY <2>3, <2>4, <2>7, <2>8 DEF DiskInv
<1>19. ErrInv
  BY <1>4, <1>5, <1>8 DEF ErrInv
<1>20. ResultInv
  BY <1>8 DEF ResultInv
<1>21. QED
  BY <1>1, <1>11, <1>12, <1>13, <1>14, <1>15, <1>16, <1>17, <1>18, <1>19, <1>20 DEF WriterInv

LEMMA StutterWriterInv ==
    ASSUME WriterInv, ResultInv, UNCHANGED vars PROVE WriterInv' /\ ResultInv'
<1>1. /\ UNCHANGED <<gate, vol, events, token, waking, err, pending, inflight, prod, buf,
                     file, workQ, lease, retryQ, posted, packet, wk, disk, meter>>
  BY DEF vars, envVars, jobVars, ioVars, wakeVars
<1>2. StageInv' /\ DecoderInv' /\ CountInv' /\ AreaInv' /\ DiskInv'
  BY <1>1, NothingMoves
<1>3. Types'
  BY <1>1 DEF WriterInv, Types
<1>4. PlaceInv' /\ CloseInv'
  BY <1>1 DEF WriterInv, PlaceInv, CloseInv, Closing, Once, ToSet
<1>5. WakeInv' /\ ErrInv' /\ ResultInv'
  BY <1>1 DEF WriterInv, WakeInv, NoLostWake, Owner, FileOf, ErrInv, ResultInv
<1>6. QED
  BY <1>2, <1>3, <1>4, <1>5 DEF WriterInv

LEMMA DecoderWriterInv ==
    ASSUME WriterInv, NEW j \in Jobs, DecoderStep(j) PROVE WriterInv'
BY MakeFileStep, ReserveStep, CommitStep, CommitAbortsStep, CloseFileStep, FinishStep
   DEF DecoderStep

LEMMA WorkerWriterInv ==
    ASSUME WriterInv, ResultInv, NEW w \in Workers, WorkerStep(w) PROVE WriterInv'
<1>1. CASE Ack(w)
  BY <1>1, AckStep
<1>2. CASE Scan(w)
  BY <1>2, ScanNothing, ScanTakes
<1>3. CASE Open(w) \/ Submit(w)
  BY <1>3, OpenStep, SubmitStep
<1>4. CASE Settle(w)
  BY <1>4, SettleSpaceStep, SettleReleaseStep
<1>5. CASE Defer(w) \/ CloseOpen(w) \/ CloseSettle(w)
  BY <1>5, DeferStep, CloseOpenStep, CloseSettleStep
<1>6. QED
  BY <1>1, <1>2, <1>3, <1>4, <1>5 DEF WorkerStep

LEMMA NextWriterInv ==
    ASSUME WriterInv, ResultInv, [Next]_vars PROVE WriterInv' /\ ResultInv'
<1>1. CASE \/ VolumeChanges \/ MonitorPolls \/ MonitorQueryFails
           \/ \E j \in Jobs : Cancel(j) \/ WakeWaiters(j)
  <2>1. wk' = wk
    BY <1>1, Zenon DEF VolumeChanges, MonitorPolls, MonitorQueryFails, Cancel, WakeWaiters
  <2>2. QED
    BY <1>1, <2>1, EnvironmentStep DEF ResultInv
<1>2. ASSUME NEW j \in Jobs, DecoderStep(j) PROVE WriterInv' /\ ResultInv'
  <2>1. wk' = wk
    BY <1>2, Zenon DEF DecoderStep, MakeFile, Reserve, Commit, CommitAborts, CloseFile,
                FinishJob, FinishReturns
  <2>2. QED
    BY <1>2, <2>1, DecoderWriterInv DEF ResultInv
<1>3. ASSUME NEW w \in Workers, \/ TakeWork(w) \/ TakeRetry(w) \/ WorkerStep(w)
                                \/ \E b \in Buffers : Complete(w, b)
      PROVE  WriterInv' /\ ResultInv'
  <2>1. ResultInv'
    BY <1>3, ResultStep
  <2>2. WriterInv'
    BY <1>3, TakeWorkStep, TakeRetryStep, WorkerWriterInv, CompleteStep
  <2>3. QED
    BY <2>1, <2>2
<1>4. CASE UNCHANGED vars
  BY <1>4, StutterWriterInv
<1>5. QED
  BY <1>1, <1>2, <1>3, <1>4 DEF Next, AllDone

(* The invariant of the writer: the places of the items, the closes, the   *)
(* retry packet, the staging buffers, the decoders, the counters, the      *)
(* units on the disk and the recorded failures hold together in every      *)
(* state AsyncFileWriter reaches.                                          *)
THEOREM WriterInvariance == Spec => [](WriterInv /\ ResultInv)
<1>1. Init => WriterInv /\ ResultInv
  BY InitWriterInv
<1>2. WriterInv /\ ResultInv /\ [Next]_vars => WriterInv' /\ ResultInv'
  BY NextWriterInv
<1>3. QED
  BY <1>1, <1>2, PTL DEF Spec

(* No unsigned counter of the writer wraps and no budget is exceeded:      *)
(* pending_jobs, inflight_bytes, the outstanding and active buffers of a   *)
(* file and the gauges stay within their bounds, whatever order decoders,  *)
(* completions, retries and cancellations come in.                         *)
THEOREM WriterTypeCorrect == Spec => []WriterTypeOK
<1>1. ASSUME WriterInv PROVE WriterTypeOK
  <2>1. Types /\ CountInv /\ AreaInv /\ StageInv /\ DecoderInv
    BY <1>1 DEF WriterInv
  <2>2. /\ IsFiniteSet(Buffers) /\ IsFiniteSet(Files)
        /\ Cardinality(Buffers) \in Nat /\ Cardinality(Files) \in Nat
        /\ JobOf \in [Files -> Jobs] /\ BufferSize \in Nat /\ Size \in [Files -> Nat]
    BY WriterAssumption, FS_CardinalityType
  <2>3. /\ gate.phase \in {"ready", "blocked", "probing"}
        /\ vol \in {"free", "full", "gone"} /\ events \in 0 .. MaxEvents
        /\ token \subseteq Jobs /\ waking \subseteq token /\ err \subseteq Jobs
        /\ lease \subseteq Buffers \cup Files
    BY <2>1 DEF Types, GateRecords, Items
  <2>4. Left \in Fills /\ (\A f \in Files : OfFile(f) \in Fills) /\ \A j : OfJob(j) \in Fills
    <3>1. buf \in [Buffers -> BufferStates]
          /\ \A b \in Buffers : buf[b].done <= buf[b].size /\ buf[b].size <= BufferSize
      BY <2>1 DEF Types, StageInv
    <3>2. QED
      BY <3>1, LeftFills, OwnedFills DEF Left, OfFile, OfJob
  <2>5. \A n \in Fills : Area(n) \in Nat
    BY AreaNat
  <2>6. ASSUME NEW j \in Jobs
        PROVE  /\ pending[j] \in 0 .. (Cardinality(Files) + Cardinality(Buffers))
               /\ inflight[j] \in 0 .. JobBudget
    <3>1. Holding(j) \in SUBSET Buffers /\ Ending(j) \in SUBSET Files
      BY DEF Holding, Ending
    <3>2. /\ Cardinality(Holding(j)) \in Nat /\ Cardinality(Holding(j)) <= Cardinality(Buffers)
          /\ Cardinality(Ending(j)) \in Nat /\ Cardinality(Ending(j)) <= Cardinality(Files)
      BY <2>2, <3>1, Sizes
    <3>3. pending[j] = Cardinality(Holding(j)) + Cardinality(Ending(j))
      BY <2>1 DEF CountInv
    <3>4. /\ Area(OfJob(j)) \in Nat /\ prod[j].chunk \in Nat
          /\ inflight[j] = Area(OfJob(j)) + prod[j].chunk /\ inflight[j] <= JobBudget
      BY <2>1, <2>4, <2>5 DEF AreaInv, Types, Decoders
    <3>5. QED
      BY <2>2, <3>2, <3>3, <3>4, WriterAssumption
  <2>7. ASSUME NEW f \in Files
        PROVE  /\ file[f].inflight \in 0 .. FileBudget
               /\ file[f].outstanding \in 0 .. Cardinality(Buffers)
               /\ file[f].active \in 0 .. file[f].outstanding
               /\ file[f].accepted \in 0 .. Size[f]
    <3>1. InIO(f) \subseteq Filled(f) /\ Filled(f) \in SUBSET Buffers
      BY <2>1 DEF InIO, Filled, StageInv, Types, BufferStates
    <3>2. /\ IsFiniteSet(Filled(f)) /\ Cardinality(Filled(f)) \in Nat
          /\ Cardinality(Filled(f)) <= Cardinality(Buffers)
      BY <2>2, <3>1, Sizes
    <3>3. Cardinality(InIO(f)) \in Nat /\ Cardinality(InIO(f)) <= Cardinality(Filled(f))
      BY <3>1, <3>2, Sizes
    <3>4. /\ file[f].outstanding = Cardinality(Filled(f))
          /\ file[f].active = Cardinality(InIO(f))
      BY <2>1 DEF CountInv
    <3>5. Reserved(f) \in Nat
      BY <2>1, <2>2 DEF Reserved, Types, Decoders
    <3>6. /\ Area(OfFile(f)) \in Nat
          /\ file[f].inflight = Area(OfFile(f)) + Reserved(f) /\ file[f].inflight <= FileBudget
      BY <2>1, <2>4, <2>5 DEF AreaInv
    <3>7. file[f].accepted \in Nat /\ file[f].accepted <= Size[f]
      BY <2>1 DEF Types, FileStates, DecoderInv
    <3>8. QED
      BY <2>2, <3>2, <3>3, <3>4, <3>5, <3>6, <3>7, WriterAssumption
  <2>8. ASSUME NEW b \in Buffers
        PROVE  /\ buf[b].at \in {"free", "stage", "queue", "held", "io", "retry"}
               /\ buf[b].size \in 0 .. BufferSize /\ buf[b].done \in 0 .. buf[b].size
    BY <2>1, <2>2 DEF Types, BufferStates, StageInv
  <2>9. \A c \in DOMAIN meter : meter[c] \in Nat
    <3>1. meter \in [accepted : Int, written : Int, discarded : Int, pending : Int]
      BY <2>1 DEF Types
    <3>2. /\ meter.accepted \in Nat /\ meter.written \in Nat /\ meter.discarded \in Nat
          /\ meter.pending \in Nat
      BY <2>1, <2>4, <2>5 DEF AreaInv
    <3>3. QED
      BY <3>1, <3>2
  <2>10. /\ pending \in [Jobs -> 0 .. (Cardinality(Files) + Cardinality(Buffers))]
         /\ inflight \in [Jobs -> 0 .. JobBudget]
    BY <2>1, <2>6 DEF Types
  <2>11. QED
    BY <2>3, <2>7, <2>8, <2>9, <2>10 DEF WriterTypeOK
<1>2. QED
  BY <1>1, WriterInvariance, PTL

(* Every accepted byte is counted out exactly once, as written or as       *)
(* discarded, over short writes, space retries, aborts and cancellation:   *)
(* the pending gauge of OutputWriteMetrics is what the buffers still hold. *)
THEOREM BytesTheorem == Spec => []BytesAccounted
<1>1. ASSUME WriterInv PROVE BytesAccounted
  <2>1. Owed = {p \in Buffers \X (1 .. BufferSize) : p[2] <= Left[p[1]]}
    BY DEF Owed, Left
  <2>2. meter.pending = Area(Left)
    BY <1>1 DEF WriterInv, AreaInv
  <2>3. QED
    BY <2>1, <2>2 DEF BytesAccounted, Area
<1>2. QED
  BY <1>1, WriterInvariance, PTL

(* enqueue_close_locked and process_close: a close is queued after the     *)
(* file's last buffer has come back, one thread at most works on it, and   *)
(* no buffer of a file that is being closed or is closed is anywhere.      *)
THEOREM CloseTheorem == Spec => []CloseIsLast
<1>1. ASSUME WriterInv PROVE CloseIsLast
  <2>1. SUFFICES ASSUME NEW f \in Files,
                        file[f].closed \/ f \in Range(workQ) \cup Range(retryQ) \/ Serving(f) # {}
                 PROVE  /\ \A b \in Buffers : buf[b].file # f
                        /\ file[f].active = 0 /\ file[f].outstanding = 0 /\ file[f].inflight = 0
                        /\ file[f].closed => ~file[f].handle /\ Serving(f) = {}
                        /\ Cardinality(Serving(f)) <= 1
    BY DEF CloseIsLast
  <2>2. Types /\ PlaceInv /\ CloseInv /\ StageInv /\ DecoderInv /\ CountInv /\ AreaInv
    BY <1>1 DEF WriterInv
  <2>3. Serving(f) # {} => f \in Closing
    BY DEF Serving, Closing
  <2>4. f \in Range(workQ) \cup Range(retryQ) => f \in Closing
    BY DEF Range, Closing, ToSet
  <2>5. file[f].queued /\ file[f].closing /\ file[f].outstanding = 0
    BY <2>1, <2>2, <2>3, <2>4 DEF CloseInv
  <2>6. ~On(JobOf[f], f) /\ None \notin Files /\ JobOf[f] \in Jobs
    BY <2>2, <2>5, WriterAssumption DEF On, DecoderInv
  <2>7. Filled(f) = {}
    <3>1. Filled(f) \in SUBSET Buffers /\ IsFiniteSet(Buffers)
      BY WriterAssumption DEF Filled
    <3>2. Cardinality(Filled(f)) = 0
      BY <2>2, <2>5 DEF CountInv
    <3>3. QED
      BY <3>1, <3>2, Sizes
  <2>8. ASSUME NEW b \in Buffers PROVE buf[b].file # f
    <3>1. SUFFICES ASSUME buf[b].file = f PROVE FALSE
      OBVIOUS
    <3>2. buf[b].size = 0
      BY <2>2, <2>7, <3>1 DEF Filled, Types, BufferStates
    <3>3. buf[b].at # "free"
      BY <2>2, <2>6, <3>1 DEF StageInv, FreeBuffer
    <3>4. buf[b].at = "stage" /\ file[f].stage = b
      BY <2>2, <3>1, <3>2, <3>3 DEF StageInv
    <3>5. QED
      BY <2>2, <2>6, <3>4, WriterAssumption DEF StageInv
  <2>9. file[f].active = 0
    <3>1. InIO(f) = {}
      BY <2>8 DEF InIO
    <3>2. QED
      BY <2>2, <3>1, FS_EmptySet DEF CountInv
  <2>10. file[f].inflight = 0
    <3>1. OfFile(f) = [b \in Buffers |-> 0]
      BY <2>8 DEF OfFile
    <3>2. OfFile(f) \in Fills /\ \A b \in Buffers : OfFile(f)[b] = 0
      BY <3>1, WriterAssumption DEF Fills
    <3>3. Area(OfFile(f)) = 0
      BY <3>2, AreaEmpty
    <3>4. Reserved(f) = 0
      <4>1. prod[JobOf[f]].file = f => prod[JobOf[f]].pc # "commit"
        BY <2>6 DEF On, Writing
      <4>2. QED
        BY <2>2, <2>6, <4>1 DEF Reserved, DecoderInv
    <3>5. QED
      BY <2>2, <3>3, <3>4 DEF AreaInv
  <2>11. file[f].closed => ~file[f].handle /\ Serving(f) = {}
    BY <2>2, <2>3 DEF CloseInv
  <2>12. Cardinality(Serving(f)) <= 1
    <3>1. \A v, w \in Serving(f) : v = w
      BY <2>2, <2>6 DEF Serving, PlaceInv
    <3>2. CASE Serving(f) = {}
      BY <3>2, FS_EmptySet
    <3>3. CASE Serving(f) # {}
      <4>1. PICK w \in Serving(f) : TRUE
        BY <3>3
      <4>2. Serving(f) = {w}
        BY <3>1, <4>1
      <4>3. QED
        BY <4>2, FS_Singleton, SMTT(60)
    <3>4. QED
      BY <3>2, <3>3
  <2>13. QED
    BY <2>5, <2>8, <2>9, <2>10, <2>11, <2>12
<1>2. QED
  BY <1>1, WriterInvariance, PTL

(* What finish_job promises: no unit is written twice, and a job that it   *)
(* reports without an error has every file it made created, closed and     *)
(* whole, each accepted unit at its place once.                            *)
THEOREM WholeTheorem == Spec => []WholeOnSuccess
<1>1. ASSUME WriterInv PROVE WholeOnSuccess
  <2>1. Types /\ CloseInv /\ StageInv /\ DecoderInv /\ CountInv /\ DiskInv /\ ErrInv
    BY <1>1 DEF WriterInv
  <2>2. \A f \in Files : \A u \in Units(f) : disk[f][u] \in 0 .. 1
    BY <2>1 DEF DiskInv
  <2>3. \A f \in Files : \A u \in Units(f) : disk[f][u] <= 1
    BY <2>2
  <2>4. ASSUME NEW f \in Files, prod[JobOf[f]].pc = "done", JobOf[f] \notin err, file[f].closing
        PROVE  /\ file[f].closed /\ file[f].created /\ ~file[f].failed
               /\ \A u \in Units(f) : disk[f][u] = (IF u < file[f].accepted THEN 1 ELSE 0)
    <3>1. PICK j \in Jobs : j = JobOf[f]
      BY WriterAssumption
    <3>2. Holding(j) = {} /\ Ending(j) = {}
      <4>1. /\ Holding(j) \in SUBSET Buffers /\ Ending(j) \in SUBSET Files
            /\ IsFiniteSet(Buffers) /\ IsFiniteSet(Files)
        BY WriterAssumption DEF Holding, Ending
      <4>2. /\ Cardinality(Holding(j)) \in Nat /\ Cardinality(Ending(j)) \in Nat
            /\ Cardinality(Holding(j)) = 0 => Holding(j) = {}
            /\ Cardinality(Ending(j)) = 0 => Ending(j) = {}
        BY <4>1, Sizes
      <4>3. Cardinality(Holding(j)) + Cardinality(Ending(j)) = 0
        BY <2>1, <2>4, <3>1 DEF CountInv, DecoderInv
      <4>4. Cardinality(Holding(j)) = 0 /\ Cardinality(Ending(j)) = 0
        BY <4>2, <4>3
      <4>5. QED
        BY <4>2, <4>4
    <3>3. file[f].closed
      BY <2>4, <3>1, <3>2 DEF Ending
    <3>4. file[f].created /\ ~file[f].failed
      BY <2>1, <2>4, <3>3 DEF ErrInv
    <3>5. file[f].stage = None
      BY <2>1, <2>4 DEF StageInv, On, Writing
    <3>6. file[f].next = file[f].accepted
      BY <2>1, <2>4, <3>5 DEF DecoderInv
    <3>7. ASSUME NEW u \in Units(f)
          PROVE  disk[f][u] = (IF u < file[f].accepted THEN 1 ELSE 0)
      <4>1. u \in Int /\ file[f].next \in Nat
        BY <2>1, WriterAssumption DEF Units, Types, FileStates
      <4>2. CASE u < file[f].next
        <5>1. SUFFICES ASSUME disk[f][u] = 0 PROVE FALSE
          BY <2>2, <3>6, <4>2
        <5>2. PICK b \in Buffers : Live(b) /\ buf[b].file = f /\ Missing(b, u)
          BY <2>1, <2>4, <4>2, <5>1 DEF DiskInv
        <5>3. buf[b].offset \in Nat /\ buf[b].size \in Nat /\ buf[b].done \in Nat
          BY <2>1 DEF Types, BufferStates
        <5>4. buf[b].size > 0
          BY <4>1, <5>2, <5>3 DEF Missing
        <5>5. b \in Holding(j)
          BY <3>1, <5>2, <5>4 DEF Holding
        <5>6. QED
          BY <3>2, <5>5
      <4>3. CASE ~(u < file[f].next)
        <5>1. u >= file[f].next
          BY <4>1, <4>3
        <5>2. disk[f][u] = 0
          BY <2>1, <5>1 DEF DiskInv
        <5>3. QED
          BY <3>6, <4>3, <5>2
      <4>4. QED
        BY <4>2, <4>3
    <3>8. QED
      BY <3>3, <3>4, <3>7
  <2>5. QED
    BY <2>3, <2>4 DEF WholeOnSuccess
<1>2. QED
  BY <1>1, WriterInvariance, PTL

(* defer_space_work and dispatch_space_retries: a parked item the gate     *)
(* would let go always has a retry packet, a canceller about to wake the   *)
(* writer, or a thread that will search the queue.                         *)
THEOREM WakeTheorem == Spec => []NoLostWake
<1>1. WriterInv => NoLostWake
  BY DEF WriterInv, WakeInv
<1>2. QED
  BY <1>1, WriterInvariance, PTL

=============================================================================
