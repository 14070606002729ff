---------------------- MODULE WatchJournalChainProofs ----------------------
(***************************************************************************)
(* For every number of records, batches, owners and waiting clients: the   *)
(* journal's own consistency errors are unreachable, a granted seal leaves *)
(* no handle inside the sealed prefix, and a stream is retired only when   *)
(* everything submitted to it is durable.                                  *)
(***************************************************************************)
EXTENDS WatchJournalProofs

(***************************************************************************)
(* The inductive invariant, on top of IInv.                                *)
(***************************************************************************)

\* What the clients' coordinator had handed out at some moment.
View == [last : 0..MaxSeq, start : Starts, handles : 0..MaxOwners]

Current == [last |-> next_sequence - 1, start |-> segment_start, handles |-> handles]

\* How sending command c takes the coordinator from view a to view b.
Sends(a, c, b) ==
    /\ c.op = "append" => /\ a.handles > 0 /\ c.seq = a.last + 1 /\ c.start = a.start
                          /\ b.last = a.last + 1 /\ b.start = a.start /\ b.handles = a.handles
    /\ c.op = "seal" => /\ a.handles > 0 /\ c.seq = a.last /\ c.start = a.start /\ a.start <= a.last
                        /\ b.last = a.last /\ b.start = a.last + 1 /\ b.handles = a.handles
    /\ c.op = "open" => a.handles > 0 /\ b.handles = a.handles + 1
    /\ c.op = "release" => a.handles > 0 /\ b.handles = a.handles - 1
    /\ c.op = "barrier" => b.handles = a.handles
    /\ c.op \in {"open", "release", "barrier"} => b.last = a.last /\ b.start = a.start

\* view[i] is the coordinator's view after the i-th command of the channel was
\* sent, view[0] the one after all the writer has received.  Without a handle
\* nothing but barriers is sent.
Past(view) ==
    /\ view[Len(queue)] = Current
    /\ \A i \in 1..Len(queue) : Sends(view[i - 1], queue[i], view[i])
    /\ \A i, j \in 0..Len(queue) : i <= j /\ view[i].handles = 0
           => view[j].handles = 0 /\ view[j].last = view[i].last

\* The segment the writer appends to is published up to the written frontier,
\* or it was loaded from an earlier process and is durable by the seed.
ActiveInv(v) ==
    v.start <= v.last =>
        IF segments[v.start].state = "open"
        THEN segments[v.start].last_seq = written_seq
        ELSE durable_seq >= written_seq

\* The writer's side of the view: its owners and its batch are those of the
\* commands received, and as long as nothing failed so are its frontier and
\* the one segment that is published and not sealed.
Received(v) ==
    /\ owners = v.handles
    /\ v.handles = 0 => batch.phase = "idle"
    /\ batch.phase # "idle" => batch.start = v.start /\ batch.last = v.last /\ batch.contiguous
    /\ \A s \in Starts : Sealed(s) => s < v.start
    /\ error = "none" =>
          /\ batch.phase = "idle" => v.last = written_seq /\ ActiveInv(v)
          /\ batch.phase = "collect" => batch.first = written_seq + 1
          /\ \A s \in Starts : segments[s].state = "open" /\ segments[s].last_seq # 0
                                  /\ segments[s].sealed_end = 0 => s = v.start

ChainInv == \E view \in [0..Len(queue) -> View] : Past(view) /\ Received(view[0])

CauseInv ==
    /\ batch.phase = "failed" => batch.cause = "append"
    /\ batch.phase = "written" => segments[batch.start].state = "open"
    /\ NoConsistencyError

\* Where the published segments end: an open one ends past the sealed frontier
\* and, if sealed, past the durable one; the unsealed one ends past every seal.
EndInv ==
    \A s \in Starts :
        /\ segments[s].sealed_end # 0 => segments[s].last_seq = segments[s].sealed_end
        /\ segments[s].state = "open" /\ segments[s].sealed_end # 0
              => segments[s].sealed_end > durable_seq
        /\ segments[s].state = "open" /\ segments[s].last_seq # 0
              => segments[s].last_seq > sealed_seq
        /\ segments[s].state = "open" /\ segments[s].last_seq # 0 /\ segments[s].sealed_end = 0
              => \A t \in Starts : segments[s].last_seq > segments[t].sealed_end

\* A segment that ends within the durable frontier is clean, and one that ends
\* within a flush's target will be when the flush is done.
CleanInv ==
    /\ \A s \in Starts : segments[s].last_seq <= durable_seq => ~Dirty(s)
    /\ flush.active => \A s \in Starts :
          Dirty(s) /\ segments[s].last_seq <= flush.target
              => flush.epoch[s] = segments[s].write_epoch

RetireInv == ~registered => owners = 0 /\ (error = "none" => durable_seq >= written_seq)

CInv ==
    /\ ChainInv
    /\ CauseInv
    /\ EndInv
    /\ CleanInv
    /\ RetireInv

-----------------------------------------------------------------------------
(***************************************************************************)
(* The channel: a send, a receive, and a step that touches neither.        *)
(***************************************************************************)

LEMMA ViewFacts ==
    /\ Starts \subseteq Nat /\ MaxSeq \in Nat /\ MaxOwners \in Nat
    /\ \A v \in View : v.last \in Nat /\ v.start \in Nat /\ v.start \in Starts /\ v.handles \in Nat
BY BoundsAssumption DEF View, Starts

LEMMA CurrentType == TypeOK => Current \in View
BY BoundsAssumption DEF TypeOK, Current, View, Starts

\* A step that leaves the channel and the coordinator alone keeps the view.
LEMMA StillChain ==
    ASSUME ChainInv, UNCHANGED <<queue, clientVars>>,
           \A v \in View : Received(v) => Received(v)'
    PROVE  ChainInv'
<1>1. PICK view \in [0..Len(queue) -> View] : Past(view) /\ Received(view[0])
  BY DEF ChainInv
<1>2. queue' = queue /\ Current' = Current
  BY DEF clientVars, Current
<1>3. Past(view)'
  BY <1>1, <1>2 DEF Past
<1>4. Len(queue) \in Nat => Received(view[0])'
  <2>1. Len(queue) \in Nat => view[0] \in View
    BY <1>1
  <2>2. QED
    BY <1>1, <2>1
<1>5. QED
  BY <1>1, <1>2, <1>3, <1>4 DEF ChainInv

\* A send appends the coordinator's new view.
LEMMA SendChain ==
    ASSUME ChainInv, TypeOK, NEW c \in Command, queue' = Append(queue, c),
           NEW w \in View, Current' = w, Sends(Current, c, w),
           \A v \in View : Received(v) => Received(v)'
    PROVE  ChainInv'
<1>1. PICK view \in [0..Len(queue) -> View] : Past(view) /\ Received(view[0])
  BY DEF ChainInv
<1>2. queue \in Seq(Command)
  BY DEF TypeOK
<1>n. PICK n \in Nat : n = Len(queue)
  BY <1>2
<1> DEFINE next == [i \in 0..(n + 1) |-> IF i = n + 1 THEN w ELSE view[i]]
<1>3. /\ n \in Nat /\ Len(queue') = n + 1
      /\ queue'[n + 1] = c
      /\ \A i \in 1..n : queue'[i] = queue[i]
  BY <1>2, <1>n, SendFacts
<1>4. /\ next \in [0..(n + 1) -> View] /\ next[n + 1] = w
      /\ \A i \in 0..n : next[i] = view[i]
  BY <1>1, <1>3, <1>n
<1>5. /\ view[n] = Current
      /\ \A i \in 1..n : Sends(view[i - 1], queue[i], view[i])
      /\ \A i, j \in 0..n : i <= j /\ view[i].handles = 0
             => view[j].handles = 0 /\ view[j].last = view[i].last
  BY <1>1, <1>n DEF Past
<1> HIDE DEF next
<1>6. \A i \in 1..(n + 1) : Sends(next[i - 1], queue'[i], next[i])
  <2>1. ASSUME NEW i \in 1..n PROVE Sends(next[i - 1], queue'[i], next[i])
    <3>1. i - 1 \in 0..n /\ i \in 0..n
      BY <1>3
    <3>2. next[i - 1] = view[i - 1] /\ next[i] = view[i] /\ queue'[i] = queue[i]
      BY <1>3, <1>4, <3>1
    <3>3. QED
      BY <1>5, <3>2
  <2>2. Sends(next[n], queue'[n + 1], next[n + 1])
    <3>1. next[n] = Current
      BY <1>3, <1>4, <1>5
    <3>2. QED
      BY <1>3, <1>4, <3>1
  <2>3. \A i \in 1..(n + 1) : i \in 1..n \/ (i = n + 1 /\ i - 1 = n)
    BY <1>3
  <2>4. QED
    BY <2>1, <2>2, <2>3
<1>7. ASSUME NEW i \in 0..(n + 1), NEW j \in 0..(n + 1), i <= j, next[i].handles = 0
      PROVE  next[j].handles = 0 /\ next[j].last = next[i].last
  <2>1. CASE j \in 0..n
    BY <1>3, <1>4, <1>5, <1>7, <2>1
  <2>2. CASE i = n + 1
    BY <1>3, <1>7, <2>2
  <2>3. CASE i \in 0..n /\ j = n + 1
    <3>1. n \in 0..n /\ i <= n /\ next[i] = view[i]
      BY <1>3, <1>4, <2>3
    <3>2. Current.handles = 0 /\ Current.last = view[i].last
      BY <1>5, <1>7, <2>3, <3>1
    <3>3. c.op \in Ops
      BY DEF Command
    <3>4. w.handles = 0 /\ w.last = Current.last
      BY <3>2, <3>3 DEF Sends, Ops
    <3>5. QED
      BY <1>4, <2>3, <3>1, <3>2, <3>4
  <2>4. QED
    BY <1>3, <2>1, <2>2, <2>3
<1>8. Past(next)'
  BY <1>3, <1>4, <1>6, <1>7 DEF Past
<1>9. Received(next[0])'
  <2>1. view[0] \in View /\ next[0] = view[0]
    BY <1>1, <1>3, <1>4, <1>n
  <2>2. QED
    BY <1>1, <2>1
<1>10. QED
  BY <1>3, <1>4, <1>8, <1>9 DEF ChainInv

\* A receive drops the oldest view.
LEMMA ReceiveChain ==
    ASSUME ChainInv, TypeOK, queue # <<>>, queue' = Tail(queue), UNCHANGED clientVars,
           \A v, w \in View : Received(v) /\ Sends(v, Head(queue), w) => Received(w)'
    PROVE  ChainInv'
<1>1. PICK view \in [0..Len(queue) -> View] : Past(view) /\ Received(view[0])
  BY DEF ChainInv
<1>2. queue \in Seq(Command)
  BY DEF TypeOK
<1>n. PICK n \in Nat : n = Len(queue)
  BY <1>2
<1> DEFINE next == [i \in 0..(n - 1) |-> view[i + 1]]
<1>3. /\ n \in Nat \ {0} /\ Len(queue') = n - 1 /\ Head(queue) = queue[1]
      /\ \A i \in 1..(n - 1) : queue'[i] = queue[i + 1]
  BY <1>2, <1>n, ReceiveFacts
<1>4. /\ next \in [0..(n - 1) -> View]
      /\ \A i \in 0..(n - 1) : next[i] = view[i + 1]
  BY <1>1, <1>3, <1>n
<1>5. /\ view[n] = Current
      /\ \A i \in 1..n : Sends(view[i - 1], queue[i], view[i])
      /\ \A i, j \in 0..n : i <= j /\ view[i].handles = 0
             => view[j].handles = 0 /\ view[j].last = view[i].last
  BY <1>1, <1>n DEF Past
<1>6. Current' = Current
  BY DEF Current, clientVars
<1>7. view[0] \in View /\ view[1] \in View
  BY <1>1, <1>3, <1>n
<1> HIDE DEF next
<1>8. \A i \in 1..(n - 1) : Sends(next[i - 1], queue'[i], next[i])
  <2>1. SUFFICES ASSUME NEW i \in 1..(n - 1) PROVE Sends(next[i - 1], queue'[i], next[i])
    OBVIOUS
  <2>2. i - 1 \in 0..(n - 1) /\ i \in 0..(n - 1) /\ (i - 1) + 1 = (i + 1) - 1 /\ i + 1 \in 1..n
    BY <1>3
  <2>3. next[i - 1] = view[(i + 1) - 1] /\ next[i] = view[i + 1] /\ queue'[i] = queue[i + 1]
    BY <1>3, <1>4, <2>2
  <2>4. QED
    BY <1>5, <2>2, <2>3
<1>9. next[n - 1] = Current
  BY <1>3, <1>4, <1>5
<1>10. \A i, j \in 0..(n - 1) : i <= j /\ next[i].handles = 0
           => next[j].handles = 0 /\ next[j].last = next[i].last
  <2>1. ASSUME NEW i \in 0..(n - 1), NEW j \in 0..(n - 1), i <= j, next[i].handles = 0
        PROVE  next[j].handles = 0 /\ next[j].last = next[i].last
    <3>1. i + 1 \in 0..n /\ j + 1 \in 0..n /\ i + 1 <= j + 1
      BY <1>3, <2>1
    <3>2. next[i] = view[i + 1] /\ next[j] = view[j + 1]
      BY <1>4
    <3>3. QED
      BY <1>5, <2>1, <3>1, <3>2
  <2>2. QED
    BY <2>1
<1>11. Past(next)'
  BY <1>3, <1>6, <1>8, <1>9, <1>10 DEF Past
<1>12. Received(next[0])'
  <2>1. next[0] = view[1] /\ Sends(view[0], Head(queue), view[1])
    <3>1. 1 \in 1..n /\ 0 \in 0..(n - 1) /\ 1 - 1 = 0 /\ 0 + 1 = 1
      BY <1>3
    <3>2. QED
      BY <1>3, <1>4, <1>5, <3>1
  <2>2. QED
    BY <1>1, <1>7, <2>1
<1>13. QED
  BY <1>3, <1>4, <1>11, <1>12 DEF ChainInv

-----------------------------------------------------------------------------
(***************************************************************************)
(* Frames: what a step that leaves some variables alone keeps.             *)
(***************************************************************************)

LEMMA ReceivedFrame ==
    ASSUME UNCHANGED <<owners, batch, segments, error, written_seq, durable_seq>>, NEW v \in View, Received(v)
    PROVE  Received(v)'
BY DEF Received, ActiveInv, Sealed

LEMMA CauseFrame ==
    ASSUME CauseInv, UNCHANGED <<batch, segments, error>>
    PROVE  CauseInv'
BY DEF CauseInv, NoConsistencyError

LEMMA SegmentFrame ==
    ASSUME EndInv, CleanInv, UNCHANGED <<segments, durable_seq, sealed_seq>>,
           flush'.active => flush.active /\ flush'.epoch = flush.epoch /\ flush'.target = flush.target
    PROVE  EndInv' /\ CleanInv'
BY DEF EndInv, CleanInv, Dirty

LEMMA RetireFrame ==
    ASSUME RetireInv, UNCHANGED <<registered, owners, error, durable_seq, written_seq>>
    PROVE  RetireInv'
BY DEF RetireInv

-----------------------------------------------------------------------------
(***************************************************************************)
(* The clients.                                                            *)
(***************************************************************************)

\* What the clients do is seen by nobody but the channel.
LEMMA ClientChain ==
    ASSUME IInv, IInv', CInv, Client \/ Return \/ UNCHANGED vars
    PROVE  CInv'
<1>0. /\ TypeOK /\ ChainInv /\ CauseInv /\ EndInv /\ CleanInv /\ RetireInv
      /\ Current \in View /\ Current' \in View
  <2>0. next_sequence' \in 1..(MaxSeq + 1) /\ segment_start' \in Starts /\ handles' \in 0..MaxOwners
    BY DEF IInv, TypeOK
  <2>1. Current' \in View
    <3>0. MaxSeq \in Nat
      BY BoundsAssumption
    <3>1. \A n \in 1..(MaxSeq + 1) : n - 1 \in 0..MaxSeq
      BY <3>0
    <3>2. QED
      BY <2>0, <3>1 DEF Current, View
  <2>2. QED
    BY <2>1, CurrentType DEF IInv, CInv
<1>1. UNCHANGED <<batch, registered, owners, written_seq, durable_seq, sealed_seq, segments, error, flush>>
  BY DEF Client, Return, vars, SubmitAppend, SubmitSeal, RequestFlush, SubmitOpen, SubmitRelease,
     SubmitBarrier, TicketOk, TicketErr, streamVars
<1>2. \A v \in View : Received(v) => Received(v)'
  BY <1>1, ReceivedFrame
<1>3. CauseInv' /\ EndInv' /\ CleanInv' /\ RetireInv'
  BY <1>0, <1>1, CauseFrame, SegmentFrame, RetireFrame
<1>4. ASSUME NEW c \in Command, queue' = Append(queue, c), Sends(Current, c, Current')
      PROVE  ChainInv'
  <2>1. PICK w \in View : w = Current'
    BY <1>0
  <2>2. QED
    BY <1>0, <1>2, <1>4, <2>1, SendChain
<1>5. /\ next_sequence \in Nat /\ segment_start \in Nat /\ handles \in Nat
      /\ next_sequence - 1 \in 0..MaxSeq
  BY <1>0, BoundsAssumption DEF TypeOK, Starts
<1>6. ASSUME NEW durable \in BOOLEAN, SubmitAppend(durable) PROVE ChainInv'
  <2> DEFINE c == [op |-> "append", seq |-> next_sequence, start |-> segment_start, durable |-> durable]
  <2>1. c \in Command /\ queue' = Append(queue, c)
    BY <1>0, <1>6, BoundsAssumption DEF SubmitAppend, Command, Ops, TypeOK, Starts
  <2>2. Sends(Current, c, Current')
    BY <1>5, <1>6 DEF SubmitAppend, Sends, Current
  <2> HIDE DEF c
  <2>3. QED
    BY <1>4, <2>1, <2>2
<1>7. ASSUME SubmitSeal PROVE ChainInv'
  <2> DEFINE c == [op |-> "seal", seq |-> next_sequence - 1, start |-> segment_start, durable |-> FALSE]
  <2>1. c \in Command /\ queue' = Append(queue, c)
    BY <1>0, <1>5, <1>7, BoundsAssumption DEF SubmitSeal, Command, Ops, TypeOK, Starts
  <2>2. Sends(Current, c, Current')
    BY <1>5, <1>7 DEF SubmitSeal, Sends, Current
  <2> HIDE DEF c
  <2>3. QED
    BY <1>4, <2>1, <2>2
<1>8. ASSUME NEW op \in {"open", "release", "barrier"}, queue' = Append(queue, Control(op)),
             Sends(Current, Control(op), Current')
      PROVE  ChainInv'
  <2>1. Control(op) \in Command
    BY BoundsAssumption DEF Control, Command, Ops
  <2>2. QED
    BY <1>4, <1>8, <2>1
<1>9. ASSUME SubmitOpen \/ SubmitRelease \/ SubmitBarrier PROVE ChainInv'
  <2>1. CASE SubmitOpen
    BY <1>5, <1>8, <2>1 DEF SubmitOpen, Sends, Current, Control
  <2>2. CASE SubmitRelease
    BY <1>5, <1>8, <2>2 DEF SubmitRelease, Sends, Current, Control
  <2>3. CASE SubmitBarrier
    BY <1>5, <1>8, <2>3 DEF SubmitBarrier, Sends, Current, Control, clientVars
  <2>4. QED
    BY <1>9, <2>1, <2>2, <2>3
<1>10. ASSUME RequestFlush \/ Return \/ UNCHANGED vars PROVE ChainInv'
  <2>1. UNCHANGED <<queue, clientVars>>
    BY <1>10 DEF RequestFlush, Return, TicketOk, TicketErr, vars
  <2>2. QED
    BY <1>0, <1>2, <2>1, StillChain
<1>11. ChainInv'
  BY <1>6, <1>7, <1>9, <1>10 DEF Client
<1>12. QED
  BY <1>3, <1>11 DEF CInv

-----------------------------------------------------------------------------
(***************************************************************************)
(* The writer.                                                             *)
(***************************************************************************)

LEMMA SomeView ==
    ASSUME IInv, CInv
    PROVE  \E v \in View : Received(v)
<1>1. PICK view \in [0..Len(queue) -> View] : Past(view) /\ Received(view[0])
  BY DEF CInv, ChainInv
<1>2. Len(queue) \in Nat
  BY DEF IInv, TypeOK
<1>3. view[0] \in View
  BY <1>1, <1>2
<1>4. QED
  BY <1>1, <1>3

\* The command at the head of the channel continues what was received.
LEMMA HeadViews ==
    ASSUME IInv, CInv, queue # <<>>
    PROVE  \E v, w \in View : Received(v) /\ Sends(v, Head(queue), w)
<1>1. PICK view \in [0..Len(queue) -> View] : Past(view) /\ Received(view[0])
  BY DEF CInv, ChainInv
<1>2. queue \in Seq(Command)
  BY DEF IInv, TypeOK
<1>3. Len(queue) \in Nat \ {0} /\ Head(queue) = queue[1]
  BY <1>2, ReceiveFacts
<1>4. view[0] \in View /\ view[1] \in View
  BY <1>1, <1>3
<1>5. Sends(view[1 - 1], queue[1], view[1])
  BY <1>1, <1>3 DEF Past
<1>6. 1 - 1 = 0
  OBVIOUS
<1>7. QED
  BY <1>1, <1>3, <1>4, <1>5, <1>6

\* The writer is busy, or has a command of a client's, only while there is an
\* owner.
LEMMA OwnedWhileBusy ==
    ASSUME IInv, CInv, batch.phase # "idle" \/ (queue # <<>> /\ Head(queue).op # "barrier")
    PROVE  owners # 0 /\ registered
<1>1. CASE batch.phase # "idle"
  <2>1. PICK v \in View : Received(v)
    BY SomeView
  <2>2. owners # 0
    BY <1>1, <2>1 DEF Received
  <2>3. QED
    BY <2>2 DEF CInv, RetireInv
<1>2. CASE queue # <<>> /\ Head(queue).op # "barrier"
  <2>1. PICK v \in View, w \in View : Received(v) /\ Sends(v, Head(queue), w)
    BY <1>2, HeadViews
  <2>2. Head(queue).op \in Ops
    <3>1. Head(queue) \in Command
      BY <1>2, ReceiveFacts DEF IInv, TypeOK
    <3>2. QED
      BY <3>1 DEF Command
  <2>3. v.handles > 0 /\ v.handles \in Nat
    BY <1>2, <2>1, <2>2, ViewFacts DEF Sends, Ops
  <2>4. owners # 0
    BY <2>1, <2>3 DEF Received
  <2>5. QED
    BY <2>4 DEF CInv, RetireInv
<1>3. QED
  BY <1>1, <1>2

\* The append the writer takes continues its batch, or the written frontier.
LEMMA CollectChain ==
    ASSUME IInv, CInv, WriterCollect \/ WriterExtend
    PROVE  CInv'
<1> DEFINE c == Head(queue)
<1>0. /\ queue # <<>> /\ queue' = Tail(queue) /\ c.op = "append"
      /\ UNCHANGED <<clientVars, streamVars, flush>>
      /\ TypeOK /\ ChainInv /\ CauseInv /\ EndInv /\ CleanInv /\ RetireInv
  BY DEF WriterCollect, WriterExtend, CanExtend, NextIs, IInv, CInv
<1>1. batch \in Batch
  BY <1>0 DEF TypeOK
<1>2. \/ /\ WriterCollect /\ batch.phase = "idle"
         /\ batch'.start = c.start /\ batch'.first = c.seq /\ batch'.last = c.seq
         /\ batch'.phase = "collect" /\ batch'.contiguous = TRUE
      \/ /\ WriterExtend /\ batch.phase = "collect"
         /\ batch'.start = batch.start /\ batch'.first = batch.first /\ batch'.last = c.seq
         /\ batch'.phase = "collect"
         /\ batch'.contiguous = (batch.contiguous /\ c.seq = batch.last + 1)
  <2>1. CASE WriterCollect
    BY <2>1 DEF WriterCollect, NoBatch
  <2>2. CASE WriterExtend
    BY <1>1, <2>2 DEF WriterExtend, Batch
  <2>3. QED
    BY <2>1, <2>2
<1> HIDE DEF c
<1>3. ASSUME NEW v \in View, NEW w \in View, Received(v), Sends(v, c, w)
      PROVE  Received(w)'
  <2>1. /\ v.handles > 0 /\ c.seq = v.last + 1 /\ c.start = v.start
        /\ w.last = v.last + 1 /\ w.start = v.start /\ w.handles = v.handles
    BY <1>0, <1>3 DEF Sends
  <2>2. /\ UNCHANGED <<owners, segments, error, written_seq, durable_seq>>
        /\ \A s \in Starts : Sealed(s)' = Sealed(s)
    BY <1>0 DEF streamVars, Sealed
  <2>3. w.handles # 0
    BY <2>1, ViewFacts
  <2>4. batch'.phase = "collect" /\ batch'.start = w.start /\ batch'.last = w.last /\ batch'.contiguous
    <3>1. CASE batch.phase = "idle"
      BY <1>2, <2>1, <3>1
    <3>2. CASE batch.phase = "collect"
      BY <1>2, <1>3, <2>1, <3>2 DEF Received
    <3>3. QED
      BY <1>2, <3>1, <3>2
  <2>5. error = "none" => batch'.first = written_seq + 1
    BY <1>2, <1>3, <2>1 DEF Received
  <2>6. QED
    BY <1>3, <2>1, <2>2, <2>3, <2>4, <2>5 DEF Received
<1>4. ChainInv'
  BY <1>0, <1>3, ReceiveChain DEF c
<1>5. CauseInv'
  BY <1>0, <1>2 DEF CauseInv, NoConsistencyError, streamVars
<1>6. EndInv' /\ CleanInv' /\ RetireInv'
  BY <1>0, SegmentFrame, RetireFrame DEF streamVars
<1>7. QED
  BY <1>4, <1>5, <1>6 DEF CInv

\* A dropped batch leaves the view: after an error the frontier says nothing.
LEMMA SkipChain ==
    ASSUME IInv, CInv, WriterSkip \/ WriterFail
    PROVE  CInv'
<1>0. /\ TypeOK /\ ChainInv /\ CauseInv /\ EndInv /\ CleanInv /\ RetireInv
      /\ UNCHANGED <<queue, clientVars, owners, segments, durable_seq, sealed_seq, flush>>
      /\ batch' = NoBatch /\ NoBatch.phase = "idle"
  BY NoBatchFacts DEF IInv, CInv, WriterSkip, WriterFail, streamVars
<1>1. error' # "none" /\ NoConsistencyError'
  <2>1. CASE WriterSkip
    BY <1>0, <2>1 DEF WriterSkip, streamVars, CauseInv, NoConsistencyError
  <2>2. CASE WriterFail
    BY <1>0, <2>2 DEF WriterFail, FailStream, FirstError, CauseInv, NoConsistencyError
  <2>3. QED
    BY <2>1, <2>2
<1>2. ASSUME NEW v \in View, Received(v) PROVE Received(v)'
  BY <1>0, <1>1, <1>2 DEF Received, Sealed
<1>3. ChainInv'
  BY <1>0, <1>2, StillChain
<1>4. CauseInv'
  BY <1>0, <1>1 DEF CauseInv
<1>5. EndInv' /\ CleanInv'
  BY <1>0, SegmentFrame
<1>6. RetireInv'
  <2>1. CASE WriterSkip
    BY <1>0, <2>1, RetireFrame DEF WriterSkip, streamVars
  <2>2. CASE WriterFail
    BY <1>0, <1>1, <2>2 DEF WriterFail, FailStream, StillRegistered, RetireInv
  <2>3. QED
    BY <2>1, <2>2
<1>7. QED
  BY <1>3, <1>4, <1>5, <1>6 DEF CInv

\* The owners count the handles that were opened and not released.
LEMMA ControlChain ==
    ASSUME IInv, CInv, WriterOpen \/ WriterRelease \/ WriterBarrier
    PROVE  CInv'
<1> DEFINE c == Head(queue)
<1>0. /\ TypeOK /\ ChainInv /\ CauseInv /\ EndInv /\ CleanInv /\ RetireInv
      /\ queue # <<>> /\ queue' = Tail(queue) /\ batch.phase = "idle"
      /\ UNCHANGED <<clientVars, batch, segments, error, written_seq, durable_seq, sealed_seq, flush>>
  BY DEF IInv, CInv, WriterOpen, WriterRelease, WriterBarrier, NextIs
<1>1. \/ WriterOpen /\ c.op = "open" /\ owners' = owners + 1
      \/ WriterRelease /\ c.op = "release" /\ owners' = IF owners = 0 THEN 0 ELSE owners - 1
      \/ WriterBarrier /\ c.op = "barrier" /\ owners' = owners
  BY DEF WriterOpen, WriterRelease, WriterBarrier, NextIs
<1> HIDE DEF c
<1>2. ASSUME NEW v \in View, NEW w \in View, Received(v), Sends(v, c, w)
      PROVE  Received(w)'
  <2>1. owners = v.handles /\ v.handles \in Nat
    BY <1>2, ViewFacts DEF Received
  <2>2. owners' = w.handles /\ w.last = v.last /\ w.start = v.start
    <3>1. CASE c.op = "open"
      BY <1>1, <1>2, <2>1, <3>1 DEF Sends
    <3>2. CASE c.op = "release"
      BY <1>1, <1>2, <2>1, <3>2 DEF Sends
    <3>3. CASE c.op = "barrier"
      BY <1>1, <1>2, <2>1, <3>3 DEF Sends
    <3>4. QED
      BY <1>1, <3>1, <3>2, <3>3
  <2>3. QED
    BY <1>0, <1>2, <2>2 DEF Received, ActiveInv, Sealed
<1>3. ChainInv'
  BY <1>0, <1>2, ReceiveChain DEF c
<1>4. CauseInv' /\ EndInv' /\ CleanInv'
  BY <1>0, CauseFrame, SegmentFrame
<1>5. RetireInv'
  <2>1. CASE WriterOpen
    <3>1. registered
      BY <1>0, <1>1, <2>1, OwnedWhileBusy DEF WriterOpen, NextIs
    <3>2. QED
      BY <2>1, <3>1 DEF WriterOpen, RetireInv
  <2>2. CASE WriterRelease
    <3>1. registered /\ owners # 0
      BY <1>0, <2>2, OwnedWhileBusy DEF WriterRelease, NextIs
    <3>2. QED
      BY <1>0, <2>2, <3>1 DEF WriterRelease, StillRegistered, RetireInv
  <2>3. CASE WriterBarrier
    BY <1>0, <2>3, RetireFrame DEF WriterBarrier
  <2>4. QED
    BY <2>1, <2>2, <2>3
<1>6. QED
  BY <1>3, <1>4, <1>5 DEF CInv

LEMMA SegmentFacts ==
    ASSUME IInv, NEW s \in Starts
    PROVE  /\ segments[s] \in Segment /\ segments[s].last_seq \in Nat /\ segments[s].sealed_end \in Nat
           /\ segments[s].write_epoch \in Nat /\ segments[s].flushed_epoch \in Nat
           /\ segments[s].last_seq <= written_seq /\ written_seq \in Nat
           /\ durable_seq \in Nat /\ sealed_seq \in Nat
           /\ durable_seq <= written_seq /\ sealed_seq <= durable_seq
<1>1. segments[s] \in Segment
  BY DEF IInv, TypeOK
<1>2. written_seq \in 0..MaxSeq /\ durable_seq \in 0..MaxSeq /\ sealed_seq \in 0..MaxSeq
  BY DEF IInv, TypeOK
<1>3. QED
  BY <1>1, <1>2, BoundsAssumption DEF Segment, IInv, SegmentInv, FrontierInv

\* A segment that is only opened is neither published nor sealed.
LEMMA OpenFacts ==
    ASSUME IInv, CInv, NEW b \in Starts,
           segments' = segments \/ segments' = [segments EXCEPT ![b] = OpenedSegment(b)],
           UNCHANGED <<durable_seq, sealed_seq, flush>>
    PROVE  /\ EndInv' /\ CleanInv'
           /\ \A s \in Starts : Sealed(s)' => Sealed(s)
           /\ \A s \in Starts :
                  segments'[s].state = "open" /\ segments'[s].last_seq # 0 => segments'[s] = segments[s]
<1> DEFINE fresh == [NoSegment EXCEPT !.state = "open"]
<1>0. EndInv /\ CleanInv /\ segments \in [Starts -> Segment]
  BY DEF CInv, IInv, TypeOK
<1>1. /\ fresh.state = "open" /\ fresh.last_seq = 0 /\ fresh.sealed_end = 0
      /\ fresh.write_epoch = 0 /\ fresh.flushed_epoch = 0
  BY DEF NoSegment
<1>2. \A s \in Starts : segments'[s] \in {segments[s], fresh}
  <2>1. CASE segments' = segments
    BY <2>1
  <2>2. CASE segments' = [segments EXCEPT ![b] = OpenedSegment(b)]
    BY <1>0, <2>2 DEF OpenedSegment
  <2>3. QED
    BY <2>1, <2>2
<1> HIDE DEF fresh
<1>3. ASSUME NEW s \in Starts, segments'[s].state = "open", segments'[s].last_seq # 0
      PROVE  segments'[s] = segments[s]
  BY <1>1, <1>2, <1>3
<1>4. ASSUME NEW s \in Starts, Sealed(s)' PROVE Sealed(s)
  BY <1>1, <1>2, <1>4 DEF Sealed
<1>5. EndInv'
  <2>1. SUFFICES ASSUME NEW s \in Starts
                 PROVE  /\ segments'[s].sealed_end # 0 => segments'[s].last_seq = segments'[s].sealed_end
                        /\ segments'[s].state = "open" /\ segments'[s].sealed_end # 0
                              => segments'[s].sealed_end > durable_seq
                        /\ segments'[s].state = "open" /\ segments'[s].last_seq # 0
                              => segments'[s].last_seq > sealed_seq
                        /\ segments'[s].state = "open" /\ segments'[s].last_seq # 0
                                /\ segments'[s].sealed_end = 0
                              => \A t \in Starts : segments'[s].last_seq > segments'[t].sealed_end
    BY DEF EndInv
  <2>2. CASE segments'[s] = fresh
    BY <1>1, <2>2
  <2>3. CASE segments'[s] = segments[s]
    <3>1. ASSUME NEW t \in Starts, segments[s].state = "open", segments[s].last_seq # 0,
                 segments[s].sealed_end = 0
          PROVE  segments[s].last_seq > segments'[t].sealed_end
      <4>1. segments[s].last_seq > segments[t].sealed_end /\ segments[s].last_seq \in Nat
        BY <1>0, <3>1, SegmentFacts DEF EndInv
      <4>2. QED
        BY <1>1, <1>2, <3>1, <4>1
    <3>2. QED
      BY <1>0, <2>3, <3>1 DEF EndInv
  <2>4. QED
    BY <1>2, <2>2, <2>3
<1>6. \A s \in Starts : Dirty(s)' => Dirty(s) /\ segments'[s] = segments[s]
  BY <1>3 DEF Dirty
<1>7. CleanInv'
  BY <1>0, <1>6 DEF CleanInv
<1>8. QED
  BY <1>3, <1>4, <1>5, <1>7

\* The monotonicity test never fails: the batch continues the written frontier.
LEMMA WriteChain ==
    ASSUME IInv, CInv, WriterWrite \/ WriterWriteFails
    PROVE  CInv'
<1>0. /\ TypeOK /\ ChainInv /\ CauseInv /\ EndInv /\ CleanInv /\ RetireInv /\ batch \in Batch
      /\ batch.phase = "collect" /\ error = "none" /\ batch.start \in Starts
      /\ UNCHANGED <<queue, clientVars, owners, registered, written_seq, durable_seq, sealed_seq, error, flush>>
      /\ segments' = segments \/ segments' = [segments EXCEPT ![batch.start] = OpenedSegment(batch.start)]
  BY DEF IInv, CInv, WriterWrite, WriterWriteFails, BatchInv, TypeOK
<1>1. PICK b \in Starts : b = batch.start
  BY <1>0
<1>2. /\ EndInv' /\ CleanInv'
      /\ \A s \in Starts : Sealed(s)' => Sealed(s)
      /\ \A s \in Starts :
             segments'[s].state = "open" /\ segments'[s].last_seq # 0 => segments'[s] = segments[s]
  BY <1>0, <1>1, OpenFacts
<1>3. Monotonic
  <2>1. PICK v \in View : Received(v)
    BY SomeView
  <2>2. QED
    BY <1>0, <2>1 DEF Received, Monotonic
<1>4. /\ batch'.start = batch.start /\ batch'.last = batch.last /\ batch'.contiguous = batch.contiguous
      /\ \/ WriterWrite /\ batch'.phase = "written"
         \/ batch'.phase = "failed" /\ batch'.cause = "append"
  <2>1. CASE WriterWrite
    <3>1. batch' = [batch EXCEPT !.phase = "written"]
      BY <2>1 DEF WriterWrite
    <3>2. QED
      BY <1>0, <2>1, <3>1 DEF Batch
  <2>2. CASE WriterWriteFails
    <3>1. batch' = [batch EXCEPT !.phase = "failed", !.cause = "append"]
      BY <1>3, <2>2 DEF WriterWriteFails
    <3>2. QED
      BY <1>0, <3>1 DEF Batch
  <2>3. QED
    BY <2>1, <2>2
<1>5. ASSUME NEW v \in View, Received(v) PROVE Received(v)'
  BY <1>0, <1>2, <1>4, <1>5 DEF Received
<1>6. ChainInv'
  BY <1>0, <1>5, StillChain
<1>7. CauseInv'
  <2>1. CASE batch'.phase = "written"
    <3>1. segments'[batch.start].state = "open"
      <4>1. segments' = [segments EXCEPT ![batch.start] = OpenedSegment(batch.start)]
        BY <1>4, <2>1 DEF WriterWrite
      <4>2. OpenedSegment(batch.start).state = "open"
        BY DEF OpenedSegment, NoSegment
      <4>3. QED
        BY <1>0, <4>1, <4>2 DEF TypeOK
    <3>2. QED
      BY <1>0, <1>4, <2>1, <3>1 DEF CauseInv, NoConsistencyError
  <2>2. CASE batch'.phase = "failed"
    BY <1>0, <1>4, <2>2 DEF CauseInv, NoConsistencyError
  <2>3. QED
    BY <1>4, <2>1, <2>2
<1>8. RetireInv'
  BY <1>0, RetireFrame
<1>9. QED
  BY <1>2, <1>6, <1>7, <1>8 DEF CInv

\* The batch's segment is still open when it is published, and is from then on
\* the one that ends at the written frontier.
LEMMA PublishChain ==
    ASSUME IInv, CInv, WriterPublish
    PROVE  CInv'
<1>0. /\ TypeOK /\ ChainInv /\ CauseInv /\ EndInv /\ CleanInv /\ RetireInv /\ batch \in Batch
      /\ batch.phase = "written" /\ batch.start \in Starts /\ segments \in [Starts -> Segment]
      /\ batch' = NoBatch /\ NoBatch.phase = "idle"
      /\ UNCHANGED <<queue, clientVars, owners, durable_seq, sealed_seq, flush>>
  BY NoBatchFacts DEF IInv, CInv, WriterPublish, BatchInv, TypeOK
<1>1. PICK b \in Starts : b = batch.start
  BY <1>0
<1>2. segments[b].state = "open"
  BY <1>0, <1>1 DEF CauseInv
<1>3. /\ segments' = [segments EXCEPT ![b] = PublishedSegment(b)]
      /\ written_seq' = batch.last /\ UNCHANGED <<registered, error>>
  BY <1>1, <1>2 DEF WriterPublish
<1>4. /\ segments'[b].state = "open" /\ segments'[b].last_seq = batch.last
      /\ segments'[b].sealed_end = segments[b].sealed_end
      /\ \A s \in Starts : s # b => segments'[s] = segments[s]
  <2>1. /\ PublishedSegment(b).state = "open" /\ PublishedSegment(b).last_seq = batch.last
        /\ PublishedSegment(b).sealed_end = segments[b].sealed_end
    BY <1>0, <1>2 DEF PublishedSegment, Segment
  <2>2. QED
    BY <1>0, <1>3, <2>1
<1>5. segments[b].sealed_end = 0
  <2>1. Sealed(b) => b < b
    BY <1>0, <1>1 DEF IInv, OrderInv
  <2>2. b \in Nat
    BY ViewFacts
  <2>3. QED
    BY <2>1, <2>2 DEF Sealed
<1>6. batch.last \in Nat /\ batch.last > written_seq /\ written_seq \in Nat
  <2>1. batch.first = written_seq + 1 /\ batch.first <= batch.last
    BY <1>0 DEF IInv, BatchInv
  <2>2. batch.last \in 0..MaxSeq /\ written_seq \in 0..MaxSeq
    BY <1>0 DEF Batch, TypeOK
  <2>3. QED
    BY <2>1, <2>2, BoundsAssumption
<1>7. \A s \in Starts : Sealed(s)' => Sealed(s)
  BY <1>2, <1>4 DEF Sealed
<1>8. ASSUME NEW v \in View, Received(v) PROVE Received(v)'
  <2>1. b = v.start /\ batch.last = v.last
    BY <1>0, <1>1, <1>8 DEF Received
  <2>2. ActiveInv(v)'
    BY <1>3, <1>4, <2>1 DEF ActiveInv
  <2>3. error' = "none" => \A s \in Starts :
            segments'[s].state = "open" /\ segments'[s].last_seq # 0 /\ segments'[s].sealed_end = 0
                => s = v.start
    BY <1>3, <1>4, <1>8, <2>1 DEF Received
  <2>4. QED
    BY <1>0, <1>3, <1>7, <1>8, <2>1, <2>2, <2>3 DEF Received
<1>9. ChainInv'
  BY <1>0, <1>8, StillChain
<1>10. CauseInv'
  BY <1>0, <1>3 DEF CauseInv, NoConsistencyError
<1>11. \A s \in Starts : segments[s].sealed_end <= written_seq /\ segments'[s].sealed_end = segments[s].sealed_end
  BY <1>0, <1>4, SegmentFacts DEF EndInv
<1>12. EndInv'
  <2>1. ASSUME NEW s \in Starts
        PROVE  /\ segments'[s].sealed_end # 0 => segments'[s].last_seq = segments'[s].sealed_end
               /\ segments'[s].state = "open" /\ segments'[s].sealed_end # 0
                     => segments'[s].sealed_end > durable_seq
               /\ segments'[s].state = "open" /\ segments'[s].last_seq # 0
                     => segments'[s].last_seq > sealed_seq
               /\ segments'[s].state = "open" /\ segments'[s].last_seq # 0
                       /\ segments'[s].sealed_end = 0
                     => \A t \in Starts : segments'[s].last_seq > segments'[t].sealed_end
    <3>1. CASE s = b
      <4>1. \A t \in Starts : segments[t].sealed_end \in Nat
        BY SegmentFacts
      <4>2. batch.last > sealed_seq
        BY <1>6, SegmentFacts
      <4>3. QED
        BY <1>4, <1>5, <1>6, <1>11, <3>1, <4>1, <4>2
    <3>2. CASE s # b
      BY <1>0, <1>4, <1>11, <3>2 DEF EndInv
    <3>3. QED
      BY <3>1, <3>2
  <2>2. QED
    BY <1>0, <2>1 DEF EndInv
<1>13. CleanInv'
  <2>1. \A s \in Starts : s # b /\ Dirty(s)' => Dirty(s)
    BY <1>4 DEF Dirty
  <2>2. ~(segments'[b].last_seq <= durable_seq)
    BY <1>4, <1>6, SegmentFacts
  <2>3. flush.active => ~(segments'[b].last_seq <= flush.target)
    <3>1. flush.target \in 0..MaxSeq
      BY <1>0 DEF TypeOK, FlushWork
    <3>2. flush.active => flush.target <= written_seq
      BY DEF IInv, FlushInv
    <3>3. QED
      BY <1>4, <1>6, <3>1, <3>2, BoundsAssumption
  <2>4. QED
    BY <1>0, <1>4, <2>1, <2>2, <2>3 DEF CleanInv
<1>14. RetireInv'
  <2>1. registered
    BY <1>0, OwnedWhileBusy
  <2>2. QED
    BY <1>3, <2>1 DEF RetireInv
<1>15. QED
  BY <1>9, <1>10, <1>12, <1>13, <1>14 DEF CInv

\* What the seal at the head of the channel meets, as long as nothing failed:
\* it names the active segment and the written frontier, and every other
\* published segment that is open waits for the flush of its own seal.
SealFacts(c) ==
    /\ c.start \in Starts /\ c.seq = written_seq /\ written_seq # 0
    /\ ~Sealed(c.start)
    /\ IF segments[c.start].state = "open"
       THEN segments[c.start].last_seq = written_seq
       ELSE durable_seq >= written_seq
    /\ \A s \in Starts :
          s # c.start /\ segments[s].state = "open" /\ segments[s].last_seq # 0
              => segments[s].sealed_end # 0

LEMMA SealMeets ==
    ASSUME IInv, CInv, batch.phase = "idle", NextIs("seal"), error = "none"
    PROVE  SealFacts(Head(queue))
<1>1. PICK v \in View, w \in View : Received(v) /\ Sends(v, Head(queue), w)
  BY HeadViews DEF NextIs
<1>2. Head(queue).seq = v.last /\ Head(queue).start = v.start /\ v.start <= v.last
  BY <1>1 DEF NextIs, Sends
<1>3. v.start \in Starts /\ v.start \in Nat /\ v.start # 0 /\ v.last \in Nat
  BY ViewFacts, BoundsAssumption DEF Starts
<1>4. v.last = written_seq /\ ActiveInv(v)
  BY <1>1 DEF Received
<1>5. ~Sealed(v.start)
  BY <1>1, <1>3 DEF Received
<1>6. \A s \in Starts : s # v.start /\ segments[s].state = "open" /\ segments[s].last_seq # 0
          => segments[s].sealed_end # 0
  BY <1>1 DEF Received
<1>7. QED
  BY <1>2, <1>3, <1>4, <1>5, <1>6 DEF SealFacts, ActiveInv

\* A seal takes the view past its segment, whatever becomes of the segment.
LEMMA SealReceived ==
    ASSUME IInv, CInv, batch.phase = "idle", NextIs("seal"),
           UNCHANGED <<owners, batch, written_seq>>,
           \A s \in Starts : Sealed(s)' => Sealed(s) \/ s = Head(queue).start,
           error' = "none" => /\ error = "none"
                              /\ \A s \in Starts : segments'[s].state = "open" /\ segments'[s].last_seq # 0
                                     => segments'[s].sealed_end # 0,
           NEW v \in View, NEW w \in View, Received(v), Sends(v, Head(queue), w)
    PROVE  Received(w)'
<1>1. /\ Head(queue).start = v.start /\ v.start <= v.last
      /\ w.last = v.last /\ w.start = v.last + 1 /\ w.handles = v.handles
  BY DEF NextIs, Sends
<1>2. v.start \in Nat /\ v.last \in Nat /\ Starts \subseteq Nat
  BY ViewFacts
<1>3. \A s \in Starts : Sealed(s)' => s < w.start
  <2>1. \A s \in Starts : Sealed(s) => s < v.start
    BY DEF Received
  <2>2. QED
    BY <1>1, <1>2, <2>1
<1>4. ActiveInv(w)'
  BY <1>1, <1>2 DEF ActiveInv
<1>5. error' = "none" => w.last = written_seq
  BY <1>1 DEF Received
<1>6. owners' = w.handles /\ batch'.phase = "idle"
  BY <1>1 DEF Received
<1>7. QED
  BY <1>3, <1>4, <1>5, <1>6 DEF Received

\* The segment of a seal is dropped at once only if nothing else is open, and
\* is otherwise not durable yet.
LEMMA SealChain ==
    ASSUME IInv, CInv, WriterSeal
    PROVE  CInv'
<1> DEFINE c == Head(queue)
<1>0. /\ TypeOK /\ ChainInv /\ CauseInv /\ EndInv /\ CleanInv /\ RetireInv
      /\ segments \in [Starts -> Segment] /\ queue # <<>> /\ queue' = Tail(queue)
      /\ batch.phase = "idle" /\ NextIs("seal") /\ SealOutcome(c)
      /\ UNCHANGED <<clientVars, batch, owners, written_seq, durable_seq, flush>>
  BY DEF IInv, CInv, WriterSeal, NextIs, TypeOK
<1>1. ASSUME \A s \in Starts : Sealed(s)' => Sealed(s) \/ s = c.start,
             error' = "none" => /\ error = "none"
                                /\ \A s \in Starts :
                                      segments'[s].state = "open" /\ segments'[s].last_seq # 0
                                          => segments'[s].sealed_end # 0
      PROVE  ChainInv'
  <2>1. \A v, w \in View : Received(v) /\ Sends(v, c, w) => Received(w)'
    BY <1>0, <1>1, SealReceived
  <2>2. QED
    BY <1>0, <2>1, ReceiveChain
<1>2. CASE error # "none"
  <2>1. UNCHANGED <<registered, error, segments, sealed_seq>>
    BY <1>0, <1>2 DEF SealOutcome
  <2>2. CauseInv' /\ EndInv' /\ CleanInv' /\ RetireInv'
    BY <1>0, <2>1, CauseFrame, SegmentFrame, RetireFrame
  <2>3. ChainInv'
    BY <1>1, <1>2, <2>1 DEF Sealed
  <2>4. QED
    BY <2>2, <2>3 DEF CInv
<1>3. CASE error = "none"
  <2>0. SealFacts(c)
    BY <1>0, <1>3, SealMeets
  <2>1. PICK b \in Starts : b = c.start
    BY <2>0 DEF SealFacts
  <2>2. c.seq = written_seq /\ written_seq # 0 /\ ~Sealed(b)
        /\ \A s \in Starts : s # b /\ segments[s].state = "open" /\ segments[s].last_seq # 0
               => segments[s].sealed_end # 0
    BY <2>0, <2>1 DEF SealFacts
  <2>3. ASSUME NEW s \in Starts, s # b, segments[s].state = "open", segments[s].last_seq # 0
        PROVE  durable_seq < written_seq /\ segments[s].sealed_end > durable_seq
    BY <1>0, <2>2, <2>3, SegmentFacts DEF EndInv
  <2> DEFINE seg == [segments[b] EXCEPT !.sealed_end = written_seq]
             shut == [seg EXCEPT !.state = "closed"]
  <2>4. /\ seg.state = segments[b].state /\ seg.last_seq = segments[b].last_seq
        /\ seg.sealed_end = written_seq /\ seg.write_epoch = segments[b].write_epoch
        /\ seg.flushed_epoch = segments[b].flushed_epoch
        /\ shut.state = "closed" /\ shut.last_seq = segments[b].last_seq
        /\ shut.sealed_end = written_seq /\ shut.write_epoch = segments[b].write_epoch
        /\ shut.flushed_epoch = segments[b].flushed_epoch
    BY <1>0 DEF Segment
  <2>5. MaxOf(sealed_seq, written_seq) = written_seq
    BY SegmentFacts DEF MaxOf
  <2>6. /\ UNCHANGED <<registered, error>>
        /\ \/ /\ segments[b].state = "open" /\ durable_seq >= written_seq
              /\ segments' = [segments EXCEPT ![b] = shut] /\ sealed_seq' = written_seq
           \/ /\ segments[b].state = "open"
              /\ ~(durable_seq >= written_seq /\ segments[b].flushed_epoch >= segments[b].write_epoch)
              /\ segments' = [segments EXCEPT ![b] = seg] /\ sealed_seq' = sealed_seq
           \/ /\ segments[b].state # "open" /\ durable_seq >= written_seq
              /\ segments' = segments /\ sealed_seq' = written_seq
    <3>1. CASE segments[b].state = "open"
      <4>1. CASE durable_seq >= written_seq /\ segments[b].flushed_epoch >= segments[b].write_epoch
        BY <1>0, <1>3, <2>1, <2>2, <2>4, <2>5, <3>1, <4>1 DEF SealOutcome
      <4>2. CASE ~(durable_seq >= written_seq /\ segments[b].flushed_epoch >= segments[b].write_epoch)
        BY <1>0, <1>3, <2>1, <2>2, <2>4, <3>1, <4>2 DEF SealOutcome
      <4>3. QED
        BY <4>1, <4>2
    <3>2. CASE segments[b].state # "open"
      <4>1. durable_seq >= written_seq
        BY <2>0, <2>1, <3>2 DEF SealFacts
      <4>2. /\ [segments[c.start] EXCEPT !.sealed_end = c.seq].state # "open"
            /\ durable_seq >= c.seq /\ ~(durable_seq < c.seq) /\ MaxOf(sealed_seq, c.seq) = written_seq
        BY <2>1, <2>2, <2>4, <2>5, <3>2, <4>1, SegmentFacts
      <4>3. UNCHANGED <<registered, error, segments>> /\ sealed_seq' = written_seq
        BY <1>0, <1>3, <4>2, Zenon DEF SealOutcome
      <4>4. QED
        BY <3>2, <4>1, <4>3
    <3>3. QED
      BY <3>1, <3>2
  <2>7. segments[b].state = "open" => segments[b].last_seq = written_seq
    BY <2>0, <2>1 DEF SealFacts
  <2> HIDE DEF seg, shut
  <2>8. /\ \A s \in Starts : s # b => segments'[s] = segments[s]
        /\ segments'[b] \in {segments[b], seg, shut}
    BY <1>0, <2>6
  <2>9. CauseInv' /\ RetireInv'
    BY <1>0, <2>6, RetireFrame DEF CauseInv, NoConsistencyError
  <2>10. CleanInv'
    <3>1. \A s \in Starts : /\ Dirty(s)' => Dirty(s)
                            /\ segments'[s].last_seq = segments[s].last_seq
                            /\ segments'[s].write_epoch = segments[s].write_epoch
      BY <2>4, <2>8 DEF Dirty
    <3>2. QED
      BY <1>0, <3>1 DEF CleanInv
  <2>11. \A s \in Starts : Sealed(s)' => Sealed(s) \/ s = c.start
    BY <2>1, <2>8 DEF Sealed
  <2>12. \A s \in Starts : segments'[s].state = "open" /\ segments'[s].last_seq # 0
             => segments'[s].sealed_end # 0
    BY <1>0, <2>2, <2>4, <2>6, <2>8
  <2>13. ChainInv'
    BY <1>1, <1>3, <2>6, <2>11, <2>12
  <2>14. EndInv'
    <3>1. ASSUME NEW s \in Starts
          PROVE  /\ segments'[s].sealed_end # 0 => segments'[s].last_seq = segments'[s].sealed_end
                 /\ segments'[s].state = "open" /\ segments'[s].sealed_end # 0
                       => segments'[s].sealed_end > durable_seq
                 /\ segments'[s].state = "open" /\ segments'[s].last_seq # 0
                       => segments'[s].last_seq > sealed_seq'
      <4>0. /\ durable_seq \in Nat /\ written_seq \in Nat /\ segments[s].last_seq \in Nat
            /\ segments[b].flushed_epoch \in Nat /\ segments[b].write_epoch \in Nat
            /\ sealed_seq <= durable_seq
        BY SegmentFacts
      <4>1. CASE s # b
        <5>1. segments'[s] = segments[s]
          BY <2>8, <4>1
        <5>2. segments[s].sealed_end # 0 => segments[s].last_seq = segments[s].sealed_end
          BY <1>0 DEF EndInv
        <5>3. segments[s].state = "open" /\ segments[s].last_seq # 0
                 => segments[s].sealed_end > durable_seq /\ sealed_seq' = sealed_seq
          BY <2>3, <2>6, <4>0, <4>1
        <5>4. segments[s].state = "open" /\ segments[s].last_seq # 0 => segments[s].last_seq > sealed_seq
          BY <1>0 DEF EndInv
        <5>5. QED
          BY <5>1, <5>2, <5>3, <5>4
      <4>2. CASE s = b /\ segments[b].state # "open"
        BY <1>0, <2>6, <4>2 DEF EndInv
      <4>3. CASE s = b /\ segments[b].state = "open"
        <5>1. CASE segments'[b] = shut
          BY <2>4, <2>7, <4>3, <5>1
        <5>2. CASE segments' = [segments EXCEPT ![b] = seg] /\ sealed_seq' = sealed_seq
                   /\ ~(durable_seq >= written_seq
                           /\ segments[b].flushed_epoch >= segments[b].write_epoch)
          <6>1. segments'[b] = seg
            BY <1>0, <5>2
          <6>2. durable_seq < written_seq
            BY <1>0, <2>2, <2>7, <4>0, <4>3, <5>2 DEF CleanInv, Dirty
          <6>3. segments[b].last_seq > sealed_seq
            BY <2>7, <4>0, <4>3, <6>2, SegmentFacts
          <6>4. QED
            BY <2>4, <2>7, <4>3, <5>2, <6>1, <6>2, <6>3
        <5>3. QED
          BY <1>0, <2>6, <4>3, <5>1, <5>2
      <4>4. QED
        BY <4>1, <4>2, <4>3
    <3>2. QED
      BY <1>0, <2>12, <3>1 DEF EndInv
  <2>15. QED
    BY <2>9, <2>10, <2>13, <2>14 DEF CInv
<1>4. QED
  BY <1>2, <1>3

-----------------------------------------------------------------------------
(***************************************************************************)
(* The flusher.                                                            *)
(***************************************************************************)

\* Which segments close_ready_segments leaves open, and where the sealed
\* frontier comes from.
LEMMA CloseReadyEnds ==
    ASSUME NEW segs \in [Starts -> Segment], NEW dur \in 0..MaxSeq, CloseReadySegments(segs, dur)
    PROVE  /\ \A s \in Starts : segments'[s].state = "open" =>
                  /\ segs[s].state = "open" /\ segments'[s] = segs[s]
                  /\ ~(/\ segs[s].sealed_end # 0 /\ segs[s].sealed_end <= dur
                       /\ segs[s].flushed_epoch >= segs[s].write_epoch)
           /\ \/ sealed_seq' = sealed_seq
              \/ \E s \in Starts : /\ segs[s].sealed_end # 0 /\ segs[s].sealed_end <= dur
                                    /\ sealed_seq' = segs[s].sealed_end
<1> DEFINE ready == ReadySegments(segs, dur)
<1>1. /\ segments' = [s \in Starts |-> IF s \in ready THEN [segs[s] EXCEPT !.state = "closed"] ELSE segs[s]]
      /\ sealed_seq' \in {sealed_seq} \cup {segs[s].sealed_end : s \in ready}
  BY DEF CloseReadySegments
<1>2. \A s \in Starts : s \in ready <=>
          /\ segs[s].state = "open" /\ segs[s].sealed_end # 0 /\ segs[s].sealed_end <= dur
          /\ segs[s].flushed_epoch >= segs[s].write_epoch
  BY DEF ReadySegments
<1>3. ready \subseteq Starts
  BY DEF ReadySegments
<1> HIDE DEF ready
<1>4. \A s \in Starts : [segs[s] EXCEPT !.state = "closed"].state = "closed"
  BY DEF Segment
<1>5. ASSUME NEW s \in Starts, segments'[s].state = "open" PROVE s \notin ready /\ segments'[s] = segs[s]
  <2>1. CASE s \in ready
    <3>1. segments'[s] = [segs[s] EXCEPT !.state = "closed"]
      BY <1>1, <2>1
    <3>2. QED
      BY <1>4, <1>5, <3>1
  <2>2. CASE s \notin ready
    BY <1>1, <2>2
  <2>3. QED
    BY <2>1, <2>2
<1>6. QED
  BY <1>1, <1>2, <1>3, <1>5

\* The durable frontier moves to dur, past which every dirty segment ends: the
\* segments that are closed end at or before it, those left open after it.
LEMMA AdvanceChain ==
    ASSUME IInv, CInv, NEW segs \in [Starts -> Segment], NEW dur \in 0..MaxSeq,
           CloseReadySegments(segs, dur), dur >= durable_seq, durable_seq' = dur,
           \A s \in Starts : /\ segs[s].state = segments[s].state
                             /\ segs[s].last_seq = segments[s].last_seq
                             /\ segs[s].sealed_end = segments[s].sealed_end,
           \A s \in Starts : segs[s].state = "open" /\ segs[s].last_seq # 0 /\ segs[s].last_seq <= dur
                                 => segs[s].flushed_epoch >= segs[s].write_epoch,
           ~flush'.active, UNCHANGED <<queue, clientVars, owners, batch, written_seq, error>>,
           registered' = StillRegistered(owners, closing, error, dur, written_seq), registered
    PROVE  CInv'
<1>0. /\ TypeOK /\ ChainInv /\ CauseInv /\ EndInv /\ CleanInv /\ RetireInv
      /\ dur \in Nat /\ sealed_seq \in 0..MaxSeq
  BY BoundsAssumption DEF IInv, CInv, TypeOK
<1>1. /\ \A s \in Starts : segments'[s].state = "open" =>
             /\ segments[s].state = "open" /\ segments'[s] = segs[s]
             /\ segs[s].sealed_end # 0 /\ segs[s].sealed_end <= dur
                   => ~(segs[s].flushed_epoch >= segs[s].write_epoch)
      /\ \/ sealed_seq' = sealed_seq
         \/ \E s \in Starts : /\ segments[s].sealed_end # 0 /\ segments[s].sealed_end <= dur
                               /\ sealed_seq' = segments[s].sealed_end
  BY CloseReadyEnds
<1>2. \A s \in Starts :
          /\ segments'[s].last_seq = segments[s].last_seq
          /\ segments'[s].sealed_end = segments[s].sealed_end
          /\ \/ segments'[s].state = segments[s].state
             \/ segments'[s].state = "closed" /\ segments[s].sealed_end # 0
  BY <1>0, CloseReadyFacts
<1>3. \A s \in Starts : Sealed(s)' => Sealed(s)
  BY <1>2 DEF Sealed
<1>4. \A s \in Starts : segments'[s].state # "open" => segments[s].state # "open" \/ Sealed(s)
  BY <1>2 DEF Sealed
<1>5. ASSUME NEW v \in View, Received(v) PROVE Received(v)'
  <2>0. v.start \in Starts /\ v.start \in Nat
    BY ViewFacts
  <2>1. ~Sealed(v.start)
    BY <1>5, <2>0 DEF Received
  <2>2. ASSUME ActiveInv(v) PROVE ActiveInv(v)'
    <3>1. CASE segments'[v.start].state = "open"
      BY <1>1, <1>2, <2>0, <2>2, <3>1 DEF ActiveInv
    <3>2. CASE segments'[v.start].state # "open"
      <4>1. segments[v.start].state # "open"
        BY <1>4, <2>0, <2>1, <3>2
      <4>2. v.start <= v.last => dur >= written_seq
        BY <1>0, <2>0, <2>2, <4>1, SegmentFacts DEF ActiveInv
      <4>3. QED
        BY <3>2, <4>2 DEF ActiveInv
    <3>3. QED
      BY <3>1, <3>2
  <2>3. error = "none" => \A s \in Starts :
            segments'[s].state = "open" /\ segments'[s].last_seq # 0 /\ segments'[s].sealed_end = 0
                => s = v.start
    BY <1>1, <1>2, <1>5 DEF Received
  <2>4. QED
    BY <1>3, <1>5, <2>2, <2>3 DEF Received
<1>6. ChainInv'
  BY <1>0, <1>5, StillChain
<1>7. CauseInv'
  <2>1. batch.phase = "written" => segments'[batch.start].state = "open"
    <3>1. SUFFICES ASSUME batch.phase = "written" PROVE segments'[batch.start].state = "open"
      OBVIOUS
    <3>2. PICK b \in Starts : b = batch.start
      BY <3>1 DEF IInv, BatchInv
    <3>3. ~Sealed(b)
      <4>1. Sealed(b) => b < b
        BY <3>1, <3>2 DEF IInv, OrderInv
      <4>2. QED
        BY <4>1, ViewFacts
    <3>4. QED
      BY <1>0, <1>4, <3>1, <3>2, <3>3 DEF CauseInv
  <2>2. QED
    BY <1>0, <2>1 DEF CauseInv, NoConsistencyError
<1>8. ASSUME NEW s \in Starts, segments'[s].state = "open", segments'[s].last_seq # 0,
             segments'[s].last_seq <= dur
      PROVE  ~Dirty(s)' /\ segments'[s].sealed_end = 0
  <2>1. segments'[s] = segs[s] /\ segs[s].state = "open"
    BY <1>1, <1>8
  <2>2. segs[s].flushed_epoch >= segs[s].write_epoch
    BY <1>8, <2>1
  <2>3. segs[s].sealed_end # 0 => segs[s].sealed_end = segs[s].last_seq
    BY <1>0 DEF EndInv
  <2>4. segs[s] \in Segment
    OBVIOUS
  <2>5. QED
    BY <1>1, <1>8, <2>1, <2>2, <2>3, <2>4 DEF Dirty, Segment
<1>9. EndInv'
  <2>1. ASSUME NEW s \in Starts
        PROVE  /\ segments'[s].sealed_end # 0 => segments'[s].last_seq = segments'[s].sealed_end
               /\ segments'[s].state = "open" /\ segments'[s].sealed_end # 0
                     => segments'[s].sealed_end > dur
               /\ segments'[s].state = "open" /\ segments'[s].last_seq # 0
                     => segments'[s].last_seq > sealed_seq'
               /\ segments'[s].state = "open" /\ segments'[s].last_seq # 0
                       /\ segments'[s].sealed_end = 0
                     => \A t \in Starts : segments'[s].last_seq > segments'[t].sealed_end
    <3>0. /\ segments[s].last_seq \in Nat /\ segments[s].sealed_end \in Nat /\ sealed_seq \in Nat
          /\ \A t \in Starts : segments[t].sealed_end \in Nat
      BY SegmentFacts
    <3>1. segments'[s].sealed_end # 0 => segments'[s].last_seq = segments'[s].sealed_end
      BY <1>0, <1>2 DEF EndInv
    <3>2. segments'[s].state = "open" /\ segments'[s].sealed_end # 0 => segments'[s].sealed_end > dur
      BY <1>0, <1>2, <1>8, <3>0, <3>1
    <3>3. segments'[s].state = "open" /\ segments'[s].last_seq # 0 /\ segments'[s].sealed_end = 0
             => \A t \in Starts : segments'[s].last_seq > segments'[t].sealed_end
      BY <1>0, <1>1, <1>2 DEF EndInv
    <3>4. ASSUME segments'[s].state = "open", segments'[s].last_seq # 0
          PROVE  segments'[s].last_seq > sealed_seq'
      <4>1. CASE sealed_seq' = sealed_seq
        BY <1>0, <1>1, <1>2, <3>4, <4>1 DEF EndInv
      <4>2. CASE \E t \in Starts : /\ segments[t].sealed_end # 0 /\ segments[t].sealed_end <= dur
                                   /\ sealed_seq' = segments[t].sealed_end
        <5>1. PICK t \in Starts : segments[t].sealed_end <= dur /\ sealed_seq' = segments[t].sealed_end
          BY <4>2
        <5>2. CASE segments'[s].sealed_end = 0
          BY <1>2, <3>3, <3>4, <5>1, <5>2
        <5>3. CASE segments'[s].sealed_end # 0
          <6>1. segments[s].last_seq > dur
            BY <1>2, <3>1, <3>2, <3>4, <5>3
          <6>2. QED
            BY <1>0, <1>2, <3>0, <5>1, <6>1
        <5>4. QED
          BY <5>2, <5>3
      <4>3. QED
        BY <1>1, <4>1, <4>2
    <3>5. QED
      BY <3>1, <3>2, <3>3, <3>4
  <2>2. QED
    BY <2>1 DEF EndInv
<1>10. CleanInv'
  BY <1>8 DEF CleanInv, Dirty
<1>11. RetireInv'
  BY DEF RetireInv, StillRegistered
<1>12. QED
  BY <1>6, <1>7, <1>9, <1>10, <1>11 DEF CInv

\* The snapshot takes every dirty segment with the epoch it has then.
LEMMA PickChain ==
    ASSUME IInv, CInv, FlushPick
    PROVE  CInv'
<1>0. /\ ChainInv /\ CauseInv /\ EndInv /\ CleanInv /\ RetireInv
      /\ UNCHANGED <<clientVars, queue, batch, streamVars>>
  BY DEF CInv, FlushPick
<1>1. \A v \in View : Received(v) => Received(v)'
  BY <1>0, ReceivedFrame DEF streamVars
<1>2. ChainInv' /\ CauseInv' /\ RetireInv'
  BY <1>0, <1>1, StillChain, CauseFrame, RetireFrame DEF streamVars
<1>3. EndInv'
  BY <1>0 DEF EndInv, streamVars
<1>4. CleanInv'
  <2>1. \A s \in Starts : Dirty(s) /\ segments[s].last_seq <= written_seq
            => flush'.epoch[s] = segments[s].write_epoch
    BY DEF FlushPick
  <2>2. \A s \in Starts : Dirty(s) => flush'.epoch[s] = segments[s].write_epoch
    BY <2>1, SegmentFacts
  <2>3. segments' = segments /\ durable_seq' = durable_seq
    BY <1>0 DEF streamVars
  <2>4. \A s \in Starts : Dirty(s)' = Dirty(s)
    BY <2>3 DEF Dirty
  <2>5. QED
    BY <1>0, <2>2, <2>3, <2>4 DEF CleanInv
<1>5. QED
  BY <1>2, <1>3, <1>4 DEF CInv

LEMMA CleanChain ==
    ASSUME IInv, CInv, FlushClean
    PROVE  CInv'
<1>0. segments \in [Starts -> Segment] /\ durable_seq \in 0..MaxSeq /\ written_seq \in 0..MaxSeq
  BY DEF IInv, TypeOK
<1>1. PICK dur \in 0..MaxSeq : dur = MaxOf(durable_seq, written_seq)
  BY <1>0 DEF MaxOf
<1>2. dur >= durable_seq
  BY <1>0, <1>1, BoundsAssumption DEF MaxOf
<1>3. \A s \in Starts : segments[s].state = "open" /\ segments[s].last_seq # 0
          => segments[s].flushed_epoch >= segments[s].write_epoch
  BY SegmentFacts DEF FlushClean, Dirty
<1>4. /\ CloseReadySegments(segments, dur) /\ durable_seq' = dur /\ ~flush'.active
      /\ UNCHANGED <<queue, clientVars, owners, batch, written_seq, error>>
      /\ registered' = StillRegistered(owners, closing, error, dur, written_seq) /\ registered
  BY <1>1 DEF FlushClean, FlushWanted
<1>5. QED
  BY <1>0, <1>2, <1>3, <1>4, AdvanceChain

\* The fsyncs change nothing but the flusher's own progress.
LEMMA SyncChain ==
    ASSUME IInv, CInv, FlushSyncFails \/ \E s \in Starts : FlushSync(s)
    PROVE  CInv'
<1>0. /\ ChainInv /\ CauseInv /\ EndInv /\ CleanInv /\ RetireInv /\ flush \in FlushWork
      /\ UNCHANGED <<clientVars, queue, batch, streamVars>>
  BY DEF IInv, TypeOK, CInv, FlushSyncFails, FlushSync
<1>1. /\ flush.active /\ flush'.epoch = flush.epoch /\ flush'.target = flush.target
  BY <1>0 DEF FlushSyncFails, FlushSync, FlushWork
<1>2. \A v \in View : Received(v) => Received(v)'
  BY <1>0, ReceivedFrame DEF streamVars
<1>3. ChainInv' /\ CauseInv' /\ RetireInv'
  BY <1>0, <1>2, StillChain, CauseFrame, RetireFrame DEF streamVars
<1>4. EndInv' /\ CleanInv'
  BY <1>0, <1>1, SegmentFrame DEF streamVars
<1>5. QED
  BY <1>3, <1>4 DEF CInv

\* The target is durable, and all that ends within it is clean.
LEMMA DoneChain ==
    ASSUME IInv, CInv, FlushDone
    PROVE  CInv'
<1>0. /\ TypeOK /\ ChainInv /\ CauseInv /\ EndInv /\ CleanInv /\ RetireInv
      /\ segments \in [Starts -> Segment] /\ durable_seq \in 0..MaxSeq /\ flush \in FlushWork
      /\ flush.active /\ flush.target \in 0..MaxSeq
      /\ ~flush'.active /\ UNCHANGED <<queue, clientVars, owners, batch, written_seq, error>>
  BY NoFlushFacts DEF IInv, TypeOK, CInv, FlushDone, FlushWork
<1>1. CASE FlushIsCurrent
  <2>1. PICK dur \in 0..MaxSeq : dur = MaxOf(durable_seq, flush.target)
    BY <1>0 DEF MaxOf
  <2>2. dur >= durable_seq /\ dur \in {durable_seq, flush.target}
    BY <1>0, <2>1, BoundsAssumption DEF MaxOf
  <2>3. /\ CloseReadySegments(FlushedSegments, dur) /\ durable_seq' = dur
        /\ registered' = StillRegistered(owners, closing, error, dur, written_seq) /\ registered
    BY <1>1, <2>1 DEF FlushDone, FlushIsCurrent
  <2>4. PICK segs \in [Starts -> Segment] : segs = FlushedSegments
    BY <1>0, FlushedFacts
  <2>5. \A s \in Starts : /\ segs[s].state = segments[s].state
                          /\ segs[s].last_seq = segments[s].last_seq
                          /\ segs[s].sealed_end = segments[s].sealed_end
                          /\ segs[s].write_epoch = segments[s].write_epoch
    BY <1>0, <2>4, FlushedFacts
  <2>6. ASSUME NEW s \in Starts, segs[s].state = "open", segs[s].last_seq # 0, segs[s].last_seq <= dur
        PROVE  segs[s].flushed_epoch >= segs[s].write_epoch
    <3>1. segs[s].flushed_epoch = MaxOf(segments[s].flushed_epoch, flush.epoch[s])
      <4>1. segs[s] = [segments[s] EXCEPT !.flushed_epoch = MaxOf(@, flush.epoch[s])]
        BY <2>4, <2>5, <2>6 DEF FlushedSegments
      <4>2. segments[s] \in Segment
        BY <1>0
      <4>3. QED
        BY <4>1, <4>2 DEF Segment
    <3>2. segments[s].flushed_epoch \in Nat /\ flush.epoch[s] \in Nat /\ segments[s].write_epoch \in Nat
      BY <1>0, SegmentFacts DEF FlushWork
    <3>3. ~Dirty(s) \/ flush.epoch[s] = segments[s].write_epoch
      BY <1>0, <2>2, <2>5, <2>6 DEF CleanInv
    <3>4. segments[s].flushed_epoch >= segments[s].write_epoch \/ flush.epoch[s] = segments[s].write_epoch
      BY <2>5, <2>6, <3>2, <3>3 DEF Dirty
    <3>5. QED
      BY <2>5, <3>1, <3>2, <3>4 DEF MaxOf
  <2>7. QED
    BY <1>0, <2>2, <2>3, <2>4, <2>5, <2>6, AdvanceChain
<1>2. CASE ~FlushIsCurrent
  <2>1. UNCHANGED <<durable_seq, segments, sealed_seq, registered>>
    BY <1>2 DEF FlushDone
  <2>2. \A v \in View : Received(v) => Received(v)'
    BY <1>0, <2>1, ReceivedFrame
  <2>3. ChainInv' /\ CauseInv' /\ RetireInv' /\ EndInv' /\ CleanInv'
    BY <1>0, <2>1, <2>2, StillChain, CauseFrame, RetireFrame, SegmentFrame
  <2>4. QED
    BY <2>3 DEF CInv
<1>3. QED
  BY <1>1, <1>2

LEMMA FailedChain ==
    ASSUME IInv, CInv, FlushFailed
    PROVE  CInv'
<1>0. /\ ChainInv /\ CauseInv /\ EndInv /\ CleanInv /\ RetireInv
      /\ ~flush'.active
      /\ UNCHANGED <<queue, clientVars, owners, batch, written_seq, durable_seq, sealed_seq, segments>>
  BY NoFlushFacts DEF CInv, FlushFailed
<1>1. error' = error \/ (error' # "none" /\ error' \in {error, "flush"})
  BY DEF FlushFailed, FailStream, FirstError
<1>2. ASSUME NEW v \in View, Received(v) PROVE Received(v)'
  BY <1>0, <1>1, <1>2 DEF Received, ActiveInv, Sealed
<1>3. ChainInv' /\ EndInv' /\ CleanInv'
  BY <1>0, <1>2, StillChain, SegmentFrame
<1>4. CauseInv'
  BY <1>0, <1>1 DEF CauseInv, NoConsistencyError
<1>5. RetireInv'
  <2>1. CASE FlushIsCurrent
    <3>1. error' # "none" /\ registered' = StillRegistered(owners, closing, error', durable_seq, written_seq)
      BY <2>1 DEF FlushFailed, FailStream, FirstError
    <3>2. QED
      BY <1>0, <2>1, <3>1 DEF StillRegistered, RetireInv, FlushIsCurrent
  <2>2. CASE ~FlushIsCurrent
    BY <1>0, <2>2, RetireFrame DEF FlushFailed
  <2>3. QED
    BY <2>1, <2>2
<1>6. QED
  BY <1>3, <1>4, <1>5 DEF CInv

-----------------------------------------------------------------------------
(***************************************************************************)
(* The theorems.                                                           *)
(***************************************************************************)

LEMMA InitCInv ==
    ASSUME Init, IInv
    PROVE  CInv
<1>0. /\ queue = <<>> /\ Len(queue) = 0 /\ batch = NoBatch /\ NoBatch.phase = "idle"
      /\ segments = [s \in Starts |-> NoSegment] /\ error = "none" /\ registered = TRUE
      /\ owners = 1 /\ handles = 1 /\ flush = NoFlush /\ ~NoFlush.active
  BY NoBatchFacts, NoFlushFacts DEF Init
<1>1. \A s \in Starts : segments[s].state = "none" /\ segments[s].last_seq = 0 /\ segments[s].sealed_end = 0
  BY <1>0 DEF NoSegment
<1>2. Current \in View
  BY CurrentType DEF IInv
<1>3. PICK seed \in Nat : next_sequence = seed + 1 /\ written_seq = seed /\ durable_seq = seed
  BY BoundsAssumption DEF Init
<1>4. Current.last = written_seq /\ durable_seq >= written_seq /\ Current.handles = owners /\ owners # 0
  BY <1>0, <1>3 DEF Current
<1>5. Received(Current)
  BY <1>0, <1>1, <1>2, <1>4, ViewFacts DEF Received, ActiveInv, Sealed
<1>6. ChainInv
  <2> DEFINE view == [i \in 0..0 |-> Current]
  <2>1. view \in [0..Len(queue) -> View] /\ view[0] = Current /\ view[Len(queue)] = Current
    BY <1>0, <1>2
  <2> HIDE DEF view
  <2>2. \A i, j \in 0..Len(queue) : view[j] = view[i]
    BY <1>0
  <2>3. Past(view)
    <3>1. ~\E i \in 1..Len(queue) : TRUE
      BY <1>0
    <3>2. QED
      BY <2>1, <2>2, <3>1 DEF Past
  <2>4. QED
    BY <1>5, <2>1, <2>3 DEF ChainInv
<1>7. CauseInv /\ EndInv /\ RetireInv
  BY <1>0, <1>1 DEF CauseInv, NoConsistencyError, EndInv, RetireInv
<1>8. CleanInv
  BY <1>0, <1>1 DEF CleanInv, Dirty
<1>9. QED
  BY <1>6, <1>7, <1>8 DEF CInv

LEMMA NextCInv ==
    ASSUME IInv, CInv, [Next]_vars
    PROVE  CInv'
<1>1. CASE Client \/ Return \/ UNCHANGED vars
  BY <1>1, ClientChain, NextIInv
<1>2. CASE Writer
  BY <1>2, CollectChain, SkipChain, WriteChain, PublishChain, SealChain, ControlChain DEF Writer
<1>3. CASE Flusher
  BY <1>3, PickChain, CleanChain, SyncChain, DoneChain, FailedChain DEF Flusher, NextFlushWork
<1>4. QED
  BY <1>1, <1>2, <1>3 DEF Next

\* The writer's commands always continue what it has received, in every
\* reachable state and for every bound.
THEOREM ChainInvariance == Spec => [](IInv /\ CInv)
<1>1. Init => IInv /\ CInv
  BY InitIInv, InitCInv
<1>2. IInv /\ CInv /\ [Next]_vars => IInv' /\ CInv'
  BY NextIInv, NextCInv
<1>3. QED
  BY <1>1, <1>2, PTL DEF Spec

\* The runtime's consistency errors ("sequence is not monotonic", the lost
\* segment of write_append_batch and the unknown segment of Seal) never occur.
THEOREM ConsistencyTheorem == Spec => []NoConsistencyError
<1>1. CInv => NoConsistencyError
  BY DEF CInv, CauseInv
<1>2. QED
  BY <1>1, ChainInvariance, PTL

\* Once a seal is granted, the prefix it sealed is durable and the runtime
\* holds no handle on a segment that ends inside it.
THEOREM SealTheorem == Spec => []SealedIsClosed
<1>1. IInv /\ CInv => SealedIsClosed
  BY DEF IInv, FrontierInv, CInv, EndInv, SealedIsClosed
<1>2. QED
  BY <1>1, ChainInvariance, PTL

\* retire_closed_stream is a full drain: nothing is left to write, and without
\* an error every submitted record is on the medium.
THEOREM RetireTheorem == Spec => []RetiredIsComplete
<1>1. ASSUME IInv, CInv, ~registered
      PROVE  /\ batch.phase = "idle"
             /\ \A i \in DOMAIN queue : queue[i].op \notin {"append", "seal"}
             /\ error = "none" => \A n \in 1..(next_sequence - 1) : OnMedium(n)
  <2>1. PICK view \in [0..Len(queue) -> View] : Past(view) /\ Received(view[0])
    BY <1>1 DEF CInv, ChainInv
  <2>2. queue \in Seq(Command) /\ Len(queue) \in Nat
    BY <1>1 DEF IInv, TypeOK
  <2>3. owners = 0 /\ (error = "none" => durable_seq >= written_seq)
    BY <1>1 DEF CInv, RetireInv
  <2>4. view[0].handles = 0 /\ batch.phase = "idle"
    BY <2>1, <2>3 DEF Received
  <2>5. \A j \in 0..Len(queue) : view[j].handles = 0 /\ view[j].last = view[0].last
    BY <2>1, <2>2, <2>4 DEF Past
  <2>6. ASSUME NEW i \in DOMAIN queue PROVE queue[i].op \notin {"append", "seal"}
    <3>1. i \in 1..Len(queue) /\ i - 1 \in 0..Len(queue)
      BY <2>2
    <3>2. Sends(view[i - 1], queue[i], view[i]) /\ view[i - 1].handles = 0
      BY <2>1, <2>5, <3>1 DEF Past
    <3>3. QED
      BY <3>2 DEF Sends
  <2>7. ASSUME error = "none", NEW n \in 1..(next_sequence - 1) PROVE OnMedium(n)
    <3>1. next_sequence - 1 = view[0].last
      <4>1. view[Len(queue)] = Current
        BY <2>1 DEF Past
      <4>2. view[Len(queue)].last = view[0].last
        BY <2>2, <2>5
      <4>3. QED
        BY <4>1, <4>2 DEF Current
    <3>2. view[0].last = written_seq
      BY <2>1, <2>4, <2>7 DEF Received
    <3>3. n \in 1..durable_seq
      BY <1>1, <2>3, <2>7, <3>1, <3>2, BoundsAssumption DEF IInv, TypeOK
    <3>4. QED
      BY <1>1, <3>3 DEF IInv, DurableIsSynced
  <2>8. QED
    BY <2>4, <2>6, <2>7
<1>2. IInv /\ CInv => RetiredIsComplete
  BY <1>1 DEF RetiredIsComplete
<1>3. QED
  BY <1>2, ChainInvariance, PTL

=============================================================================
