------------------------- MODULE WatchJournalProofs -------------------------
(***************************************************************************)
(* For every number of records, batches, owners and waiting clients: the   *)
(* durable frontier of the journal is really on the medium.                *)
(***************************************************************************)
EXTENDS WatchJournal, TLAPS

(***************************************************************************)
(* The inductive invariant, by what each part is about.                    *)
(***************************************************************************)

\* The writer's batch: a nonempty run of appends that continues the written
\* frontier once it has passed the monotonicity test, and is then in its file.
BatchInv ==
    /\ batch.phase # "idle" => batch.start \in Starts
    /\ batch.phase # "idle" /\ batch.contiguous => batch.first <= batch.last
    /\ batch.phase = "written" =>
          /\ batch.contiguous
          /\ batch.first = written_seq + 1
          /\ batch.first..batch.last \subseteq file[batch.start]

\* A segment whose seal the writer has processed.
Sealed(s) == segments[s].state = "closed" \/ segments[s].sealed_end # 0

\* No append is left, or can still be submitted, for a segment once its seal
\* has been processed: the coordinator has moved on, and the channel is FIFO.
OrderInv ==
    /\ \A i \in 1..Len(queue) :
          /\ queue[i].op \in {"append", "seal"} => queue[i].start \in Starts
          /\ queue[i].op = "append" => queue[i].start <= segment_start
          /\ queue[i].op = "seal" => queue[i].start < segment_start
    /\ \A i, j \in 1..Len(queue) :
          i < j /\ queue[i].op = "seal" /\ queue[j].op = "append"
              => queue[i].start < queue[j].start
    /\ \A s \in Starts : Sealed(s) =>
          /\ s < segment_start
          /\ batch.phase # "idle" => s < batch.start
          /\ \A i \in 1..Len(queue) : queue[i].op = "append" => s < queue[i].start

SegmentInv ==
    \A s \in Starts :
        /\ segments[s].last_seq <= written_seq
        /\ segments[s].flushed_epoch <= segments[s].write_epoch
        /\ disk[s] \subseteq file[s]

\* A written record is on the medium, or in a segment the next flush takes.
CoverInv ==
    \A n \in 1..written_seq : \E s \in Starts :
        n \in disk[s] \/ (n \in file[s] /\ n <= segments[s].last_seq /\ Dirty(s))

\* The flusher's work covers its target: what is not on the medium yet is in
\* a segment still to be synced, and a synced segment to which nothing was
\* published since the snapshot has all its published records on the medium.
FlushInv ==
    flush.active =>
        /\ flush.target <= written_seq
        /\ \A s \in Starts : flush.epoch[s] # 0 =>
              /\ segments[s].state # "none"
              /\ flush.epoch[s] <= segments[s].write_epoch
              /\ s \notin flush.todo /\ flush.epoch[s] = segments[s].write_epoch =>
                    \A n \in file[s] : n <= segments[s].last_seq => n \in disk[s]
        /\ \A n \in 1..flush.target : \E s \in Starts :
              n \in disk[s] \/ (n \in file[s] /\ s \in flush.todo)

FrontierInv ==
    /\ durable_seq <= written_seq
    /\ sealed_seq <= durable_seq

IInv ==
    /\ TypeOK
    /\ BatchInv
    /\ OrderInv
    /\ SegmentInv
    /\ CoverInv
    /\ FlushInv
    /\ FrontierInv
    /\ DurableIsSynced

-----------------------------------------------------------------------------
(***************************************************************************)
(* Facts about the channel.                                                *)
(***************************************************************************)

\* The writer's channel after a send.
LEMMA SendFacts ==
  ASSUME NEW S, NEW q \in Seq(S), NEW e \in S
  PROVE  /\ Append(q, e) \in Seq(S)
         /\ Len(q) \in Nat
         /\ Len(Append(q, e)) = Len(q) + 1
         /\ \A i \in 1..Len(q) : Append(q, e)[i] = q[i]
         /\ Append(q, e)[Len(q) + 1] = e
  OBVIOUS

\* The writer's channel after a receive.
LEMMA ReceiveFacts ==
  ASSUME NEW S, NEW q \in Seq(S), q # <<>>
  PROVE  /\ Head(q) \in S
         /\ Head(q) = q[1]
         /\ Len(q) \in Nat \ {0}
         /\ Tail(q) \in Seq(S)
         /\ Len(Tail(q)) = Len(q) - 1
         /\ \A i \in 1..Len(Tail(q)) : Tail(q)[i] = q[i + 1]
  OBVIOUS

(***************************************************************************)
(* What keeps OrderInv: a send, a receive, and a step that touches neither *)
(* the channel nor the coordinator.                                        *)
(***************************************************************************)

\* A client's send keeps the order: an append goes to the coordinator's active
\* segment, and a seal makes the coordinator move past the segment it names.
LEMMA SendKeepsOrder ==
  ASSUME TypeOK, OrderInv, NEW c \in Command, queue' = Append(queue, c),
         segment_start' \in Starts, segment_start' >= segment_start,
         c.op \in {"append", "seal"} => c.start = segment_start,
         c.op = "seal" => segment_start' > segment_start,
         UNCHANGED <<segments, batch>>
  PROVE  OrderInv'
<1>1. queue \in Seq(Command) /\ segment_start \in Starts
  BY DEF TypeOK
<1>2. Starts \subseteq Nat
  BY BoundsAssumption DEF Starts
<1>3. Len(queue) \in Nat /\ Len(queue') = Len(queue) + 1
      /\ queue'[Len(queue) + 1] = c
      /\ \A i \in 1..Len(queue) : queue'[i] = queue[i]
  BY <1>1, SendFacts
<1>4. \A i \in 1..Len(queue') :
          (i \in 1..Len(queue) /\ queue'[i] = queue[i]) \/ (i = Len(queue) + 1 /\ queue'[i] = c)
  BY <1>3
<1>5. \A i \in 1..Len(queue') :
          /\ queue'[i].op \in {"append", "seal"} => queue'[i].start \in Starts
          /\ queue'[i].op = "append" => queue'[i].start <= segment_start'
          /\ queue'[i].op = "seal" => queue'[i].start < segment_start'
  <2>1. ASSUME NEW i \in 1..Len(queue)
        PROVE  /\ queue[i].op \in {"append", "seal"} => queue[i].start \in Nat
               /\ queue[i].op = "append" => queue[i].start <= segment_start
               /\ queue[i].op = "seal" => queue[i].start < segment_start
    BY <1>2 DEF OrderInv
  <2>2. segment_start \in Nat /\ segment_start' \in Nat /\ segment_start' >= segment_start
    BY <1>1, <1>2
  <2>3. QED
    BY <1>1, <1>4, <2>1, <2>2 DEF OrderInv
<1>6. \A i, j \in 1..Len(queue') :
          i < j /\ queue'[i].op = "seal" /\ queue'[j].op = "append"
              => queue'[i].start < queue'[j].start
  BY <1>1, <1>2, <1>3, <1>4 DEF OrderInv
<1>7. \A s \in Starts : Sealed(s)' =>
          /\ s < segment_start'
          /\ batch'.phase # "idle" => s < batch'.start
          /\ \A i \in 1..Len(queue') : queue'[i].op = "append" => s < queue'[i].start
  BY <1>1, <1>2, <1>4 DEF OrderInv, Sealed
<1>8. QED
  BY <1>5, <1>6, <1>7 DEF OrderInv

\* The writer's receive keeps the order: it starts or extends a batch with an
\* append, or processes the seal it received, when no batch is open.
LEMMA ReceiveKeepsOrder ==
  ASSUME TypeOK, OrderInv, queue # <<>>, queue' = Tail(queue),
         UNCHANGED segment_start,
         batch'.phase # "idle" =>
             \/ batch.phase # "idle" /\ batch'.start = batch.start
             \/ Head(queue).op = "append" /\ batch'.start = Head(queue).start,
         \A s \in Starts : Sealed(s)' =>
             \/ Sealed(s)
             \/ Head(queue).op = "seal" /\ s = Head(queue).start /\ batch'.phase = "idle"
  PROVE  OrderInv'
<1>1. queue \in Seq(Command) /\ segment_start \in Starts
  BY DEF TypeOK
<1>2. Starts \subseteq Nat
  BY BoundsAssumption DEF Starts
<1>3. Len(queue) \in Nat \ {0} /\ Len(queue') = Len(queue) - 1 /\ Head(queue) = queue[1]
      /\ \A i \in 1..Len(queue') : queue'[i] = queue[i + 1]
  BY <1>1, ReceiveFacts
<1>4. \A i \in 1..Len(queue') : i + 1 \in 2..Len(queue) /\ queue'[i] = queue[i + 1]
  BY <1>3
<1>5. \A i \in 1..Len(queue') :
          /\ queue'[i].op \in {"append", "seal"} => queue'[i].start \in Starts
          /\ queue'[i].op = "append" => queue'[i].start <= segment_start'
          /\ queue'[i].op = "seal" => queue'[i].start < segment_start'
  BY <1>3, <1>4 DEF OrderInv
<1>6. \A i, j \in 1..Len(queue') :
          i < j /\ queue'[i].op = "seal" /\ queue'[j].op = "append"
              => queue'[i].start < queue'[j].start
  BY <1>3, <1>4 DEF OrderInv
<1>7. ASSUME NEW s \in Starts, Sealed(s)'
      PROVE  /\ s < segment_start'
             /\ batch'.phase # "idle" => s < batch'.start
             /\ \A i \in 1..Len(queue') : queue'[i].op = "append" => s < queue'[i].start
  <2>1. CASE Sealed(s)
    BY <1>1, <1>2, <1>3, <1>4, <2>1 DEF OrderInv
  <2>2. CASE Head(queue).op = "seal" /\ s = Head(queue).start /\ batch'.phase = "idle"
    BY <1>1, <1>2, <1>3, <1>4, <2>2 DEF OrderInv
  <2>3. QED
    BY <1>7, <2>1, <2>2
<1>8. QED
  BY <1>5, <1>6, <1>7 DEF OrderInv

\* Every other step keeps the order, as long as it seals nothing new.
LEMMA OthersKeepOrder ==
  ASSUME OrderInv, UNCHANGED <<queue, segment_start>>,
         batch'.phase # "idle" => batch.phase # "idle" /\ batch'.start = batch.start,
         \A s \in Starts : Sealed(s)' => Sealed(s)
  PROVE  OrderInv'
<1> USE DEF OrderInv
<1>1. \A s \in Starts : Sealed(s)' =>
          /\ s < segment_start'
          /\ batch'.phase # "idle" => s < batch'.start
          /\ \A i \in 1..Len(queue') : queue'[i].op = "append" => s < queue'[i].start
  OBVIOUS
<1>2. QED
  BY <1>1

(***************************************************************************)
(* Each part depends only on the variables it names.                       *)
(***************************************************************************)
LEMMA Frames ==
  /\ BatchInv /\ UNCHANGED <<batch, written_seq, file>> => BatchInv'
  /\ OrderInv /\ UNCHANGED <<queue, segment_start, batch, segments>> => OrderInv'
  /\ SegmentInv /\ UNCHANGED <<segments, written_seq, file, disk>> => SegmentInv'
  /\ CoverInv /\ UNCHANGED <<segments, written_seq, file, disk>> => CoverInv'
  /\ FlushInv /\ UNCHANGED <<flush, segments, written_seq, file, disk>> => FlushInv'
  /\ FrontierInv /\ UNCHANGED <<written_seq, durable_seq, sealed_seq>> => FrontierInv'
  /\ DurableIsSynced /\ UNCHANGED <<durable_seq, disk>> => DurableIsSynced'
<1>1. BatchInv /\ UNCHANGED <<batch, written_seq, file>> => BatchInv'
  BY DEF BatchInv
<1>2. OrderInv /\ UNCHANGED <<queue, segment_start, batch, segments>> => OrderInv'
  BY DEF OrderInv, Sealed
<1>3. SegmentInv /\ UNCHANGED <<segments, written_seq, file, disk>> => SegmentInv'
  BY DEF SegmentInv
<1>4. CoverInv /\ UNCHANGED <<segments, written_seq, file, disk>> => CoverInv'
  BY DEF CoverInv, Dirty
<1>5. FlushInv /\ UNCHANGED <<flush, segments, written_seq, file, disk>> => FlushInv'
  BY DEF FlushInv
<1>6. FrontierInv /\ UNCHANGED <<written_seq, durable_seq, sealed_seq>> => FrontierInv'
  BY DEF FrontierInv
<1>7. DurableIsSynced /\ UNCHANGED <<durable_seq, disk>> => DurableIsSynced'
  BY DEF DurableIsSynced, OnMedium
<1>8. QED
  BY <1>1, <1>2, <1>3, <1>4, <1>5, <1>6, <1>7

-----------------------------------------------------------------------------
(***************************************************************************)
(* The clients' steps.                                                     *)
(***************************************************************************)
\* A submitted append keeps the invariant: it goes to the active segment.
LEMMA SubmitAppendStep ==
  ASSUME IInv, NEW durable \in BOOLEAN, SubmitAppend(durable)
  PROVE  IInv'
<1> DEFINE c == [op |-> "append", seq |-> next_sequence, start |-> segment_start,
                 durable |-> durable]
<1>0. TypeOK
  BY DEF IInv
<1>1. c \in Command /\ queue' = Append(queue, c)
  BY <1>0, BoundsAssumption DEF SubmitAppend, TypeOK, Command, Ops, Starts
<1>2. TypeOK'
  <2>1. queue' \in Seq(Command)
    BY <1>0, <1>1, SendFacts DEF TypeOK
  <2>2. next_sequence' \in 1..(MaxSeq + 1)
    BY <1>0, BoundsAssumption DEF SubmitAppend, TypeOK
  <2>3. tickets' \subseteq Ticket
    BY <1>0, BoundsAssumption DEF SubmitAppend, TypeOK, Ticket, Goals
  <2>4. QED
    BY <1>0, <2>1, <2>2, <2>3 DEF SubmitAppend, TypeOK, streamVars, fileVars
<1>3. OrderInv'
  <2>1. segment_start' \in Starts /\ segment_start' >= segment_start
    BY <1>0, BoundsAssumption DEF SubmitAppend, TypeOK, Starts
  <2>2. QED
    BY <1>0, <1>1, <2>1, SendKeepsOrder DEF IInv, SubmitAppend, streamVars
<1>4. QED
  BY <1>2, <1>3, Frames DEF IInv, SubmitAppend, streamVars, fileVars

\* A submitted seal keeps it: the coordinator has moved past the segment.
LEMMA SubmitSealStep ==
  ASSUME IInv, SubmitSeal
  PROVE  IInv'
<1> DEFINE c == [op |-> "seal", seq |-> next_sequence - 1, start |-> segment_start,
                 durable |-> FALSE]
<1>0. TypeOK
  BY DEF IInv
<1>1. c \in Command /\ queue' = Append(queue, c)
  BY <1>0, BoundsAssumption DEF SubmitSeal, TypeOK, Command, Ops, Starts
<1>2. TypeOK'
  <2>1. queue' \in Seq(Command)
    BY <1>0, <1>1, SendFacts DEF TypeOK
  <2>2. segment_start' \in Starts
    BY <1>0, BoundsAssumption DEF SubmitSeal, TypeOK, Starts
  <2>3. tickets' \subseteq Ticket
    BY <1>0, BoundsAssumption DEF SubmitSeal, TypeOK, Ticket, Goals, Starts
  <2>4. QED
    BY <1>0, <2>1, <2>2, <2>3 DEF SubmitSeal, TypeOK, streamVars, fileVars
<1>3. OrderInv'
  <2>1. segment_start' \in Starts /\ segment_start' > segment_start
        /\ segment_start' >= segment_start
    BY <1>0, BoundsAssumption DEF SubmitSeal, TypeOK, Starts
  <2>2. QED
    BY <1>0, <1>1, <2>1, SendKeepsOrder DEF IInv, SubmitSeal, streamVars
<1>4. QED
  BY <1>2, <1>3, Frames DEF IInv, SubmitSeal, streamVars, fileVars

\* A flush request only raises the requested frontier.
LEMMA RequestFlushStep ==
  ASSUME IInv, RequestFlush
  PROVE  IInv'
<1>0. TypeOK
  BY DEF IInv
<1>1. TypeOK'
  <2>1. requested_seq' \in 0..MaxSeq
    BY <1>0, BoundsAssumption DEF RequestFlush, TypeOK, MaxOf
  <2>2. tickets' \subseteq Ticket
    BY <1>0, BoundsAssumption DEF RequestFlush, TypeOK, Ticket, Goals
  <2>3. QED
    BY <1>0, <2>1, <2>2 DEF RequestFlush, TypeOK, clientVars, fileVars
<1>2. QED
  BY <1>1, Frames DEF IInv, RequestFlush, clientVars, fileVars

\* Commands that concern ownership, or the exit flush, are not part of the order.
LEMMA ControlSendKeepsOrder ==
  ASSUME IInv, NEW op \in {"open", "release", "barrier"},
         queue' = Append(queue, Control(op)),
         UNCHANGED <<segment_start, segments, batch>>
  PROVE  queue' \in Seq(Command) /\ OrderInv'
<1>0. TypeOK /\ OrderInv
  BY DEF IInv
<1>1. Control(op) \in Command /\ Control(op).op \notin {"append", "seal"}
  BY BoundsAssumption DEF Control, Command, Ops
<1>2. queue' \in Seq(Command)
  BY <1>0, <1>1, SendFacts DEF TypeOK
<1>3. segment_start' \in Starts /\ segment_start' >= segment_start
  BY <1>0, BoundsAssumption DEF TypeOK, Starts
<1>4. OrderInv'
  BY <1>0, <1>1, <1>3, SendKeepsOrder
<1>5. QED
  BY <1>2, <1>4

\* A further owner's open changes the channel only.
LEMMA SubmitOpenStep ==
  ASSUME IInv, SubmitOpen
  PROVE  IInv'
<1>1. queue' \in Seq(Command) /\ OrderInv'
  BY ControlSendKeepsOrder DEF SubmitOpen, streamVars
<1>2. handles' \in 0..MaxOwners
  BY BoundsAssumption DEF IInv, TypeOK, SubmitOpen
<1>3. TypeOK'
  BY <1>1, <1>2 DEF IInv, TypeOK, SubmitOpen, streamVars, fileVars
<1>4. QED
  BY <1>1, <1>3, Frames DEF IInv, SubmitOpen, streamVars, fileVars

\* A release, or a dropped handle, changes the channel only.
LEMMA SubmitReleaseStep ==
  ASSUME IInv, SubmitRelease
  PROVE  IInv'
<1>1. queue' \in Seq(Command) /\ OrderInv'
  BY ControlSendKeepsOrder DEF SubmitRelease, streamVars
<1>2. handles' \in 0..MaxOwners
  BY BoundsAssumption DEF IInv, TypeOK, SubmitRelease
<1>3. TypeOK'
  BY <1>1, <1>2 DEF IInv, TypeOK, SubmitRelease, streamVars, fileVars
<1>4. QED
  BY <1>1, <1>3, Frames DEF IInv, SubmitRelease, streamVars, fileVars

\* The exit flush's barrier changes the channel only.
LEMMA SubmitBarrierStep ==
  ASSUME IInv, SubmitBarrier
  PROVE  IInv'
<1>1. queue' \in Seq(Command) /\ OrderInv'
  BY ControlSendKeepsOrder DEF SubmitBarrier, clientVars, streamVars
<1>2. TypeOK'
  BY <1>1 DEF IInv, TypeOK, SubmitBarrier, clientVars, streamVars, fileVars
<1>3. QED
  BY <1>1, <1>2, Frames DEF IInv, SubmitBarrier, clientVars, streamVars, fileVars

\* A wait that returns changes nothing of the stream.
LEMMA ReturnStep ==
  ASSUME IInv, NEW t \in tickets, TicketOk(t) \/ TicketErr(t)
  PROVE  IInv'
<1>1. /\ tickets' \subseteq tickets
      /\ UNCHANGED <<clientVars, queue, batch, streamVars, flush, fileVars>>
  BY DEF TicketOk, TicketErr
<1>2. TypeOK'
  BY <1>1 DEF IInv, TypeOK, clientVars, streamVars, fileVars
<1>3. QED
  BY <1>1, <1>2, Frames DEF IInv, clientVars, streamVars, fileVars

-----------------------------------------------------------------------------
(***************************************************************************)
(* The writer's steps.                                                     *)
(***************************************************************************)

\* Taking the first command of the channel leaves a channel.
LEMMA ReceiveType ==
  ASSUME TypeOK, queue # <<>>, queue' = Tail(queue)
  PROVE  queue' \in Seq(Command) /\ Head(queue) \in Command /\ Head(queue) = queue[1]
         /\ 1 \in 1..Len(queue)
  BY ReceiveFacts DEF TypeOK

\* The writer starts a batch, of a segment that is not sealed.
LEMMA WriterCollectStep ==
  ASSUME IInv, WriterCollect
  PROVE  IInv'
<1> DEFINE c == Head(queue)
<1>0. TypeOK /\ OrderInv /\ queue # <<>> /\ queue' = Tail(queue) /\ c.op = "append"
  BY DEF IInv, WriterCollect, NextIs
<1>1. queue' \in Seq(Command) /\ c \in Command /\ c.start \in Starts
  BY <1>0, ReceiveType DEF OrderInv
<1>2. batch' = [phase |-> "collect", start |-> c.start, first |-> c.seq, last |-> c.seq,
                target |-> IF c.durable THEN c.seq ELSE 0, contiguous |-> TRUE,
                cause |-> "none"]
  BY DEF WriterCollect, NoBatch
<1>3. TypeOK'
  <2>1. batch' \in Batch
    BY <1>1, <1>2, BoundsAssumption DEF Command, Batch, Starts, Errors
  <2>2. QED
    BY <1>0, <1>1, <2>1 DEF WriterCollect, TypeOK, clientVars, streamVars, fileVars
<1>4. BatchInv'
  BY <1>1, <1>2, BoundsAssumption DEF BatchInv, Command
<1>5. OrderInv'
  <2>1. \A s \in Starts : Sealed(s)' => Sealed(s)
    BY DEF WriterCollect, streamVars, Sealed
  <2>2. UNCHANGED segment_start /\ batch'.start = c.start
    BY <1>2 DEF WriterCollect, clientVars
  <2>3. QED
    BY <1>0, <2>1, <2>2, ReceiveKeepsOrder
<1>6. QED
  BY <1>3, <1>4, <1>5, Frames DEF IInv, WriterCollect, streamVars, fileVars

\* The writer extends the batch within the same segment.
LEMMA WriterExtendStep ==
  ASSUME IInv, WriterExtend
  PROVE  IInv'
<1> DEFINE c == Head(queue)
<1>0. TypeOK /\ OrderInv /\ BatchInv /\ queue # <<>> /\ queue' = Tail(queue)
      /\ batch.phase = "collect" /\ c.op = "append"
  BY DEF IInv, WriterExtend, CanExtend, NextIs
<1>1. queue' \in Seq(Command) /\ c \in Command
  BY <1>0, ReceiveType
<1>2. batch' = [batch EXCEPT !.last = c.seq,
                             !.target = IF c.durable THEN c.seq ELSE @,
                             !.contiguous = @ /\ c.seq = batch.last + 1]
  BY DEF WriterExtend
<1>3. batch \in Batch /\ c.seq \in 0..MaxSeq /\ c.durable \in BOOLEAN
  BY <1>0, <1>1 DEF TypeOK, Command
<1>4. /\ batch' \in Batch
      /\ batch'.phase = "collect" /\ batch'.start = batch.start /\ batch'.first = batch.first
      /\ batch'.last = c.seq
      /\ batch'.contiguous => batch.contiguous /\ c.seq = batch.last + 1
  <2>1. (batch.contiguous /\ c.seq = batch.last + 1) \in BOOLEAN
    OBVIOUS
  <2>2. QED
    BY <1>0, <1>2, <1>3, <2>1 DEF Batch
<1>5. TypeOK'
  BY <1>0, <1>1, <1>4 DEF WriterExtend, TypeOK, clientVars, streamVars, fileVars
<1>6. BatchInv'
  <2>1. batch'.start \in Starts
    BY <1>0, <1>4 DEF BatchInv
  <2>2. batch'.contiguous => batch'.first <= batch'.last
    BY <1>0, <1>3, <1>4, BoundsAssumption DEF BatchInv, Batch
  <2>3. QED
    BY <1>4, <2>1, <2>2 DEF BatchInv
<1>7. OrderInv'
  <2>1. \A s \in Starts : Sealed(s)' => Sealed(s)
    BY DEF WriterExtend, streamVars, Sealed
  <2>2. UNCHANGED segment_start
    BY DEF WriterExtend, clientVars
  <2>3. QED
    BY <1>0, <1>4, <2>1, <2>2, ReceiveKeepsOrder
<1>8. QED
  BY <1>5, <1>6, <1>7, Frames DEF IInv, WriterExtend, streamVars, fileVars

\* The writer's batch is empty again.
LEMMA NoBatchFacts ==
  NoBatch \in Batch /\ NoBatch.phase = "idle"
  BY BoundsAssumption DEF NoBatch, Batch, Errors

\* An empty batch promises nothing.
LEMMA IdleBatch ==
  ASSUME batch' = NoBatch
  PROVE  BatchInv'
  BY NoBatchFacts DEF BatchInv

\* A failed stream's batch is dropped.
LEMMA WriterSkipStep ==
  ASSUME IInv, WriterSkip
  PROVE  IInv'
<1>1. batch' = NoBatch /\ BatchInv' /\ NoBatch \in Batch /\ NoBatch.phase = "idle"
  BY IdleBatch, NoBatchFacts DEF WriterSkip
<1>2. TypeOK'
  BY <1>1 DEF IInv, TypeOK, WriterSkip, clientVars, streamVars, fileVars
<1>3. OrderInv'
  BY <1>1, OthersKeepOrder DEF IInv, WriterSkip, clientVars, streamVars, Sealed
<1>4. QED
  BY <1>1, <1>2, <1>3, Frames DEF IInv, WriterSkip, streamVars, fileVars

\* Opening the batch's segment and adding records beyond the written frontier
\* to its file disturbs nothing: a segment without a handle is none of the
\* flusher's, and the new records are not yet published.
LEMMA WriteKeepsCover ==
  ASSUME IInv, batch.phase # "idle", NEW added \in SUBSET Seqs,
         \A n \in added : n > written_seq,
         segments' = [segments EXCEPT ![batch.start] = OpenedSegment(batch.start)],
         file' = [file EXCEPT ![batch.start] = @ \cup added],
         UNCHANGED <<disk, flush, written_seq>>
  PROVE  /\ segments' \in [Starts -> Segment]
         /\ file' \in [Starts -> SUBSET Seqs]
         /\ SegmentInv' /\ CoverInv' /\ FlushInv'
         /\ \A s \in Starts : Sealed(s)' => Sealed(s)
<1> DEFINE b == batch.start
<1>0. /\ b \in Starts
      /\ segments \in [Starts -> Segment]
      /\ file \in [Starts -> SUBSET Seqs] /\ disk \in [Starts -> SUBSET Seqs]
      /\ written_seq \in 0..MaxSeq
  BY DEF IInv, TypeOK, BatchInv
<1>1. segments[b].state # "closed"
  <2>1. ~Sealed(b)
    BY <1>0, BoundsAssumption DEF IInv, OrderInv, Starts
  <2>2. QED
    BY <2>1 DEF Sealed
<1>2. segments[b].state \in {"none", "open"}
  BY <1>0, <1>1 DEF Segment
<1>3. [NoSegment EXCEPT !.state = "open"] \in Segment
  BY BoundsAssumption DEF NoSegment, Segment
<1>4. segments' \in [Starts -> Segment] /\ file' \in [Starts -> SUBSET Seqs]
  BY <1>0, <1>3 DEF OpenedSegment
<1>5. \A s \in Starts :
          \/ segments'[s] = segments[s]
          \/ /\ s = b /\ segments[s].state = "none"
             /\ segments'[s].state = "open" /\ segments'[s].last_seq = 0
             /\ segments'[s].write_epoch = 0 /\ segments'[s].flushed_epoch = 0
             /\ segments'[s].sealed_end = 0
  BY <1>0, <1>2 DEF OpenedSegment, NoSegment
<1>6. \A s \in Starts : /\ file[s] \subseteq file'[s]
                        /\ \A n \in file'[s] : n \in file[s] \/ n > written_seq
  BY <1>0
<1>7. SegmentInv'
  <2>1. ASSUME NEW s \in Starts
        PROVE  /\ segments'[s].last_seq <= written_seq
               /\ segments'[s].flushed_epoch <= segments'[s].write_epoch
               /\ disk[s] \subseteq file'[s]
    BY <1>0, <1>5, <1>6 DEF IInv, SegmentInv
  <2>2. QED
    BY <2>1 DEF SegmentInv
<1>8. CoverInv'
  <2>1. SUFFICES ASSUME NEW n \in 1..written_seq
                 PROVE  \E s \in Starts : n \in disk[s]
                            \/ (n \in file'[s] /\ n <= segments'[s].last_seq /\ Dirty(s)')
    BY DEF CoverInv
  <2>2. PICK s \in Starts :
            n \in disk[s] \/ (n \in file[s] /\ n <= segments[s].last_seq /\ Dirty(s))
    BY DEF IInv, CoverInv
  <2>3. Dirty(s) => segments'[s] = segments[s]
    BY <1>5 DEF Dirty
  <2>4. QED
    BY <1>6, <2>2, <2>3 DEF Dirty
<1>9. FlushInv'
  <2>1. SUFFICES ASSUME flush.active PROVE FlushInv'
    BY DEF FlushInv
  <2>2. flush.target <= written_seq
    BY <2>1 DEF IInv, FlushInv
  <2>3. ASSUME NEW s \in Starts, flush.epoch[s] # 0
        PROVE  /\ segments'[s].state # "none"
               /\ flush.epoch[s] <= segments'[s].write_epoch
               /\ s \notin flush.todo /\ flush.epoch[s] = segments'[s].write_epoch =>
                     \A n \in file'[s] : n <= segments'[s].last_seq => n \in disk[s]
    <3>1. segments'[s] = segments[s] /\ segments[s].last_seq <= written_seq
          /\ segments[s].last_seq \in 0..MaxSeq
      BY <1>0, <1>5, <2>1, <2>3 DEF IInv, FlushInv, SegmentInv, Segment
    <3>2. \A n \in file'[s] : n \in Int /\ (n <= segments[s].last_seq => n \in file[s])
      BY <1>0, <1>4, <1>6, <3>1, BoundsAssumption DEF Seqs
    <3>3. QED
      BY <2>1, <2>3, <3>1, <3>2 DEF IInv, FlushInv
  <2>4. ASSUME NEW n \in 1..flush.target
        PROVE  \E s \in Starts : n \in disk[s] \/ (n \in file'[s] /\ s \in flush.todo)
    BY <1>6, <2>1 DEF IInv, FlushInv
  <2>5. QED
    BY <2>1, <2>2, <2>3, <2>4 DEF FlushInv
<1>10. \A s \in Starts : Sealed(s)' => Sealed(s)
  BY <1>5 DEF Sealed
<1>11. QED
  BY <1>4, <1>7, <1>8, <1>9, <1>10

\* The batch is in its file, not yet published.
LEMMA WriterWriteStep ==
  ASSUME IInv, WriterWrite
  PROVE  IInv'
<1>0. batch \in Batch /\ written_seq \in 0..MaxSeq /\ batch.start \in Starts
      /\ file \in [Starts -> SUBSET Seqs]
  BY DEF IInv, TypeOK, BatchInv, WriterWrite
<1>1. /\ batch.phase = "collect" /\ batch.contiguous /\ batch.first = written_seq + 1
      /\ file' = [file EXCEPT ![batch.start] = @ \cup (batch.first..batch.last)]
      /\ batch' = [batch EXCEPT !.phase = "written"]
  BY DEF WriterWrite, Monotonic
<1>2. batch.first..batch.last \in SUBSET Seqs
      /\ \A n \in batch.first..batch.last : n > written_seq
  BY <1>0, <1>1, BoundsAssumption DEF Batch, Seqs
<1>3. /\ segments' \in [Starts -> Segment]
      /\ file' \in [Starts -> SUBSET Seqs]
      /\ SegmentInv' /\ CoverInv' /\ FlushInv'
      /\ \A s \in Starts : Sealed(s)' => Sealed(s)
  BY <1>1, <1>2, WriteKeepsCover DEF WriterWrite
<1>4. batch' \in Batch /\ batch'.start = batch.start /\ batch'.first = batch.first
      /\ batch'.last = batch.last /\ batch'.contiguous = batch.contiguous
  BY <1>0, <1>1 DEF Batch
<1>5. TypeOK'
  BY <1>3, <1>4 DEF IInv, TypeOK, WriterWrite, clientVars
<1>6. BatchInv'
  <2>1. batch'.contiguous => batch'.first <= batch'.last
    BY <1>1, <1>4 DEF IInv, BatchInv
  <2>2. batch.first..batch.last \subseteq file'[batch.start]
    BY <1>0, <1>1
  <2>3. written_seq' = written_seq
    BY DEF WriterWrite
  <2>4. QED
    BY <1>0, <1>1, <1>4, <2>1, <2>2, <2>3 DEF BatchInv
<1>7. OrderInv'
  BY <1>1, <1>3, <1>4, OthersKeepOrder DEF IInv, WriterWrite, clientVars
<1>8. QED
  BY <1>3, <1>5, <1>6, <1>7, Frames DEF IInv, WriterWrite, clientVars

\* A failed write leaves at most unpublished records.
LEMMA WriterWriteFailsStep ==
  ASSUME IInv, WriterWriteFails
  PROVE  IInv'
<1>0. batch \in Batch /\ written_seq \in 0..MaxSeq
  BY DEF IInv, TypeOK
<1>1. /\ batch' \in Batch /\ batch'.phase = "failed"
      /\ batch'.start = batch.start /\ batch'.first = batch.first
      /\ batch'.last = batch.last /\ batch'.contiguous = batch.contiguous
      /\ batch.phase = "collect"
  BY <1>0 DEF WriterWriteFails, Batch, Errors
<1>2. /\ segments' \in [Starts -> Segment]
      /\ file' \in [Starts -> SUBSET Seqs]
      /\ SegmentInv' /\ CoverInv' /\ FlushInv'
      /\ \A s \in Starts : Sealed(s)' => Sealed(s)
  <2>1. CASE /\ Monotonic
             /\ segments' = [segments EXCEPT ![batch.start] = OpenedSegment(batch.start)]
             /\ \E upto \in (batch.first - 1)..(batch.last - 1) :
                   file' = [file EXCEPT ![batch.start] = @ \cup (batch.first..upto)]
    <3>1. PICK upto \in (batch.first - 1)..(batch.last - 1) :
              file' = [file EXCEPT ![batch.start] = @ \cup (batch.first..upto)]
      BY <2>1
    <3>2. batch.first..upto \in SUBSET Seqs /\ \A n \in batch.first..upto : n > written_seq
      BY <1>0, <2>1, BoundsAssumption DEF Batch, Monotonic, Seqs
    <3>3. UNCHANGED <<disk, flush, written_seq>>
      BY DEF WriterWriteFails
    <3>4. QED
      BY <1>1, <2>1, <3>1, <3>2, <3>3, WriteKeepsCover
  <2>2. CASE UNCHANGED <<segments, file>>
    <3>1. UNCHANGED <<segments, file, disk, flush, written_seq>>
      BY <2>2 DEF WriterWriteFails
    <3>2. QED
      BY <3>1, Frames DEF IInv, TypeOK, Sealed
  <2>3. QED
    BY <2>1, <2>2 DEF WriterWriteFails
<1>3. TypeOK'
  BY <1>1, <1>2 DEF IInv, TypeOK, WriterWriteFails, clientVars
<1>4. BatchInv'
  BY <1>1 DEF IInv, BatchInv
<1>5. OrderInv'
  BY <1>1, <1>2, OthersKeepOrder DEF IInv, WriterWriteFails, clientVars
<1>6. QED
  BY <1>2, <1>3, <1>4, <1>5, Frames DEF IInv, WriterWriteFails, clientVars

\* fail_stream changes nothing but the error and the registration.
LEMMA FailStreamType ==
  ASSUME TypeOK, NEW cause \in Errors, FailStream(cause)
  PROVE  error' \in Errors /\ registered' \in BOOLEAN
  BY DEF TypeOK, FailStream, FirstError, StillRegistered

\* Publication makes the batch's segment dirty in the same critical section that
\* advances the written frontier, so the cover grows with it.
LEMMA WriterPublishStep ==
  ASSUME IInv, WriterPublish
  PROVE  IInv'
<1>b. PICK b \in Starts : b = batch.start
  BY DEF IInv, BatchInv, WriterPublish
<1>0. /\ TypeOK /\ batch \in Batch /\ b = batch.start
      /\ segments \in [Starts -> Segment]
      /\ written_seq \in 0..MaxSeq /\ durable_seq \in 0..MaxSeq
      /\ batch.first = written_seq + 1 /\ batch.first <= batch.last
      /\ batch.first..batch.last \subseteq file[b]
      /\ file \in [Starts -> SUBSET Seqs]
  BY <1>b DEF IInv, TypeOK, BatchInv, WriterPublish
<1>1. batch' = NoBatch /\ BatchInv' /\ NoBatch \in Batch /\ NoBatch.phase = "idle"
  BY IdleBatch, NoBatchFacts DEF WriterPublish
<1>2. CASE segments[b].state # "open"
  <2>1. /\ FailStream("segment")
        /\ UNCHANGED <<clientVars, tickets, queue, incarnation, owners, closing,
                       written_seq, durable_seq, requested_seq, sealed_seq, segments,
                       flush, fileVars>>
    BY <1>0, <1>2 DEF WriterPublish
  <2>2. TypeOK'
    BY <1>0, <1>1, <2>1, FailStreamType DEF TypeOK, Errors, clientVars, fileVars
  <2>3. OrderInv'
    BY <1>1, <2>1, OthersKeepOrder DEF IInv, clientVars, Sealed
  <2>4. QED
    BY <1>1, <2>1, <2>2, <2>3, Frames DEF IInv, clientVars, fileVars
<1>3. CASE segments[b].state = "open"
  <2>0. PICK k \in Nat \ {0} : k = batch.last - batch.first + 1
    BY <1>0 DEF Batch
  <2>1. /\ segments' = [segments EXCEPT ![b] = PublishedSegment(b)]
        /\ written_seq' = batch.last
        /\ requested_seq' = MaxOf(requested_seq, batch.target)
        /\ UNCHANGED <<clientVars, tickets, queue, registered, incarnation, owners,
                       closing, durable_seq, sealed_seq, error, flush, fileVars>>
    BY <1>0, <1>3, <2>0 DEF WriterPublish
  <2>2. batch.last \in 0..MaxSeq /\ written_seq < batch.last
    BY <1>0 DEF Batch
  <2>s. segments[b] \in Segment /\ segments[b].write_epoch + k \in Nat
    BY <1>0 DEF Segment
  <2>r. PublishedSegment(b) = [state |-> "open", last_seq |-> batch.last,
                        write_epoch |-> segments[b].write_epoch + k,
                        flushed_epoch |-> segments[b].flushed_epoch,
                        sealed_end |-> segments[b].sealed_end]
    <3>1. PublishedSegment(b) = [segments[b] EXCEPT !.last_seq = batch.last,
                                                    !.write_epoch = segments[b].write_epoch + k]
      BY <2>0, <2>s DEF PublishedSegment
    <3>2. QED
      BY <1>3, <2>s, <3>1 DEF Segment
  <2>3. segments' \in [Starts -> Segment]
    <3>1. PublishedSegment(b) \in Segment
      BY <2>2, <2>s, <2>r DEF Segment
    <3>2. QED
      BY <1>0, <2>1, <3>1
  <2>4. /\ \A s \in Starts : s # b => segments'[s] = segments[s]
        /\ segments'[b].state = "open"
        /\ segments'[b].last_seq = batch.last
        /\ segments'[b].write_epoch = segments[b].write_epoch + k
        /\ segments'[b].flushed_epoch = segments[b].flushed_epoch
        /\ segments'[b].sealed_end = segments[b].sealed_end
    BY <1>0, <2>1, <2>r
  <2>5. \A s \in Starts : segments[s].last_seq \in 0..MaxSeq /\ segments[s].write_epoch \in Nat
                          /\ segments[s].flushed_epoch \in Nat
    BY <1>0 DEF Segment
  <2>6. UNCHANGED <<queue, segment_start, flush, file, disk>>
    BY <2>1 DEF clientVars, fileVars
  <2>7. TypeOK'
    <3>1. requested_seq' \in 0..MaxSeq
      BY <1>0, <2>1 DEF TypeOK, Batch, MaxOf
    <3>2. QED
      BY <1>0, <1>1, <2>1, <2>2, <2>3, <3>1 DEF TypeOK, clientVars, fileVars
  <2>8. OrderInv'
    <3>1. \A s \in Starts : Sealed(s)' => Sealed(s)
      BY <1>0, <2>4 DEF Sealed
    <3>2. QED
      BY <1>1, <2>6, <3>1, OthersKeepOrder DEF IInv
  <2>9. SegmentInv'
    <3>1. ASSUME NEW s \in Starts
          PROVE  /\ segments'[s].last_seq <= batch.last
                 /\ segments'[s].flushed_epoch <= segments'[s].write_epoch
                 /\ disk[s] \subseteq file[s]
      BY <1>0, <2>2, <2>4, <2>5 DEF IInv, SegmentInv
    <3>2. QED
      BY <2>1, <2>6, <3>1 DEF SegmentInv
  <2>10. CoverInv'
    <3>1. SUFFICES ASSUME NEW n \in 1..batch.last
                   PROVE  \E s \in Starts : n \in disk[s]
                              \/ (n \in file[s] /\ n <= segments'[s].last_seq /\ Dirty(s)')
      BY <2>1, <2>6 DEF CoverInv
    <3>2. Dirty(b)'
      <4>1. segments[b].flushed_epoch <= segments[b].write_epoch
        BY DEF IInv, SegmentInv
      <4>2. QED
        BY <1>0, <2>2, <2>4, <2>5, <4>1 DEF Dirty
    <3>3. CASE n \in 1..written_seq
      <4>1. PICK s \in Starts :
                n \in disk[s] \/ (n \in file[s] /\ n <= segments[s].last_seq /\ Dirty(s))
        BY <3>3 DEF IInv, CoverInv
      <4>2. CASE s = b
        BY <1>0, <2>4, <3>2, <4>1, <4>2
      <4>3. CASE s # b
        BY <2>4, <4>1, <4>3 DEF Dirty
      <4>4. QED
        BY <4>2, <4>3
    <3>4. CASE n \in batch.first..batch.last
      BY <1>0, <2>4, <3>2, <3>4
    <3>5. QED
      BY <1>0, <2>2, <3>3, <3>4
  <2>11. FlushInv'
    <3>1. SUFFICES ASSUME flush.active PROVE FlushInv'
      BY <2>6 DEF FlushInv
    <3>2. flush.target <= batch.last /\ flush \in FlushWork
      <4>1. flush \in FlushWork /\ flush.target <= written_seq
        BY <3>1 DEF IInv, TypeOK, FlushInv
      <4>2. flush.target \in Nat
        BY <4>1, BoundsAssumption DEF FlushWork
      <4>3. QED
        BY <1>0, <2>2, <4>1, <4>2
    <3>3. ASSUME NEW s \in Starts, flush.epoch[s] # 0
          PROVE  /\ segments'[s].state # "none"
                 /\ flush.epoch[s] <= segments'[s].write_epoch
                 /\ s \notin flush.todo /\ flush.epoch[s] = segments'[s].write_epoch =>
                       \A n \in file[s] : n <= segments'[s].last_seq => n \in disk[s]
      <4>1. flush.epoch[s] \in Nat /\ flush.epoch[s] <= segments[s].write_epoch
        BY <3>1, <3>2, <3>3 DEF IInv, FlushInv, FlushWork
      <4>2. CASE s = b
        BY <2>2, <2>4, <2>5, <4>1, <4>2
      <4>3. CASE s # b
        BY <2>4, <3>1, <3>3, <4>3 DEF IInv, FlushInv
      <4>4. QED
        BY <4>2, <4>3
    <3>4. \A n \in 1..flush.target : \E s \in Starts :
              n \in disk[s] \/ (n \in file[s] /\ s \in flush.todo)
      BY <3>1 DEF IInv, FlushInv
    <3>5. QED
      BY <2>1, <2>6, <3>2, <3>3, <3>4 DEF FlushInv
  <2>12. FrontierInv'
    BY <1>0, <2>1, <2>2 DEF IInv, FrontierInv
  <2>13. QED
    BY <1>1, <2>1, <2>6, <2>7, <2>8, <2>9, <2>10, <2>11, <2>12, Frames DEF IInv
<1>4. QED
  BY <1>2, <1>3

\* A failed batch fails the stream.
LEMMA WriterFailStep ==
  ASSUME IInv, WriterFail
  PROVE  IInv'
<1>1. batch' = NoBatch /\ BatchInv' /\ NoBatch \in Batch /\ NoBatch.phase = "idle"
  BY IdleBatch, NoBatchFacts DEF WriterFail
<1>2. error' \in Errors /\ registered' \in BOOLEAN
  BY FailStreamType DEF IInv, TypeOK, WriterFail, Batch
<1>3. TypeOK'
  BY <1>1, <1>2 DEF IInv, TypeOK, WriterFail, clientVars, fileVars
<1>4. OrderInv'
  BY <1>1, OthersKeepOrder DEF IInv, WriterFail, clientVars, Sealed
<1>5. QED
  BY <1>1, <1>3, <1>4, Frames DEF IInv, WriterFail, clientVars, fileVars

\* Sealing or closing segments keeps what the cover says: a segment that is
\* closed was clean, so the medium already has what it was needed for.
LEMMA CloseKeepsCover ==
  ASSUME IInv, segments' \in [Starts -> Segment],
         \A s \in Starts :
             /\ segments'[s].last_seq = segments[s].last_seq
             /\ segments'[s].write_epoch = segments[s].write_epoch
             /\ segments'[s].flushed_epoch = segments[s].flushed_epoch
             /\ \/ segments'[s].state = segments[s].state
                \/ /\ segments'[s].state = "closed" /\ segments[s].state = "open"
                   /\ segments[s].flushed_epoch >= segments[s].write_epoch,
         UNCHANGED <<written_seq, file, disk, flush>>
  PROVE  SegmentInv' /\ CoverInv' /\ FlushInv'
<1>0. \A s \in Starts : segments[s].write_epoch \in Nat /\ segments[s].flushed_epoch \in Nat
  BY DEF IInv, TypeOK, Segment
<1>1. SegmentInv'
  BY DEF IInv, SegmentInv
<1>2. CoverInv'
  <2>1. \A s \in Starts : Dirty(s) => Dirty(s)'
    BY <1>0 DEF Dirty
  <2>2. QED
    BY <2>1 DEF IInv, CoverInv
<1>3. FlushInv'
  BY DEF IInv, FlushInv
<1>4. QED
  BY <1>1, <1>2, <1>3

\* The processed seal closes a clean segment or leaves it to the flusher.
LEMMA WriterSealStep ==
  ASSUME IInv, WriterSeal
  PROVE  IInv'
<1>0. /\ TypeOK /\ OrderInv /\ queue # <<>> /\ queue' = Tail(queue)
      /\ Head(queue).op = "seal" /\ batch.phase = "idle" /\ batch' = batch
      /\ SealOutcome(Head(queue)) /\ UNCHANGED segment_start
  BY DEF IInv, WriterSeal, NextIs, clientVars
<1>1. PICK c \in Command : c = Head(queue)
  BY <1>0, ReceiveType
<1>2. queue' \in Seq(Command) /\ c.start \in Starts /\ c.seq \in 0..MaxSeq
  BY <1>0, <1>1, ReceiveType DEF OrderInv, Command
<1>3. segments \in [Starts -> Segment] /\ segments[c.start] \in Segment
      /\ sealed_seq \in 0..MaxSeq /\ durable_seq \in 0..MaxSeq /\ requested_seq \in 0..MaxSeq
  BY <1>0, <1>2 DEF TypeOK
<1> DEFINE seg == [segments[c.start] EXCEPT !.sealed_end = c.seq]
           shut == [seg EXCEPT !.state = "closed"]
<1>4. /\ seg \in Segment /\ seg.state = segments[c.start].state
      /\ seg.last_seq = segments[c.start].last_seq
      /\ seg.write_epoch = segments[c.start].write_epoch
      /\ seg.flushed_epoch = segments[c.start].flushed_epoch
  BY <1>2, <1>3 DEF Segment
<1>5. /\ shut \in Segment /\ shut.state = "closed"
      /\ shut.last_seq = segments[c.start].last_seq
      /\ shut.write_epoch = segments[c.start].write_epoch
      /\ shut.flushed_epoch = segments[c.start].flushed_epoch
  BY <1>4 DEF Segment
<1> HIDE DEF seg, shut
<1>6. /\ \/ UNCHANGED segments
         \/ segments[c.start].state = "open" /\ segments' = [segments EXCEPT ![c.start] = seg]
         \/ /\ segments[c.start].state = "open"
            /\ seg.flushed_epoch >= seg.write_epoch
            /\ segments' = [segments EXCEPT ![c.start] = shut]
      /\ \/ UNCHANGED sealed_seq
         \/ durable_seq >= c.seq /\ sealed_seq' = MaxOf(sealed_seq, c.seq)
      /\ requested_seq' \in {requested_seq, MaxOf(requested_seq, c.seq)}
      /\ (UNCHANGED <<registered, error>>) \/ FailStream("seal")
  <2>0. SealOutcome(c) /\ seg.state = segments[c.start].state
    BY <1>0, <1>1, <1>4
  <2>1. CASE error # "none"
    BY <2>0, <2>1 DEF SealOutcome
  <2>2. CASE error = "none" /\ seg.state = "open"
    <3>1. CASE durable_seq >= c.seq /\ seg.flushed_epoch >= seg.write_epoch
      BY <2>0, <2>2, <3>1 DEF SealOutcome, seg, shut
    <3>2. CASE ~(durable_seq >= c.seq /\ seg.flushed_epoch >= seg.write_epoch)
      BY <2>0, <2>2, <3>2 DEF SealOutcome, seg
    <3>3. QED
      BY <3>1, <3>2
  <2>3. CASE error = "none" /\ seg.state # "open" /\ durable_seq >= c.seq
    BY <2>0, <2>3 DEF SealOutcome, seg
  <2>4. CASE error = "none" /\ seg.state # "open" /\ durable_seq < c.seq
    BY <2>0, <2>4 DEF SealOutcome, seg
  <2>5. QED
    BY <1>2, <1>3, <2>1, <2>2, <2>3, <2>4
<1>7. segments' \in [Starts -> Segment]
  BY <1>2, <1>3, <1>4, <1>5, <1>6
<1>8. TypeOK'
  <2>1. error' \in Errors /\ registered' \in BOOLEAN
    BY <1>0, <1>6, FailStreamType DEF TypeOK, Errors
  <2>2. sealed_seq' \in 0..MaxSeq /\ requested_seq' \in 0..MaxSeq
    BY <1>2, <1>3, <1>6 DEF MaxOf
  <2>3. QED
    BY <1>0, <1>2, <1>7, <2>1, <2>2 DEF TypeOK, WriterSeal, clientVars, fileVars
<1>9. OrderInv'
  <2>1. \A s \in Starts : Sealed(s)' => Sealed(s) \/ s = c.start
    BY <1>2, <1>3, <1>6 DEF Sealed
  <2>2. QED
    BY <1>0, <1>1, <2>1, ReceiveKeepsOrder
<1>10. SegmentInv' /\ CoverInv' /\ FlushInv'
  <2>1. \A s \in Starts :
             /\ segments'[s].last_seq = segments[s].last_seq
             /\ segments'[s].write_epoch = segments[s].write_epoch
             /\ segments'[s].flushed_epoch = segments[s].flushed_epoch
             /\ \/ segments'[s].state = segments[s].state
                \/ /\ segments'[s].state = "closed" /\ segments[s].state = "open"
                   /\ segments[s].flushed_epoch >= segments[s].write_epoch
    BY <1>2, <1>3, <1>4, <1>5, <1>6
  <2>2. QED
    BY <1>7, <2>1, CloseKeepsCover DEF WriterSeal, fileVars
<1>11. FrontierInv'
  BY <1>2, <1>3, <1>6, BoundsAssumption DEF IInv, FrontierInv, WriterSeal, MaxOf
<1>12. QED
  BY <1>8, <1>9, <1>10, <1>11, Frames DEF IInv, WriterSeal, fileVars

\* A command about ownership is received.
LEMMA ControlReceiveKeepsOrder ==
  ASSUME IInv, queue # <<>>, queue' = Tail(queue),
         UNCHANGED <<segment_start, segments, batch>>
  PROVE  queue' \in Seq(Command) /\ OrderInv'
<1>1. TypeOK /\ OrderInv
  BY DEF IInv
<1>2. \A s \in Starts : Sealed(s)' => Sealed(s)
  BY DEF Sealed
<1>3. QED
  BY <1>1, <1>2, ReceiveType, ReceiveKeepsOrder

\* A processed open counts an owner.
LEMMA WriterOpenStep ==
  ASSUME IInv, WriterOpen
  PROVE  IInv'
<1>1. queue' \in Seq(Command) /\ OrderInv'
  BY ControlReceiveKeepsOrder DEF WriterOpen, NextIs, clientVars
<1>2. owners' \in Nat /\ closing' \in BOOLEAN
  <2>1. owners' \in Nat
    BY DEF IInv, TypeOK, WriterOpen
  <2>2. closing' \in BOOLEAN
    BY Zenon DEF WriterOpen
  <2>3. QED
    BY <2>1, <2>2
<1>3. TypeOK'
  BY <1>1, <1>2 DEF IInv, TypeOK, WriterOpen, clientVars, fileVars
<1>4. QED
  BY <1>1, <1>3, Frames DEF IInv, WriterOpen, fileVars

\* A processed release requests what is written.
LEMMA WriterReleaseStep ==
  ASSUME IInv, WriterRelease
  PROVE  IInv'
<1>0. TypeOK
  BY DEF IInv
<1>1. queue' \in Seq(Command) /\ OrderInv'
  BY ControlReceiveKeepsOrder DEF WriterRelease, NextIs, clientVars
<1>2. owners' \in Nat /\ requested_seq' \in 0..MaxSeq
  BY <1>0 DEF TypeOK, WriterRelease, MaxOf
<1>3. closing' \in BOOLEAN /\ registered' \in BOOLEAN
  BY <1>0 DEF TypeOK, WriterRelease, StillRegistered
<1>4. tickets' \subseteq Ticket
  BY <1>0 DEF TypeOK, WriterRelease, Ticket, Goals
<1>5. TypeOK'
  BY <1>0, <1>1, <1>2, <1>3, <1>4 DEF TypeOK, WriterRelease, clientVars, fileVars
<1>6. QED
  BY <1>1, <1>5, Frames DEF IInv, WriterRelease, fileVars

\* A processed barrier requests what is written.
LEMMA WriterBarrierStep ==
  ASSUME IInv, WriterBarrier
  PROVE  IInv'
<1>0. TypeOK
  BY DEF IInv
<1>1. queue' \in Seq(Command) /\ OrderInv'
  BY ControlReceiveKeepsOrder DEF WriterBarrier, NextIs, clientVars
<1>2. requested_seq' \in 0..MaxSeq
  BY <1>0 DEF TypeOK, WriterBarrier, MaxOf
<1>3. tickets' \subseteq Ticket
  BY <1>0 DEF TypeOK, WriterBarrier, Ticket, Goals
<1>4. TypeOK'
  BY <1>0, <1>1, <1>2, <1>3 DEF TypeOK, WriterBarrier, clientVars, fileVars
<1>5. QED
  BY <1>1, <1>4, Frames DEF IInv, WriterBarrier, fileVars

-----------------------------------------------------------------------------
(***************************************************************************)
(* The flusher's steps.                                                    *)
(***************************************************************************)
\* The snapshot of the dirty segments covers the written frontier.
LEMMA FlushPickStep ==
  ASSUME IInv, FlushPick
  PROVE  IInv'
<1> DEFINE taken == {s \in Starts : Dirty(s) /\ segments[s].last_seq <= written_seq}
           epochs == [s \in Starts |-> IF s \in taken THEN segments[s].write_epoch ELSE 0]
<1>0. /\ segments \in [Starts -> Segment] /\ written_seq \in 0..MaxSeq
      /\ incarnation \in Nat
  BY DEF IInv, TypeOK
<1>1. flush' = [active |-> TRUE, incarnation |-> incarnation, target |-> written_seq,
                epoch |-> epochs, todo |-> taken, failed |-> FALSE]
  BY DEF FlushPick
<1>2. epochs \in [Starts -> Nat] /\ taken \subseteq Starts
  BY <1>0 DEF Segment
<1>3. \A s \in Starts : Dirty(s) => s \in taken
  BY DEF IInv, SegmentInv
<1>4. \A s \in Starts : epochs[s] # 0 => /\ s \in taken
                                         /\ epochs[s] = segments[s].write_epoch
                                         /\ segments[s].state # "none"
  BY DEF Dirty
<1> HIDE DEF taken, epochs
<1>5. TypeOK'
  <2>1. flush' \in FlushWork
    BY <1>0, <1>1, <1>2 DEF FlushWork
  <2>2. QED
    BY <2>1 DEF IInv, TypeOK, FlushPick, clientVars, streamVars, fileVars
<1>6. FlushInv'
  <2>1. flush'.target = written_seq /\ flush'.epoch = epochs /\ flush'.todo = taken
    BY <1>1
  <2>2. UNCHANGED <<segments, written_seq, file, disk>>
    BY DEF FlushPick, streamVars, fileVars
  <2>3. \A n \in 1..written_seq : \E s \in Starts :
            n \in disk[s] \/ (n \in file[s] /\ s \in taken)
    BY <1>3 DEF IInv, CoverInv
  <2>4. \A s \in Starts : segments[s].write_epoch <= segments[s].write_epoch
    BY <1>0 DEF Segment
  <2>5. QED
    BY <1>0, <1>4, <2>1, <2>2, <2>3, <2>4 DEF FlushInv
<1>7. QED
  BY <1>5, <1>6, Frames DEF IInv, FlushPick, clientVars, streamVars, fileVars

\* What close_ready_segments does to the segments and the sealed frontier.
LEMMA CloseReadyFacts ==
  ASSUME NEW segs \in [Starts -> Segment], NEW dur \in 0..MaxSeq,
         sealed_seq \in 0..MaxSeq, CloseReadySegments(segs, dur)
  PROVE  /\ segments' \in [Starts -> Segment]
         /\ sealed_seq' \in 0..MaxSeq
         /\ sealed_seq' = sealed_seq \/ sealed_seq' <= dur
         /\ \A s \in Starts :
               /\ segments'[s].last_seq = segs[s].last_seq
               /\ segments'[s].write_epoch = segs[s].write_epoch
               /\ segments'[s].flushed_epoch = segs[s].flushed_epoch
               /\ segments'[s].sealed_end = segs[s].sealed_end
               /\ \/ segments'[s].state = segs[s].state
                  \/ /\ segments'[s].state = "closed" /\ segs[s].state = "open"
                     /\ segs[s].flushed_epoch >= segs[s].write_epoch
                     /\ segs[s].sealed_end # 0
<1> DEFINE ready == ReadySegments(segs, dur)
           shut(s) == [segs[s] EXCEPT !.state = "closed"]
<1>1. segments' = [s \in Starts |-> IF s \in ready THEN shut(s) ELSE segs[s]]
      /\ sealed_seq' \in {sealed_seq} \cup {segs[s].sealed_end : s \in ready}
  BY DEF CloseReadySegments
<1>2. \A s \in ready : /\ s \in Starts /\ segs[s].state = "open" /\ segs[s].sealed_end # 0
                       /\ segs[s].sealed_end <= dur
                       /\ segs[s].flushed_epoch >= segs[s].write_epoch
  BY DEF ReadySegments
<1> HIDE DEF ready
<1>3. \A s \in Starts : /\ shut(s) \in Segment
                        /\ shut(s).state = "closed"
                        /\ shut(s).last_seq = segs[s].last_seq
                        /\ shut(s).write_epoch = segs[s].write_epoch
                        /\ shut(s).flushed_epoch = segs[s].flushed_epoch
                        /\ shut(s).sealed_end = segs[s].sealed_end
  BY DEF Segment
<1> HIDE DEF shut
<1>4. segments' \in [Starts -> Segment]
  BY <1>1, <1>3
<1>5. sealed_seq' \in 0..MaxSeq /\ (sealed_seq' = sealed_seq \/ sealed_seq' <= dur)
  <2>1. CASE sealed_seq' = sealed_seq
    BY <2>1
  <2>2. CASE sealed_seq' # sealed_seq
    <3>1. PICK s \in ready : sealed_seq' = segs[s].sealed_end
      BY <1>1, <2>2
    <3>2. segs[s] \in Segment
      BY <1>2
    <3>3. QED
      BY <1>2, <3>1, <3>2 DEF Segment
  <2>3. QED
    BY <2>1, <2>2
<1>6. ASSUME NEW s \in Starts
      PROVE  /\ segments'[s].last_seq = segs[s].last_seq
             /\ segments'[s].write_epoch = segs[s].write_epoch
             /\ segments'[s].flushed_epoch = segs[s].flushed_epoch
             /\ segments'[s].sealed_end = segs[s].sealed_end
             /\ \/ segments'[s].state = segs[s].state
                \/ /\ segments'[s].state = "closed" /\ segs[s].state = "open"
                   /\ segs[s].flushed_epoch >= segs[s].write_epoch
                   /\ segs[s].sealed_end # 0
  BY <1>1, <1>2, <1>3
<1>7. QED
  BY <1>4, <1>5, <1>6

\* With nothing dirty, the cover says that everything written is on the medium.
LEMMA FlushCleanStep ==
  ASSUME IInv, FlushClean
  PROVE  IInv'
<1>0. /\ TypeOK /\ segments \in [Starts -> Segment]
      /\ written_seq \in 0..MaxSeq /\ durable_seq \in 0..MaxSeq /\ sealed_seq \in 0..MaxSeq
      /\ durable_seq <= written_seq /\ sealed_seq <= durable_seq
  BY DEF IInv, TypeOK, FrontierInv
<1>1. /\ durable_seq' = written_seq
      /\ CloseReadySegments(segments, written_seq)
      /\ \A s \in Starts : ~(Dirty(s) /\ segments[s].last_seq <= written_seq)
      /\ registered' \in BOOLEAN
      /\ UNCHANGED <<clientVars, tickets, queue, batch, incarnation, owners, closing,
                     written_seq, requested_seq, error, flush, fileVars>>
  <2>1. MaxOf(durable_seq, written_seq) = written_seq
    BY <1>0 DEF MaxOf
  <2>2. registered' \in BOOLEAN
    BY <1>0 DEF FlushClean, StillRegistered, TypeOK
  <2>3. QED
    BY <2>1, <2>2 DEF FlushClean
<1>2. /\ segments' \in [Starts -> Segment]
      /\ sealed_seq' \in 0..MaxSeq
      /\ sealed_seq' = sealed_seq \/ sealed_seq' <= written_seq
      /\ \A s \in Starts :
            /\ segments'[s].last_seq = segments[s].last_seq
            /\ segments'[s].write_epoch = segments[s].write_epoch
            /\ segments'[s].flushed_epoch = segments[s].flushed_epoch
            /\ segments'[s].sealed_end = segments[s].sealed_end
            /\ \/ segments'[s].state = segments[s].state
               \/ /\ segments'[s].state = "closed" /\ segments[s].state = "open"
                  /\ segments[s].flushed_epoch >= segments[s].write_epoch
                  /\ segments[s].sealed_end # 0
  BY <1>0, <1>1, CloseReadyFacts
<1>3. TypeOK'
  BY <1>0, <1>1, <1>2 DEF TypeOK, clientVars, fileVars
<1>4. OrderInv'
  <2>1. \A s \in Starts : Sealed(s)' => Sealed(s)
    BY <1>2 DEF Sealed
  <2>2. QED
    BY <1>1, <2>1, OthersKeepOrder DEF IInv, clientVars
<1>5. SegmentInv' /\ CoverInv' /\ FlushInv'
  BY <1>1, <1>2, CloseKeepsCover DEF fileVars
<1>6. FrontierInv'
  BY <1>0, <1>1, <1>2 DEF FrontierInv
<1>7. DurableIsSynced'
  <2>1. \A n \in 1..written_seq : \E s \in Starts : n \in disk[s]
    BY <1>1 DEF IInv, CoverInv, SegmentInv
  <2>2. QED
    BY <1>1, <2>1 DEF DurableIsSynced, OnMedium, fileVars
<1>8. QED
  BY <1>1, <1>3, <1>4, <1>5, <1>6, <1>7, Frames DEF IInv, fileVars

\* One fsync moves a segment from the work left to the medium.
LEMMA FlushSyncStep ==
  ASSUME IInv, NEW s \in Starts, FlushSync(s)
  PROVE  IInv'
<1>0. /\ TypeOK /\ flush \in FlushWork
      /\ file \in [Starts -> SUBSET Seqs] /\ disk \in [Starts -> SUBSET Seqs]
      /\ \A r \in Starts : disk[r] \subseteq file[r]
      /\ flush.active
  BY DEF IInv, TypeOK, SegmentInv, FlushSync
<1>1. /\ disk' = [disk EXCEPT ![s] = file[s]]
      /\ flush' = [flush EXCEPT !.todo = @ \ {s}]
      /\ UNCHANGED <<clientVars, tickets, queue, batch, streamVars, file>>
  BY DEF FlushSync
<1>2. /\ flush' \in FlushWork /\ flush'.active
      /\ flush'.target = flush.target /\ flush'.epoch = flush.epoch
      /\ flush'.todo = flush.todo \ {s}
  BY <1>0, <1>1 DEF FlushWork
<1>3. /\ disk' \in [Starts -> SUBSET Seqs]
      /\ \A r \in Starts : disk[r] \subseteq disk'[r] /\ disk'[r] \subseteq file[r]
      /\ disk'[s] = file[s]
      /\ \A r \in Starts : r # s => disk'[r] = disk[r]
  BY <1>0, <1>1
<1>4. TypeOK'
  BY <1>0, <1>1, <1>2, <1>3 DEF TypeOK, clientVars, streamVars
<1>5. SegmentInv'
  BY <1>1, <1>3 DEF IInv, SegmentInv, streamVars
<1>6. CoverInv'
  BY <1>1, <1>3 DEF IInv, CoverInv, Dirty, streamVars
<1>7. FlushInv'
  <2>1. UNCHANGED <<segments, written_seq, file>> /\ flush.target <= written_seq
    BY <1>0, <1>1 DEF IInv, FlushInv, streamVars
  <2>2. ASSUME NEW r \in Starts, flush.epoch[r] # 0
        PROVE  /\ segments[r].state # "none"
               /\ flush.epoch[r] <= segments[r].write_epoch
               /\ r \notin flush'.todo /\ flush.epoch[r] = segments[r].write_epoch =>
                     \A n \in file[r] : n <= segments[r].last_seq => n \in disk'[r]
    <3>1. CASE r = s
      BY <1>0, <1>3, <2>2, <3>1 DEF IInv, FlushInv
    <3>2. CASE r # s
      BY <1>0, <1>2, <1>3, <2>2, <3>2 DEF IInv, FlushInv
    <3>3. QED
      BY <3>1, <3>2
  <2>3. ASSUME NEW n \in 1..flush.target
        PROVE  \E r \in Starts : n \in disk'[r] \/ (n \in file[r] /\ r \in flush'.todo)
    BY <1>0, <1>2, <1>3 DEF IInv, FlushInv
  <2>4. QED
    BY <1>2, <2>1, <2>2, <2>3 DEF FlushInv
<1>8. DurableIsSynced'
  BY <1>1, <1>3 DEF IInv, DurableIsSynced, OnMedium, streamVars
<1>9. QED
  BY <1>1, <1>4, <1>5, <1>6, <1>7, <1>8, Frames DEF IInv, clientVars, streamVars

\* A failed fsync changes the flusher's own state only.
LEMMA FlushSyncFailsStep ==
  ASSUME IInv, FlushSyncFails
  PROVE  IInv'
<1>1. /\ flush' \in FlushWork /\ flush'.active
      /\ flush'.target = flush.target /\ flush'.epoch = flush.epoch
      /\ flush'.todo = flush.todo
  BY DEF IInv, TypeOK, FlushSyncFails, FlushWork
<1>2. TypeOK'
  BY <1>1 DEF IInv, TypeOK, FlushSyncFails, clientVars, streamVars, fileVars
<1>3. FlushInv'
  BY <1>1 DEF IInv, FlushInv, FlushSyncFails, streamVars, fileVars
<1>4. QED
  BY <1>2, <1>3, Frames DEF IInv, FlushSyncFails, clientVars, streamVars, fileVars

\* No flush is in progress.
LEMMA NoFlushFacts ==
  NoFlush \in FlushWork /\ ~NoFlush.active
<1>1. NoFlush.epoch \in [Starts -> Nat]
  BY DEF NoFlush
<1>2. QED
  BY <1>1, BoundsAssumption DEF NoFlush, FlushWork

\* Without work in progress the flusher promises nothing.
LEMMA NotFlushing ==
  ASSUME flush' = NoFlush
  PROVE  FlushInv'
  BY NoFlushFacts DEF FlushInv

\* The flushed epochs only mark clean what the snapshot had captured.
LEMMA FlushedFacts ==
  ASSUME IInv, flush.active
  PROVE  /\ FlushedSegments \in [Starts -> Segment]
         /\ \A s \in Starts :
               /\ FlushedSegments[s].state = segments[s].state
               /\ FlushedSegments[s].last_seq = segments[s].last_seq
               /\ FlushedSegments[s].write_epoch = segments[s].write_epoch
               /\ FlushedSegments[s].sealed_end = segments[s].sealed_end
               /\ FlushedSegments[s].flushed_epoch <= segments[s].write_epoch
               /\ FlushedSegments[s].flushed_epoch
                      \in {segments[s].flushed_epoch, flush.epoch[s]}
<1>0. segments \in [Starts -> Segment] /\ flush \in FlushWork
  BY DEF IInv, TypeOK
<1>1. ASSUME NEW s \in Starts
      PROVE  /\ FlushedSegments[s] \in Segment
             /\ FlushedSegments[s].state = segments[s].state
             /\ FlushedSegments[s].last_seq = segments[s].last_seq
             /\ FlushedSegments[s].write_epoch = segments[s].write_epoch
             /\ FlushedSegments[s].sealed_end = segments[s].sealed_end
             /\ FlushedSegments[s].flushed_epoch <= segments[s].write_epoch
             /\ FlushedSegments[s].flushed_epoch
                    \in {segments[s].flushed_epoch, flush.epoch[s]}
  <2>1. PICK m \in Nat : m = MaxOf(segments[s].flushed_epoch, flush.epoch[s])
    BY <1>0 DEF Segment, FlushWork, MaxOf
  <2>2. m \in {segments[s].flushed_epoch, flush.epoch[s]}
    BY <2>1 DEF MaxOf
  <2>3. segments[s].flushed_epoch <= segments[s].write_epoch
        /\ flush.epoch[s] <= segments[s].write_epoch
    <3>1. segments[s].write_epoch \in Nat
      BY <1>0 DEF Segment
    <3>2. QED
      BY <3>1 DEF IInv, SegmentInv, FlushInv
  <2>4. segments[s] \in Segment
    BY <1>0
  <2>5. CASE segments[s].state = "open"
    <3>1. FlushedSegments[s] = [segments[s] EXCEPT !.flushed_epoch = m]
      BY <2>1, <2>5 DEF FlushedSegments
    <3>2. QED
      BY <2>2, <2>3, <2>4, <3>1 DEF Segment
  <2>6. CASE segments[s].state # "open"
    <3>1. FlushedSegments[s] = segments[s]
      BY <2>6 DEF FlushedSegments
    <3>2. QED
      BY <2>3, <2>4, <3>1
  <2>7. QED
    BY <2>5, <2>6
<1>2. DOMAIN FlushedSegments = Starts
      /\ FlushedSegments = [s \in Starts |-> FlushedSegments[s]]
  BY DEF FlushedSegments
<1>3. QED
  BY <1>1, <1>2

\* All fsyncs done: the target is on the medium, and a segment is clean only if
\* nothing was published to it since the snapshot.
LEMMA FlushDoneStep ==
  ASSUME IInv, FlushDone
  PROVE  IInv'
<1>0. /\ TypeOK /\ segments \in [Starts -> Segment] /\ flush \in FlushWork
      /\ written_seq \in 0..MaxSeq /\ durable_seq \in 0..MaxSeq /\ sealed_seq \in 0..MaxSeq
      /\ durable_seq <= written_seq /\ sealed_seq <= durable_seq
      /\ flush.active /\ flush.todo = {} /\ flush.target <= written_seq
      /\ flush.target \in 0..MaxSeq
  BY DEF IInv, TypeOK, FrontierInv, FlushDone, FlushInv, FlushWork
<1>1. /\ flush' = NoFlush /\ FlushInv' /\ NoFlush \in FlushWork
      /\ UNCHANGED <<clientVars, tickets, queue, batch, incarnation, owners, closing,
                     written_seq, requested_seq, error, fileVars>>
  BY NotFlushing, NoFlushFacts DEF FlushDone
<1>2. CASE ~FlushIsCurrent
  <2>1. UNCHANGED <<durable_seq, segments, sealed_seq, registered>>
    BY <1>2 DEF FlushDone
  <2>2. TypeOK'
    BY <1>0, <1>1, <2>1 DEF TypeOK, clientVars, fileVars
  <2>3. QED
    BY <1>1, <2>1, <2>2, Frames DEF IInv, clientVars, fileVars
<1>3. CASE FlushIsCurrent
  <2>1. PICK dur \in 0..MaxSeq : dur = MaxOf(durable_seq, flush.target)
    BY <1>0 DEF MaxOf
  <2>2. dur \in {durable_seq, flush.target} /\ dur <= written_seq /\ durable_seq <= dur
    BY <1>0, <2>1 DEF MaxOf
  <2>3. durable_seq' = dur /\ CloseReadySegments(FlushedSegments, dur)
    BY <1>3, <2>1 DEF FlushDone
  <2>4. registered' \in BOOLEAN
    BY <1>0, <1>3 DEF FlushDone, TypeOK, StillRegistered
  <2>5. /\ FlushedSegments \in [Starts -> Segment]
        /\ \A s \in Starts :
               /\ FlushedSegments[s].state = segments[s].state
               /\ FlushedSegments[s].last_seq = segments[s].last_seq
               /\ FlushedSegments[s].write_epoch = segments[s].write_epoch
               /\ FlushedSegments[s].sealed_end = segments[s].sealed_end
               /\ FlushedSegments[s].flushed_epoch <= segments[s].write_epoch
               /\ FlushedSegments[s].flushed_epoch
                      \in {segments[s].flushed_epoch, flush.epoch[s]}
    BY <1>0, FlushedFacts
  <2>6. /\ segments' \in [Starts -> Segment]
        /\ sealed_seq' \in 0..MaxSeq
        /\ sealed_seq' = sealed_seq \/ sealed_seq' <= dur
        /\ \A s \in Starts :
              /\ segments'[s].last_seq = FlushedSegments[s].last_seq
              /\ segments'[s].write_epoch = FlushedSegments[s].write_epoch
              /\ segments'[s].flushed_epoch = FlushedSegments[s].flushed_epoch
              /\ segments'[s].sealed_end = FlushedSegments[s].sealed_end
              /\ \/ segments'[s].state = FlushedSegments[s].state
                 \/ /\ segments'[s].state = "closed" /\ FlushedSegments[s].state = "open"
                    /\ FlushedSegments[s].flushed_epoch >= FlushedSegments[s].write_epoch
                    /\ FlushedSegments[s].sealed_end # 0
    BY <1>0, <2>3, <2>5, CloseReadyFacts
  <2>7. TypeOK'
    BY <1>0, <1>1, <2>3, <2>4, <2>6 DEF TypeOK, clientVars, fileVars
  <2>8. OrderInv'
    <3>1. \A s \in Starts : Sealed(s)' => Sealed(s)
      BY <2>5, <2>6 DEF Sealed
    <3>2. QED
      BY <1>1, <3>1, OthersKeepOrder DEF IInv, clientVars
  <2>9. SegmentInv'
    BY <1>1, <2>5, <2>6 DEF IInv, SegmentInv, fileVars
  <2>10. CoverInv'
    <3>1. SUFFICES ASSUME NEW n \in 1..written_seq
                   PROVE  \E s \in Starts : n \in disk[s]
                              \/ (n \in file[s] /\ n <= segments'[s].last_seq /\ Dirty(s)')
      BY <1>1 DEF CoverInv, fileVars
    <3>2. PICK s \in Starts :
              n \in disk[s] \/ (n \in file[s] /\ n <= segments[s].last_seq /\ Dirty(s))
      BY DEF IInv, CoverInv
    <3>3. segments[s].write_epoch \in Nat /\ segments[s].flushed_epoch \in Nat
          /\ flush.epoch[s] \in Nat /\ segments'[s].flushed_epoch \in Nat
      BY <1>0, <2>6 DEF Segment, FlushWork
    <3>4. CASE n \in disk[s]
      BY <3>4
    <3>5. CASE n \notin disk[s] /\ flush.epoch[s] < segments[s].write_epoch
      BY <2>5, <2>6, <3>2, <3>3, <3>5 DEF Dirty
    <3>6. CASE flush.epoch[s] >= segments[s].write_epoch /\ n \notin disk[s]
      <4>1. segments[s].flushed_epoch < segments[s].write_epoch
        BY <3>2, <3>6 DEF Dirty
      <4>2. flush.epoch[s] # 0 /\ flush.epoch[s] = segments[s].write_epoch
        BY <1>0, <3>3, <3>6, <4>1 DEF IInv, FlushInv
      <4>3. QED
        BY <1>0, <3>2, <4>2 DEF IInv, FlushInv
    <3>7. QED
      BY <3>3, <3>4, <3>5, <3>6
  <2>11. FrontierInv'
    BY <1>0, <1>1, <2>2, <2>3, <2>6 DEF FrontierInv
  <2>12. DurableIsSynced'
    <3>1. \A n \in 1..dur : \E s \in Starts : n \in disk[s]
      BY <1>0, <2>2 DEF IInv, FlushInv, DurableIsSynced, OnMedium
    <3>2. QED
      BY <1>1, <2>3, <3>1 DEF DurableIsSynced, OnMedium, fileVars
  <2>13. QED
    BY <1>1, <2>7, <2>8, <2>9, <2>10, <2>11, <2>12, Frames DEF IInv, fileVars
<1>4. QED
  BY <1>2, <1>3

\* A failed flush fails the stream and moves no frontier.
LEMMA FlushFailedStep ==
  ASSUME IInv, FlushFailed
  PROVE  IInv'
<1>1. /\ flush' = NoFlush /\ FlushInv' /\ NoFlush \in FlushWork
      /\ UNCHANGED <<clientVars, tickets, queue, batch, incarnation, owners, closing,
                     written_seq, durable_seq, requested_seq, sealed_seq, segments,
                     fileVars>>
  BY NotFlushing, NoFlushFacts DEF FlushFailed
<1>2. error' \in Errors /\ registered' \in BOOLEAN
  BY FailStreamType DEF IInv, TypeOK, Errors, FlushFailed
<1>3. TypeOK'
  BY <1>1, <1>2 DEF IInv, TypeOK, clientVars, fileVars
<1>4. QED
  BY <1>1, <1>3, Frames DEF IInv, clientVars, fileVars

-----------------------------------------------------------------------------
(***************************************************************************)
(* The invariant, and what follows from it.                                *)
(***************************************************************************)
\* A freshly seeded stream satisfies the invariant.
LEMMA InitIInv ==
  ASSUME Init
  PROVE  IInv
<1>1. PICK seed \in Seeds :
          /\ next_sequence = seed + 1
          /\ segment_start \in {1, seed + 1}
          /\ written_seq = seed /\ durable_seq = seed /\ requested_seq = seed
          /\ file = [s \in Starts |-> IF s = 1 THEN 1..seed ELSE {}]
          /\ disk = file
  BY DEF Init
<1>2. seed \in 0..MaxSeq /\ 1 \in Starts /\ seed + 1 \in Starts
  BY BoundsAssumption DEF Starts
<1>3. NoSegment \in Segment /\ NoSegment.state = "none" /\ NoSegment.sealed_end = 0
      /\ NoSegment.last_seq = 0 /\ NoSegment.flushed_epoch = 0 /\ NoSegment.write_epoch = 0
  BY BoundsAssumption DEF NoSegment, Segment
<1>4. file \in [Starts -> SUBSET Seqs] /\ file[1] = 1..seed
  BY <1>1, <1>2, BoundsAssumption DEF Seqs
<1>5. TypeOK
  <2>1. next_sequence \in 1..(MaxSeq + 1) /\ segment_start \in Starts
    BY <1>1, <1>2, BoundsAssumption DEF Starts
  <2>2. segments \in [Starts -> Segment] /\ error \in Errors /\ tickets \subseteq Ticket
    BY <1>3 DEF Init, Errors
  <2>3. handles \in 0..MaxOwners /\ incarnation \in Nat /\ owners \in Nat
        /\ sealed_seq \in 0..MaxSeq /\ queue \in Seq(Command)
    BY BoundsAssumption DEF Init
  <2>4. registered \in BOOLEAN /\ closing \in BOOLEAN
    BY Zenon DEF Init
  <2>5. batch \in Batch /\ flush \in FlushWork
    BY NoBatchFacts, NoFlushFacts DEF Init
  <2>6. QED
    BY <1>1, <1>2, <1>4, <2>1, <2>2, <2>3, <2>4, <2>5 DEF TypeOK
<1>6. BatchInv /\ FlushInv
  BY NoBatchFacts, NoFlushFacts DEF Init, BatchInv, FlushInv
<1>7. OrderInv
  <2>1. Len(queue) = 0 /\ \A s \in Starts : ~Sealed(s)
    BY <1>3 DEF Init, Sealed
  <2>2. QED
    BY <2>1 DEF OrderInv
<1>8. SegmentInv /\ FrontierInv
  BY <1>1, <1>2, <1>3 DEF Init, SegmentInv, FrontierInv
<1>9. CoverInv /\ DurableIsSynced
  BY <1>1, <1>2, <1>4 DEF CoverInv, DurableIsSynced, OnMedium
<1>10. QED
  BY <1>5, <1>6, <1>7, <1>8, <1>9 DEF IInv

\* Every step of every thread keeps the invariant.
LEMMA NextIInv ==
  ASSUME IInv, [Next]_vars
  PROVE  IInv'
<1>1. CASE UNCHANGED vars
  <2>1. TypeOK'
    BY <1>1 DEF IInv, TypeOK, vars, clientVars, streamVars, fileVars
  <2>2. QED
    BY <1>1, <2>1, Frames DEF IInv, vars, clientVars, streamVars, fileVars
<1>2. CASE Client
  BY <1>2, SubmitAppendStep, SubmitSealStep, RequestFlushStep, SubmitOpenStep,
     SubmitReleaseStep, SubmitBarrierStep DEF Client
<1>3. CASE Return
  BY <1>3, ReturnStep DEF Return
<1>4. CASE Writer
  BY <1>4, WriterCollectStep, WriterExtendStep, WriterSkipStep, WriterWriteStep,
     WriterWriteFailsStep, WriterPublishStep, WriterFailStep, WriterSealStep,
     WriterOpenStep, WriterReleaseStep, WriterBarrierStep DEF Writer
<1>5. CASE Flusher
  BY <1>5, FlushPickStep, FlushCleanStep, FlushSyncStep, FlushSyncFailsStep,
     FlushDoneStep, FlushFailedStep DEF Flusher, NextFlushWork
<1>6. QED
  BY <1>1, <1>2, <1>3, <1>4, <1>5 DEF Next

\* The inductive invariant holds in every reachable state.
THEOREM Invariance == Spec => []IInv
  BY InitIInv, NextIInv, PTL DEF Spec

\* Every variable keeps its type, for every bound: in particular the written,
\* durable, requested and sealed frontiers stay within the submitted numbers.
THEOREM TypeCorrect == Spec => []TypeOK
<1>1. IInv => TypeOK
  BY DEF IInv
<1>2. QED
  BY <1>1, Invariance, PTL

\* The durable frontier never runs ahead of fsync, for any number of records,
\* segments, owners and clients (next_flush_work, flusher_loop and
\* write_append_batch).
THEOREM DurableFrontierIsSynced == Spec => []DurableIsSynced
<1>1. IInv => DurableIsSynced
  BY DEF IInv
<1>2. QED
  BY <1>1, Invariance, PTL

\* After a failed flush no flush is in progress, and none begins; a failed
\* append never reports itself as a flush.
FailureInv ==
    /\ error = "flush" => ~flush.active
    /\ batch.cause # "flush"

\* A failed fsync is final: whatever runs after it, the durable frontier
\* stays where it was (flusher_loop, fail_stream, next_flush_work).
THEOREM FlushFailureTheorem == Spec => FlushFailureIsFinal
<1>1. Init => FailureInv
  BY DEF Init, FailureInv, NoBatch
<1>2. FailureInv /\ IInv /\ [Next]_vars => FailureInv'
  <2>0. SUFFICES ASSUME FailureInv, IInv, [Next]_vars PROVE FailureInv'
    OBVIOUS
  <2>1. CASE UNCHANGED vars
    BY <2>0, <2>1 DEF FailureInv, vars, streamVars
  <2>2. CASE Client
    BY <2>0, <2>2 DEF FailureInv, Client, SubmitAppend, SubmitSeal, RequestFlush, SubmitOpen,
       SubmitRelease, SubmitBarrier, streamVars
  <2>3. CASE Return
    BY <2>0, <2>3 DEF FailureInv, Return, TicketOk, TicketErr, streamVars
  <2>4. CASE Writer
    <3>1. CASE WriterCollect \/ WriterSkip
      <4>1. UNCHANGED <<error, flush>>
        BY <3>1 DEF WriterCollect, WriterSkip, streamVars
      <4>2. ASSUME WriterSkip PROVE batch'.cause = "none"
        BY <4>2 DEF WriterSkip, NoBatch
      <4>3. ASSUME WriterCollect PROVE batch'.cause = "none"
        <5>1. PICK s, n, target : batch' = [NoBatch EXCEPT !.phase = "collect", !.start = s,
                                      !.first = n, !.last = n, !.target = target]
          BY <4>3, Zenon DEF WriterCollect
        <5>2. QED
          BY <5>1 DEF NoBatch
      <4>4. QED
        BY <2>0, <3>1, <4>1, <4>2, <4>3 DEF FailureInv
    <3>2. CASE WriterExtend \/ WriterWrite \/ WriterWriteFails
      BY <2>0, <3>2 DEF FailureInv, IInv, TypeOK, Batch, WriterExtend, WriterWrite,
         WriterWriteFails, streamVars
    <3>3. CASE WriterPublish \/ WriterFail
      BY <2>0, <3>3 DEF FailureInv, WriterPublish, WriterFail, NoBatch, FailStream, FirstError
    <3>4. CASE WriterSeal
      <4>1. PICK c : SealOutcome(c) /\ c.seq \in Int /\ durable_seq \in Int
        BY <2>0, <3>4, ReceiveType, BoundsAssumption
           DEF IInv, TypeOK, WriterSeal, NextIs, Command
      <4>2. UNCHANGED <<batch, flush>>
        BY <3>4 DEF WriterSeal
      <4> DEFINE seg == [segments[c.start] EXCEPT !.sealed_end = c.seq]
      <4>3. error' = error \/ error' = "seal"
        <5>1. CASE error # "none" \/ seg.state = "open"
          BY <4>1, <5>1 DEF SealOutcome
        <5>2. CASE error = "none" /\ seg.state # "open" /\ durable_seq >= c.seq
          <6>1. ~(durable_seq < c.seq)
            BY <4>1, <5>2
          <6>2. QED
            BY <4>1, <5>2, <6>1 DEF SealOutcome
        <5>3. CASE error = "none" /\ seg.state # "open" /\ durable_seq < c.seq
          BY <4>1, <5>3 DEF SealOutcome, FailStream, FirstError
        <5>4. QED
          BY <4>1, <5>1, <5>2, <5>3
      <4>4. QED
        BY <2>0, <4>2, <4>3 DEF FailureInv
    <3>5. CASE WriterOpen \/ WriterRelease \/ WriterBarrier
      BY <2>0, <3>5 DEF FailureInv, WriterOpen, WriterRelease, WriterBarrier
    <3>6. QED
      BY <2>4, <3>1, <3>2, <3>3, <3>4, <3>5 DEF Writer
  <2>5. CASE Flusher
    <3>1. CASE FlushPick \/ FlushClean
      BY <2>0, <3>1 DEF FailureInv, FlushPick, FlushClean, FlushWanted, streamVars
    <3>2. CASE FlushSyncFails \/ \E s \in Starts : FlushSync(s)
      BY <2>0, <3>2 DEF FailureInv, IInv, TypeOK, FlushWork, FlushSyncFails, FlushSync, streamVars
    <3>3. CASE FlushDone \/ FlushFailed
      BY <2>0, <3>3, NoFlushFacts DEF FailureInv, FlushDone, FlushFailed
    <3>4. QED
      BY <2>5, <3>1, <3>2, <3>3 DEF Flusher, NextFlushWork
  <2>6. QED
    BY <2>0, <2>1, <2>2, <2>3, <2>4, <2>5 DEF Next
<1>3. FailureInv /\ [Next]_vars => [error = "flush" => durable_seq' = durable_seq]_vars
  <2>0. SUFFICES ASSUME FailureInv, [Next]_vars, error = "flush"
                 PROVE  durable_seq' = durable_seq
    OBVIOUS
  <2>1. CASE UNCHANGED vars
    BY <2>1 DEF vars, streamVars
  <2>2. CASE Client \/ Return
    BY <2>2 DEF Client, Return, SubmitAppend, SubmitSeal, RequestFlush, SubmitOpen,
       SubmitRelease, SubmitBarrier, TicketOk, TicketErr, streamVars
  <2>3. CASE Writer
    BY <2>3 DEF Writer, WriterCollect, WriterExtend, WriterSkip, WriterWrite,
       WriterWriteFails, WriterPublish, WriterFail, WriterSeal, WriterOpen,
       WriterRelease, WriterBarrier, streamVars
  <2>4. CASE Flusher
    BY <2>0, <2>4 DEF Flusher, NextFlushWork, FailureInv, FlushPick, FlushClean, FlushWanted, FlushSync,
       FlushSyncFails, FlushDone, FlushFailed, streamVars
  <2>5. QED
    BY <2>0, <2>1, <2>2, <2>3, <2>4 DEF Next
<1>4. QED
  BY <1>1, <1>2, <1>3, Invariance, PTL DEF Spec, FlushFailureIsFinal
=============================================================================
