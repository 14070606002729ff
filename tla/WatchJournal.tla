---------------------------- MODULE WatchJournal ----------------------------
(***************************************************************************)
(* The native write-ahead journal of the Watch runtime                     *)
(* (native/sunpack_native/src/watch_journal.rs), for one stream and one    *)
(* incarnation of it: from open and seed until the last owner's release    *)
(* retires it.                                                             *)
(*                                                                         *)
(* Clients submit commands to one writer thread through a FIFO channel and *)
(* wait on tickets.  The writer appends records to segment files outside   *)
(* the lock and then publishes the written frontier.  One flusher thread   *)
(* snapshots the dirty segments under the lock, fsyncs them outside it,    *)
(* and then publishes the durable frontier.  A step below is one critical  *)
(* section of the code, or one file operation done outside the lock.       *)
(*                                                                         *)
(* Data: a record is its sequence number; `file' is what the operating     *)
(* system shows for a segment, `disk' what has been forced to the medium.  *)
(* Appends are made in sequence order, so a set of sequence numbers        *)
(* determines a file's contents.                                           *)
(***************************************************************************)
EXTENDS Integers, Sequences, FiniteSets

CONSTANTS
    MaxSeq,      \* bound: highest sequence number a client reserves
    BatchMax,    \* WRITER_BATCH_MAX_RECORDS
    MaxOwners,   \* bound: stores holding the stream at once
    MaxQueue,    \* bound: commands in the writer's channel
    MaxTickets,  \* bound: waits outstanding when a client submits another
    Seeds        \* sequence numbers the stream may be seeded with

ASSUME BoundsAssumption ==
    /\ MaxSeq \in Nat
    /\ BatchMax \in Nat \ {0}
    /\ MaxOwners \in Nat \ {0}
    /\ MaxQueue \in Nat \ {0}
    /\ MaxTickets \in Nat \ {0}
    /\ Seeds \subseteq 0..MaxSeq

Seqs   == 1..MaxSeq
Starts == 1..(MaxSeq + 1)     \* a segment is named by its first sequence number

Goals  == {"written", "durable", "sealed"}
Ops    == {"append", "seal", "open", "release", "barrier"}

\* The causes a stream can fail with.  "sequence", "seal" and "segment" are
\* the runtime's own consistency errors, "append" and "flush" are I/O errors.
Errors == {"none", "append", "flush", "sequence", "seal", "segment"}

VARIABLES
    \* the sequence coordinator of the clients (state.py, _StatePathCoordinator)
    next_sequence, segment_start,
    handles,        \* NativeJournalStream handles the clients hold
    tickets,        \* waits that have not returned
    queue,          \* the writer's command channel
    batch,          \* the writer thread's current append batch
    \* StreamState
    registered,     \* the stream is in RuntimeState.streams
    incarnation,    \* identity of the `retired' cell of the current stream
    owners, closing,
    written_seq, durable_seq, requested_seq, sealed_seq,
    segments, error,
    flush,          \* the flusher thread's current FlushWork
    file, disk      \* contents of the segment files: cached, and on the medium

clientVars == <<next_sequence, segment_start, handles>>
streamVars == <<registered, incarnation, owners, closing, written_seq,
                durable_seq, requested_seq, sealed_seq, segments, error>>
fileVars   == <<file, disk>>
vars == <<clientVars, tickets, queue, batch, streamVars, flush, fileVars>>

-----------------------------------------------------------------------------
Command == [op : Ops, seq : 0..MaxSeq, start : 0..(MaxSeq + 1), durable : BOOLEAN]

Ticket == [seq : 0..MaxSeq, goal : Goals]

\* A segment's handle: "none" was never opened, "closed" was sealed and
\* dropped; the code's map holds exactly the "open" ones.  sealed_end = 0
\* stands for None.
Segment == [state : {"none", "open", "closed"}, last_seq : 0..MaxSeq,
            write_epoch : Nat, flushed_epoch : Nat, sealed_end : 0..MaxSeq]

NoSegment == [state |-> "none", last_seq |-> 0, write_epoch |-> 0,
              flushed_epoch |-> 0, sealed_end |-> 0]

\* The consecutive append commands the writer has taken from the channel:
\* target is the last durable one (0: none), contiguous the monotonicity test.
Batch == [phase : {"idle", "collect", "written", "failed"},
          start : 0..(MaxSeq + 1), first : 0..MaxSeq, last : 0..MaxSeq,
          target : 0..MaxSeq, contiguous : BOOLEAN, cause : Errors]

NoBatch == [phase |-> "idle", start |-> 0, first |-> 0, last |-> 0,
            target |-> 0, contiguous |-> TRUE, cause |-> "none"]

\* The flusher's work: epoch[s] is the captured write epoch of each segment
\* in the snapshot, todo the segments not yet fsynced.
FlushWork == [active : BOOLEAN, incarnation : Nat, target : 0..MaxSeq,
              epoch : [Starts -> Nat], todo : SUBSET Starts, failed : BOOLEAN]

NoFlush == [active |-> FALSE, incarnation |-> 0, target |-> 0,
            epoch |-> [s \in Starts |-> 0], todo |-> {}, failed |-> FALSE]

TypeOK ==
    /\ next_sequence \in 1..(MaxSeq + 1)
    /\ segment_start \in Starts
    /\ handles \in 0..MaxOwners
    /\ tickets \subseteq Ticket
    /\ queue \in Seq(Command)
    /\ batch \in Batch
    /\ registered \in BOOLEAN
    /\ incarnation \in Nat
    /\ owners \in Nat
    /\ closing \in BOOLEAN
    /\ written_seq \in 0..MaxSeq
    /\ durable_seq \in 0..MaxSeq
    /\ requested_seq \in 0..MaxSeq
    /\ sealed_seq \in 0..MaxSeq
    /\ segments \in [Starts -> Segment]
    /\ error \in Errors
    /\ flush \in FlushWork
    /\ file \in [Starts -> SUBSET Seqs]
    /\ disk \in [Starts -> SUBSET Seqs]

-----------------------------------------------------------------------------
MaxOf(a, b) == IF a >= b THEN a ELSE b

\* Mutant: retire without waiting for the written records.
StillRegistered_NoDrain(own, clos, err, dur, wri) == registered /\ ~(clos /\ own = 0)

\* retire_closed_stream: the last owner's stream leaves the map once it failed
\* or everything written is durable.  Its variables then stay as they are and
\* are the published StreamFrontier.
StillRegistered(own, clos, err, dur, wri) ==
    registered /\ ~(clos /\ own = 0 /\ (err # "none" \/ dur >= wri))

\* fail_stream keeps the first error.
FirstError(cause) == IF error = "none" THEN cause ELSE error

FailStream(cause) ==
    /\ error' = FirstError(cause)
    /\ registered' = StillRegistered(owners, closing, FirstError(cause), durable_seq, written_seq)

\* A published segment whose records may not all be on the medium.
Dirty(s) ==
    /\ segments[s].state = "open"
    /\ segments[s].last_seq # 0
    /\ segments[s].flushed_epoch < segments[s].write_epoch

\* Mutant: a sealed segment is dropped before its boundary is durable.
ReadySegments_NotDurable(segs, dur) ==
    {s \in Starts : segs[s].state = "open" /\ segs[s].sealed_end # 0}

\* close_ready_segments, for given segments and durable frontier.
ReadySegments(segs, dur) ==
    {s \in Starts : /\ segs[s].state = "open"
                    /\ segs[s].sealed_end # 0
                    /\ segs[s].sealed_end <= dur
                    /\ segs[s].flushed_epoch >= segs[s].write_epoch}

CloseReadySegments(segs, dur) ==
    LET ready == ReadySegments(segs, dur)
        ends  == {sealed_seq} \cup {segs[s].sealed_end : s \in ready}
    IN /\ segments' = [s \in Starts |-> IF s \in ready
                                        THEN [segs[s] EXCEPT !.state = "closed"]
                                        ELSE segs[s]]
       /\ sealed_seq' \in {e \in ends : \A other \in ends : other <= e}

-----------------------------------------------------------------------------
(***************************************************************************)
(* Clients.                                                                *)
(***************************************************************************)

MaySubmit == Len(queue) < MaxQueue /\ Cardinality(tickets) < MaxTickets

\* reserve() and submit_append().
SubmitAppend(durable) ==
    /\ handles > 0
    /\ next_sequence <= MaxSeq
    /\ MaySubmit
    /\ queue' = Append(queue, [op |-> "append", seq |-> next_sequence,
                               start |-> segment_start, durable |-> durable])
    /\ next_sequence' = next_sequence + 1
    /\ tickets' = tickets \cup {[seq |-> next_sequence,
                                 goal |-> IF durable THEN "durable" ELSE "written"]}
    /\ UNCHANGED <<segment_start, handles, batch, streamVars, flush, fileVars>>

\* Mutant: the boundary is the next sequence number.
SubmitSeal_OffByOne ==
    /\ handles > 0
    /\ segment_start < next_sequence
    /\ next_sequence <= MaxSeq
    /\ MaySubmit
    /\ queue' = Append(queue, [op |-> "seal", seq |-> next_sequence,
                               start |-> segment_start, durable |-> FALSE])
    /\ segment_start' = next_sequence
    /\ tickets' = tickets \cup {[seq |-> next_sequence, goal |-> "sealed"]}
    /\ UNCHANGED <<next_sequence, handles, batch, streamVars, flush, fileVars>>

\* rotate() and submit_seal(): nothing to rotate while the active segment is
\* still empty.
SubmitSeal ==
    LET boundary == next_sequence - 1 IN
    /\ handles > 0
    /\ segment_start <= boundary
    /\ MaySubmit
    /\ queue' = Append(queue, [op |-> "seal", seq |-> boundary,
                               start |-> segment_start, durable |-> FALSE])
    /\ segment_start' = boundary + 1
    /\ tickets' = tickets \cup {[seq |-> boundary, goal |-> "sealed"]}
    /\ UNCHANGED <<next_sequence, handles, batch, streamVars, flush, fileVars>>

\* request_flush() of everything submitted so far.
RequestFlush ==
    /\ handles > 0
    /\ Cardinality(tickets) < MaxTickets
    /\ requested_seq' = MaxOf(requested_seq, next_sequence - 1)
    /\ tickets' = tickets \cup {[seq |-> next_sequence - 1, goal |-> "durable"]}
    /\ UNCHANGED <<clientVars, queue, batch, registered, incarnation, owners, closing,
                   written_seq, durable_seq, sealed_seq, segments, error,
                   flush, fileVars>>

Control(op) == [op |-> op, seq |-> 0, start |-> 0, durable |-> FALSE]

\* open() by a further store while some store still holds the stream.
SubmitOpen ==
    /\ handles \in 1..(MaxOwners - 1)
    /\ MaySubmit
    /\ queue' = Append(queue, Control("open"))
    /\ handles' = handles + 1
    /\ UNCHANGED <<next_sequence, segment_start, tickets, batch, streamVars, flush, fileVars>>

\* Mutant: a handle is released twice.
SubmitRelease_Twice ==
    /\ MaySubmit
    /\ queue' = Append(queue, Control("release"))
    /\ handles' = handles - 1
    /\ UNCHANGED <<next_sequence, segment_start, tickets, batch, streamVars, flush, fileVars>>

\* release(), or the Drop of a handle: either may overtake unfinished tickets.
SubmitRelease ==
    /\ handles > 0
    /\ MaySubmit
    /\ queue' = Append(queue, Control("release"))
    /\ handles' = handles - 1
    /\ UNCHANGED <<next_sequence, segment_start, tickets, batch, streamVars, flush, fileVars>>

\* flush_all() starts with a barrier through the writer.
SubmitBarrier ==
    /\ MaySubmit
    /\ \A i \in DOMAIN queue : queue[i].op # "barrier"
    /\ queue' = Append(queue, Control("barrier"))
    /\ UNCHANGED <<clientVars, tickets, batch, streamVars, flush, fileVars>>

\* Mutant: a durable wait returns when the record is written.
Reached_Written(t) ==
    IF t.goal = "sealed" THEN sealed_seq >= t.seq ELSE written_seq >= t.seq

\* wait_for(): an error wins over a reached goal, and a retired stream that
\* did not reach the goal refuses.
Reached(t) ==
    CASE t.goal = "written" -> written_seq >= t.seq
      [] t.goal = "durable" -> durable_seq >= t.seq
      [] t.goal = "sealed"  -> sealed_seq >= t.seq

TicketOk(t) ==
    /\ t \in tickets
    /\ error = "none"
    /\ Reached(t)
    /\ tickets' = tickets \ {t}
    /\ UNCHANGED <<clientVars, queue, batch, streamVars, flush, fileVars>>

TicketErr(t) ==
    /\ t \in tickets
    /\ error # "none" \/ (~registered /\ ~Reached(t))
    /\ tickets' = tickets \ {t}
    /\ UNCHANGED <<clientVars, queue, batch, streamVars, flush, fileVars>>

-----------------------------------------------------------------------------
(***************************************************************************)
(* The writer thread (writer_loop, write_append_batch).                    *)
(***************************************************************************)

NextIs(op) == queue # <<>> /\ Head(queue).op = op

CanExtend ==
    /\ batch.last - batch.first + 1 < BatchMax
    /\ NextIs("append")
    /\ Head(queue).start = batch.start

WriterCollect ==
    /\ batch.phase = "idle"
    /\ NextIs("append")
    /\ LET c == Head(queue) IN
       batch' = [NoBatch EXCEPT !.phase = "collect", !.start = c.start,
                                !.first = c.seq, !.last = c.seq,
                                !.target = IF c.durable THEN c.seq ELSE 0]
    /\ queue' = Tail(queue)
    /\ UNCHANGED <<clientVars, tickets, streamVars, flush, fileVars>>

\* Zero-wait batching: take what is already queued for the same segment.
WriterExtend ==
    /\ batch.phase = "collect"
    /\ CanExtend
    /\ LET c == Head(queue) IN
       batch' = [batch EXCEPT !.last = c.seq,
                              !.target = IF c.durable THEN c.seq ELSE @,
                              !.contiguous = @ /\ c.seq = batch.last + 1]
    /\ queue' = Tail(queue)
    /\ UNCHANGED <<clientVars, tickets, streamVars, flush, fileVars>>

\* A failed stream drops its queued appends.
WriterSkip ==
    /\ batch.phase = "collect"
    /\ ~CanExtend
    /\ error # "none"
    /\ batch' = NoBatch
    /\ UNCHANGED <<clientVars, tickets, queue, streamVars, flush, fileVars>>

\* segment_file(): reuse the open handle or insert a fresh one.
OpenedSegment(s) ==
    IF segments[s].state = "open" THEN segments[s] ELSE [NoSegment EXCEPT !.state = "open"]

Monotonic == batch.contiguous /\ batch.first = written_seq + 1

\* The whole batch reaches the file.
WriterWrite ==
    /\ batch.phase = "collect"
    /\ ~CanExtend
    /\ error = "none"
    /\ Monotonic
    /\ segments' = [segments EXCEPT ![batch.start] = OpenedSegment(batch.start)]
    /\ file' = [file EXCEPT ![batch.start] = @ \cup (batch.first..batch.last)]
    /\ batch' = [batch EXCEPT !.phase = "written"]
    /\ UNCHANGED <<clientVars, tickets, queue, registered, incarnation, owners, closing,
                   written_seq, durable_seq, requested_seq, sealed_seq, error,
                   flush, disk>>

\* write_append_batch() fails before it publishes: the write stops after the
\* whole records first..upto of the batch; or there is no write at all, because
\* the sequence does not continue the written frontier or the file won't open.
WriterWriteFails ==
    /\ batch.phase = "collect"
    /\ ~CanExtend
    /\ error = "none"
    /\ \/ /\ Monotonic
          /\ segments' = [segments EXCEPT ![batch.start] = OpenedSegment(batch.start)]
          /\ \E upto \in (batch.first - 1)..(batch.last - 1) :
                file' = [file EXCEPT ![batch.start] = @ \cup (batch.first..upto)]
       \/ UNCHANGED <<segments, file>>
    /\ batch' = [batch EXCEPT !.phase = "failed",
                              !.cause = IF Monotonic THEN "append" ELSE "sequence"]
    /\ UNCHANGED <<clientVars, tickets, queue, registered, incarnation, owners, closing,
                   written_seq, durable_seq, requested_seq, sealed_seq, error,
                   flush, disk>>

\* Each record of the batch is an epoch of its segment.
PublishedSegment(s) ==
    [segments[s] EXCEPT !.last_seq = batch.last,
                        !.write_epoch = @ + (batch.last - batch.first + 1)]

\* After the write, under the lock again: publish the written frontier.
WriterPublish ==
    /\ batch.phase = "written"
    /\ batch' = NoBatch
    /\ IF segments[batch.start].state = "open"
       THEN /\ segments' = [segments EXCEPT ![batch.start] = PublishedSegment(batch.start)]
            /\ written_seq' = batch.last
            /\ requested_seq' = MaxOf(requested_seq, batch.target)
            /\ UNCHANGED <<registered, error>>
       ELSE /\ FailStream("segment")
            /\ UNCHANGED <<segments, written_seq, requested_seq>>
    /\ UNCHANGED <<clientVars, tickets, queue, incarnation, owners, closing,
                   durable_seq, sealed_seq, flush, fileVars>>

\* write_append_batch() returned an error.
WriterFail ==
    /\ batch.phase = "failed"
    /\ FailStream(batch.cause)
    /\ batch' = NoBatch
    /\ UNCHANGED <<clientVars, tickets, queue, incarnation, owners, closing, written_seq,
                   durable_seq, requested_seq, sealed_seq, segments, flush, fileVars>>

\* Mutant: the seal does not ask for the flush it depends on.
SealOutcome_NoRequest(c) ==
    LET seg == [segments[c.start] EXCEPT !.sealed_end = c.seq] IN
    /\ IF error = "none" /\ seg.state = "open"
       THEN segments' = [segments EXCEPT ![c.start] = seg]
       ELSE UNCHANGED segments
    /\ UNCHANGED <<registered, error, sealed_seq, requested_seq>>

\* Seal through c.seq: a clean durable segment is dropped at once, otherwise
\* a flush is requested and the flusher drops it.  A segment without a handle
\* was loaded from an earlier process and must be durable by the seed.
SealOutcome(c) ==
    LET seg == [segments[c.start] EXCEPT !.sealed_end = c.seq] IN
    CASE error # "none" -> UNCHANGED <<registered, error, segments, sealed_seq, requested_seq>>
      [] error = "none" /\ seg.state = "open" ->
            /\ IF durable_seq >= c.seq /\ seg.flushed_epoch >= seg.write_epoch
               THEN /\ segments' = [segments EXCEPT ![c.start] = [seg EXCEPT !.state = "closed"]]
                    /\ sealed_seq' = MaxOf(sealed_seq, c.seq)
                    /\ UNCHANGED requested_seq
               ELSE /\ segments' = [segments EXCEPT ![c.start] = seg]
                    /\ requested_seq' = MaxOf(requested_seq, c.seq)
                    /\ UNCHANGED sealed_seq
            /\ UNCHANGED <<registered, error>>
      [] error = "none" /\ seg.state # "open" /\ durable_seq >= c.seq ->
            /\ sealed_seq' = MaxOf(sealed_seq, c.seq)
            /\ UNCHANGED <<registered, error, segments, requested_seq>>
      [] error = "none" /\ seg.state # "open" /\ durable_seq < c.seq ->
            /\ FailStream("seal")
            /\ UNCHANGED <<segments, sealed_seq, requested_seq>>

WriterSeal ==
    /\ batch.phase = "idle"
    /\ NextIs("seal")
    /\ SealOutcome(Head(queue))
    /\ queue' = Tail(queue)
    /\ UNCHANGED <<clientVars, tickets, batch, incarnation, owners, closing, written_seq,
                   durable_seq, flush, fileVars>>

WriterOpen ==
    /\ batch.phase = "idle"
    /\ NextIs("open")
    /\ owners' = owners + 1
    /\ closing' = FALSE
    /\ queue' = Tail(queue)
    /\ UNCHANGED <<clientVars, tickets, batch, registered, incarnation, written_seq,
                   durable_seq, requested_seq, sealed_seq, segments, error,
                   flush, fileVars>>

\* Mutant: the release does not ask for the written records.
WriterRelease_NoRequest ==
    LET left == IF owners = 0 THEN 0 ELSE owners - 1
        shut == closing \/ left = 0
    IN
    /\ batch.phase = "idle"
    /\ NextIs("release")
    /\ owners' = left
    /\ closing' = shut
    /\ registered' = StillRegistered(left, shut, error, durable_seq, written_seq)
    /\ queue' = Tail(queue)
    /\ UNCHANGED <<clientVars, tickets, batch, incarnation, requested_seq, written_seq,
                   durable_seq, sealed_seq, segments, error, flush, fileVars>>

\* Release: ask for everything written, give up ownership, perhaps retire.
\* The releasing store then waits for the durable target.
WriterRelease ==
    LET left == IF owners = 0 THEN 0 ELSE owners - 1
        shut == closing \/ left = 0
    IN
    /\ batch.phase = "idle"
    /\ NextIs("release")
    /\ owners' = left
    /\ closing' = shut
    /\ requested_seq' = MaxOf(requested_seq, written_seq)
    /\ registered' = StillRegistered(left, shut, error, durable_seq, written_seq)
    /\ tickets' = tickets \cup {[seq |-> written_seq, goal |-> "durable"]}
    /\ queue' = Tail(queue)
    /\ UNCHANGED <<clientVars, batch, incarnation, written_seq, durable_seq, sealed_seq,
                   segments, error, flush, fileVars>>

\* flush_all() continues after its barrier: request and await what is written.
WriterBarrier ==
    /\ batch.phase = "idle"
    /\ NextIs("barrier")
    /\ IF registered
       THEN /\ requested_seq' = MaxOf(requested_seq, written_seq)
            /\ tickets' = tickets \cup {[seq |-> written_seq, goal |-> "durable"]}
       ELSE UNCHANGED <<requested_seq, tickets>>
    /\ queue' = Tail(queue)
    /\ UNCHANGED <<clientVars, batch, registered, incarnation, owners, closing,
                   written_seq, durable_seq, sealed_seq, segments, error,
                   flush, fileVars>>

-----------------------------------------------------------------------------
(***************************************************************************)
(* The flusher thread (next_flush_work, flusher_loop).  The coalescing     *)
(* sleeps only delay the pick: their conditions are tested again under the *)
(* lock that takes the snapshot.                                           *)
(***************************************************************************)

\* Mutant: a failed fsync is tried again.
FlushWanted_Retry ==
    registered /\ requested_seq > durable_seq /\ written_seq >= requested_seq

FlushWanted ==
    /\ registered
    /\ error = "none"
    /\ requested_seq > durable_seq
    /\ written_seq >= requested_seq

FlushPick ==
    LET snapshot == {s \in Starts : Dirty(s) /\ segments[s].last_seq <= written_seq} IN
    /\ ~flush.active
    /\ FlushWanted
    /\ snapshot # {}
    /\ flush' = [active |-> TRUE, incarnation |-> incarnation, target |-> written_seq,
                 epoch |-> [s \in Starts |-> IF s \in snapshot
                                             THEN segments[s].write_epoch ELSE 0],
                 todo |-> snapshot, failed |-> FALSE]
    /\ UNCHANGED <<clientVars, tickets, queue, batch, streamVars, fileVars>>

\* Nothing dirty: the written frontier is durable already.  A defence of the
\* code that no run takes: a segment becomes clean only in the step that moves
\* the durable frontier past it.
FlushClean ==
    LET durable == MaxOf(durable_seq, written_seq) IN
    /\ ~flush.active
    /\ FlushWanted
    /\ \A s \in Starts : ~(Dirty(s) /\ segments[s].last_seq <= written_seq)
    /\ durable_seq' = durable
    /\ CloseReadySegments(segments, durable)
    /\ registered' = StillRegistered(owners, closing, error, durable, written_seq)
    /\ UNCHANGED <<clientVars, tickets, queue, batch, incarnation, owners, closing,
                   written_seq, requested_seq, error, flush, fileVars>>

NextFlushWork ==
    IF \E s \in Starts : Dirty(s) /\ segments[s].last_seq <= written_seq
    THEN FlushPick
    ELSE FlushClean

\* sync_all() of the next segment in start order.
FlushSync(s) ==
    /\ flush.active /\ ~flush.failed
    /\ s \in flush.todo
    /\ \A other \in flush.todo : s <= other
    /\ disk' = [disk EXCEPT ![s] = file[s]]
    /\ flush' = [flush EXCEPT !.todo = @ \ {s}]
    /\ UNCHANGED <<clientVars, tickets, queue, batch, streamVars, file>>

FlushSyncFails ==
    /\ flush.active /\ ~flush.failed
    /\ flush.todo # {}
    /\ flush' = [flush EXCEPT !.failed = TRUE]
    /\ UNCHANGED <<clientVars, tickets, queue, batch, streamVars, fileVars>>

\* The outcome of a flush for a stream that was retired (and perhaps opened
\* again) meanwhile is dropped.
FlushIsCurrent == registered /\ flush.incarnation = incarnation

\* Mutant: marks clean what was written while the fsync ran.
FlushedSegments_LateEpoch ==
    [s \in Starts |->
        IF segments[s].state = "open" /\ flush.epoch[s] # 0
        THEN [segments[s] EXCEPT !.flushed_epoch = segments[s].write_epoch]
        ELSE segments[s]]

FlushedSegments ==
    [s \in Starts |->
        IF segments[s].state = "open"
        THEN [segments[s] EXCEPT !.flushed_epoch = MaxOf(@, flush.epoch[s])]
        ELSE segments[s]]

FlushDone ==
    LET durable == MaxOf(durable_seq, flush.target) IN
    /\ flush.active /\ ~flush.failed /\ flush.todo = {}
    /\ flush' = NoFlush
    /\ IF FlushIsCurrent
       THEN /\ durable_seq' = durable
            /\ CloseReadySegments(FlushedSegments, durable)
            /\ registered' = StillRegistered(owners, closing, error, durable, written_seq)
       ELSE UNCHANGED <<durable_seq, segments, sealed_seq, registered>>
    /\ UNCHANGED <<clientVars, tickets, queue, batch, incarnation, owners, closing,
                   written_seq, requested_seq, error, fileVars>>

FlushFailed ==
    /\ flush.active /\ flush.failed
    /\ flush' = NoFlush
    /\ IF FlushIsCurrent THEN FailStream("flush") ELSE UNCHANGED <<error, registered>>
    /\ UNCHANGED <<clientVars, tickets, queue, batch, incarnation, owners, closing,
                   written_seq, durable_seq, requested_seq, sealed_seq, segments,
                   fileVars>>

-----------------------------------------------------------------------------
Init ==
    /\ \E seed \in Seeds :
          /\ next_sequence = seed + 1
          /\ segment_start \in {1, seed + 1}
          /\ written_seq = seed /\ durable_seq = seed /\ requested_seq = seed
          /\ file = [s \in Starts |-> IF s = 1 THEN 1..seed ELSE {}]
          /\ disk = file
    /\ handles = 1
    /\ tickets = {}
    /\ queue = <<>>
    /\ batch = NoBatch
    /\ registered = TRUE
    /\ incarnation = 1
    /\ owners = 1
    /\ closing = FALSE
    /\ sealed_seq = 0
    /\ segments = [s \in Starts |-> NoSegment]
    /\ error = "none"
    /\ flush = NoFlush

Client ==
    \/ \E durable \in BOOLEAN : SubmitAppend(durable)
    \/ SubmitSeal
    \/ RequestFlush
    \/ SubmitOpen
    \/ SubmitRelease
    \/ SubmitBarrier

Return == \E t \in tickets : TicketOk(t) \/ TicketErr(t)

Writer ==
    \/ WriterCollect \/ WriterExtend \/ WriterSkip
    \/ WriterWrite \/ WriterWriteFails \/ WriterPublish \/ WriterFail
    \/ WriterSeal \/ WriterOpen \/ WriterRelease \/ WriterBarrier

Flusher ==
    \/ NextFlushWork
    \/ \E s \in Starts : FlushSync(s)
    \/ FlushSyncFails
    \/ FlushDone \/ FlushFailed

Next == Client \/ Return \/ Writer \/ Flusher

Spec == Init /\ [][Next]_vars

\* The writer and the flusher are dedicated threads that never stop, and a
\* waiter is notified after every state change it may be waiting for.
FairSpec ==
    /\ Spec
    /\ WF_vars(Writer)
    /\ WF_vars(Flusher)
    /\ \A t \in Ticket : WF_vars(TicketOk(t) \/ TicketErr(t))

-----------------------------------------------------------------------------
(***************************************************************************)
(* Properties.                                                             *)
(***************************************************************************)

OnMedium(n) == \E s \in Starts : n \in disk[s]

\* The durable frontier never runs ahead of fsync: every record up to
\* durable_seq is on the medium, although the writer appends and publishes
\* while the flusher's snapshot is being synced (next_flush_work and
\* flusher_loop against write_append_batch).
DurableIsSynced == \A n \in 1..durable_seq : OnMedium(n)

\* A granted seal means that the sealed prefix is durable and that the runtime
\* holds no handle on a segment that ends inside it, so that the checkpoint
\* may publish its snapshot and delete the files (close_ready_segments, Seal).
SealedIsClosed ==
    /\ sealed_seq <= durable_seq
    /\ \A s \in Starts :
          segments[s].state = "open" /\ segments[s].last_seq # 0
              => segments[s].last_seq > sealed_seq

\* The runtime's own consistency errors are unreachable: the coordinator's
\* numbers always continue the written frontier, no batch loses its segment,
\* and no seal meets an unknown segment that is not durable.
NoConsistencyError == error \notin {"sequence", "seal", "segment"}

\* A stream leaves the map only when nothing is left to write for it, and
\* without an error only when every submitted record is on the medium: the
\* close of the last store is a full drain (retire_closed_stream).
RetiredIsComplete ==
    ~registered =>
        /\ batch.phase = "idle"
        /\ \A i \in DOMAIN queue : queue[i].op \notin {"append", "seal"}
        /\ error = "none" => \A n \in 1..(next_sequence - 1) : OnMedium(n)

\* After a failed fsync the durable frontier never moves again: a later fsync
\* that succeeds proves nothing about the pages lost by the first.
FlushFailureIsFinal ==
    [][error = "flush" => durable_seq' = durable_seq]_vars

\* Every wait returns, with success or an error: no append, seal, flush,
\* release or exit flush is left blocked on the condition variable.
TicketsReturn == \A t \in Ticket : t \in tickets ~> t \notin tickets

\* Once the last handle is released the stream is eventually retired.
ReleaseRetires == handles = 0 ~> ~registered
=============================================================================
