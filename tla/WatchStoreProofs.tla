-------------------------- MODULE WatchStoreProofs --------------------------
(***************************************************************************)
(* For every number of transactions, batches, segments, checkpoints and    *)
(* reopenings, and any combination of faults: no checkpoint deletes what   *)
(* its snapshot does not cover, a snapshot never runs ahead of the durable *)
(* journal, and no power loss can take what a durable commit waited for.   *)
(* When the process or the power fails, but not both, every load succeeds, *)
(* nothing follows an incomplete frame, and the store implements its       *)
(* abstract log.                                                           *)
(***************************************************************************)
EXTENDS WatchStore, FiniteSetTheorems, TLAPS

(***************************************************************************)
(* The journal inside the store.  Seen through the store, its files lose   *)
(* the segments a checkpoint deletes, and its medium lacks what load has   *)
(* seeded as durable.  With those records put back, and with the work of a *)
(* flusher for an earlier incarnation left out, its invariant holds.       *)
(***************************************************************************)

\* What the journal need not keep: its seed, and what every snapshot that a
\* power loss may leave contains.
Covered == {n \in Seqs : n <= seeded \/ \A m \in snapshot_maybe : n <= m}

JFile == [s \in Starts |-> IF s = 1 THEN file[s] \cup Covered ELSE file[s]]
JDisk == [s \in Starts |-> IF s = 1 THEN disk[s] \cup Covered ELSE disk[s]]
JFlush == IF flush.active /\ flush.incarnation = incarnation THEN flush ELSE NoFlush

J == INSTANCE WatchJournalChainProofs WITH file <- JFile, disk <- JDisk, flush <- JFlush

(***************************************************************************)
(* The inductive invariant of the store, by what each part is about.       *)
(***************************************************************************)

Up == mode \in {"open", "closing", "releasing", "closed"}

\* A checkpoint that has captured its boundary.
Captured == ckpt.phase \in {"seal", "write", "sync", "retire", "finish"}

\* Record n is in segment s, or on its way there.
Holds(s, n) ==
    \/ n \in file[s]
    \/ batch.phase # "idle" /\ batch.start = s /\ n \in batch.first..batch.last
    \/ \E i \in 1..Len(queue) : queue[i].op = "append" /\ queue[i].start = s /\ queue[i].seq = n

\* The sequence numbers up to which a segment may be deleted, now or later.
Marks == {checkpoint_seq, snapshot} \cup snapshot_maybe
             \cup (IF Captured THEN {ckpt.boundary} ELSE {})

FileInv ==
    /\ flush \in FlushWork /\ flush.incarnation <= incarnation
    /\ file \in [Starts -> SUBSET Seqs] /\ disk \in [Starts -> SUBSET Seqs]
    /\ \A s \in Starts : disk[s] \subseteq file[s] /\ (file[s] # {} => s \in present)
    /\ batch.phase = "written" => batch.first..batch.last \subseteq file[batch.start]

\* The coordinator and the channel, as the store uses them.
CoordInv ==
    /\ applied_seq = next_sequence - 1
    /\ written_seq < next_sequence
    /\ segment_start <= next_sequence
    /\ \A i \in 1..Len(queue) :
          /\ queue[i].op \in {"append", "seal", "release"}
          /\ queue[i].op = "release" => mode = "releasing" /\ i = Len(queue)
    /\ handles <= 1 /\ (mode = "releasing" => handles = 0)
    /\ mode = "releasing" /\ queue # <<>> => tickets = {}
    /\ mode \in {"closed", "down", "refused"} => queue = <<>> /\ handles = 0

\* No segment crosses a mark, and new records go beyond all of them.
CutInv ==
    /\ \A s \in Starts, n \in Seqs : Holds(s, n) =>
          /\ s <= n
          /\ Up => n < next_sequence
          /\ \A m \in Marks : s <= m => n <= m
    /\ Up => \A m \in Marks : m < segment_start

MarkInv ==
    /\ snapshot \in snapshot_maybe
    /\ \A m \in snapshot_maybe : m <= snapshot
    /\ Up => checkpoint_seq <= snapshot
    /\ Up => checkpoint_seq <= seeded \/ \A m \in snapshot_maybe : checkpoint_seq <= m
    /\ ~At("idle") => mode \in {"open", "closing"}
    /\ Captured => snapshot <= ckpt.boundary
    /\ At("sync") => snapshot = ckpt.boundary
    /\ At("retire") \/ At("finish") => snapshot_maybe = {ckpt.boundary}

FrontInv ==
    /\ Up => snapshot <= durable_seq
    /\ ckpt.phase \in {"write", "sync", "retire", "finish"} => ckpt.boundary <= durable_seq
    /\ At("seal") => ckpt.boundary = segment_start - 1
    /\ Up /\ ~persistence_fault /\ ~At("seal") => segment_start - 1 <= durable_seq

StoreInv ==
    /\ StoreTypeOK
    /\ FileInv
    /\ CoordInv
    /\ CutInv
    /\ MarkInv
    /\ FrontInv
    /\ WrittenIsRecoverable

-----------------------------------------------------------------------------
(***************************************************************************)
(* The journal's definitions, read through the substitution.               *)
(***************************************************************************)

LEMMA JCard == \A S : J!Cardinality(S) = Cardinality(S)
BY Zenon DEF J!Cardinality, Cardinality

LEMMA JSets ==
    /\ J!Starts = Starts /\ J!Seqs = Seqs
    /\ J!Command = Command /\ J!Ticket = Ticket /\ J!Segment = Segment
    /\ J!Batch = Batch /\ J!FlushWork = FlushWork /\ J!Errors = Errors
    /\ J!NoBatch = NoBatch /\ J!NoSegment = NoSegment /\ J!NoFlush = NoFlush
<1>1. J!Starts = Starts /\ J!Seqs = Seqs /\ J!Errors = Errors
  BY DEF J!Starts, Starts, J!Seqs, Seqs, J!Errors, Errors
<1>2. J!Command = Command /\ J!Ticket = Ticket
  BY DEF J!Command, Command, J!Ticket, Ticket, J!Ops, Ops, J!Goals, Goals
<1>3. J!Segment = Segment /\ J!NoSegment = NoSegment
  BY DEF J!Segment, Segment, J!NoSegment, NoSegment
<1>4. J!Batch = Batch /\ J!NoBatch = NoBatch
  BY <1>1 DEF J!Batch, Batch, J!NoBatch, NoBatch
<1>5. J!FlushWork = FlushWork /\ J!NoFlush = NoFlush
  BY <1>1 DEF J!FlushWork, FlushWork, J!NoFlush, NoFlush
<1>6. QED
  BY <1>1, <1>2, <1>3, <1>4, <1>5

LEMMA JMax == \A a, b : J!MaxOf(a, b) = MaxOf(a, b)
BY DEF J!MaxOf, MaxOf

\* What the journal's invariant says of the types.
LEMMA TypeFacts ==
    ASSUME J!IInv, FileInv
    PROVE  TypeOK
<1>1. J!TypeOK
  BY DEF J!IInv
<1>2. QED
  BY <1>1, JSets DEF J!TypeOK, TypeOK, FileInv

\* What the substituted variables depend on.
LEMMA JFrame ==
    /\ UNCHANGED <<seeded, snapshot_maybe>> => Covered' = Covered
    /\ UNCHANGED <<file, seeded, snapshot_maybe>> => JFile' = JFile
    /\ UNCHANGED <<disk, seeded, snapshot_maybe>> => JDisk' = JDisk
    /\ UNCHANGED <<flush, incarnation>> => JFlush' = JFlush
<1>1. UNCHANGED <<seeded, snapshot_maybe>> => Covered' = Covered
  BY DEF Covered
<1>2. UNCHANGED <<file, seeded, snapshot_maybe>> => JFile' = JFile
  BY <1>1 DEF JFile
<1>3. UNCHANGED <<disk, seeded, snapshot_maybe>> => JDisk' = JDisk
  BY <1>1 DEF JDisk
<1>4. UNCHANGED <<flush, incarnation>> => JFlush' = JFlush
  BY DEF JFlush, NoFlush
<1>5. QED
  BY <1>1, <1>2, <1>3, <1>4

\* The clients' steps, the store's sends, are steps of the journal.
LEMMA JClient ==
    ASSUME UNCHANGED <<seeded, snapshot_maybe>>,
           (\E d \in BOOLEAN : SubmitAppend(d)) \/ SubmitSeal \/ RequestFlush \/ SubmitRelease
    PROVE  J!Client
<1>1. UNCHANGED <<file, disk, flush, incarnation>>
  BY DEF SubmitAppend, SubmitSeal, RequestFlush, SubmitRelease, streamVars, fileVars
<1>2. UNCHANGED <<JFile, JDisk, JFlush>>
  BY <1>1, JFrame
<1>3. J!MaySubmit <=> MaySubmit
  BY JCard DEF J!MaySubmit, MaySubmit
<1>4. ASSUME NEW d \in BOOLEAN, SubmitAppend(d) PROVE J!SubmitAppend(d)
  BY <1>2, <1>3, <1>4 DEF SubmitAppend, J!SubmitAppend, streamVars, J!streamVars, J!fileVars
<1>5. ASSUME SubmitSeal PROVE J!SubmitSeal
  BY <1>2, <1>3, <1>5 DEF SubmitSeal, J!SubmitSeal, streamVars, J!streamVars, J!fileVars
<1>6. ASSUME RequestFlush PROVE J!RequestFlush
  BY <1>2, <1>6, JCard, JMax DEF RequestFlush, J!RequestFlush, clientVars, J!clientVars, J!fileVars
<1>7. ASSUME SubmitRelease PROVE J!SubmitRelease
  BY <1>2, <1>3, <1>7 DEF SubmitRelease, J!SubmitRelease, Control, J!Control, streamVars,
     J!streamVars, J!fileVars
<1>8. QED
  BY <1>4, <1>5, <1>6, <1>7, Zenon DEF J!Client

\* A wait that returns.
LEMMA JReturn ==
    ASSUME UNCHANGED <<seeded, snapshot_maybe>>, NEW t, TicketOk(t) \/ TicketErr(t)
    PROVE  J!Return
<1>1. UNCHANGED <<JFile, JDisk, JFlush>>
  BY JFrame DEF TicketOk, TicketErr, streamVars, fileVars
<1>2. t \in tickets /\ (J!Reached(t) <=> Reached(t))
  BY DEF TicketOk, TicketErr, Reached, J!Reached
<1>3. J!TicketOk(t) \/ J!TicketErr(t)
  BY <1>1, <1>2 DEF TicketOk, TicketErr, J!TicketOk, J!TicketErr, clientVars, J!clientVars,
     streamVars, J!streamVars, J!fileVars
<1>4. QED
  BY <1>2, <1>3 DEF J!Return

\* The writer's steps that leave the files alone.
LEMMA JFail ==
    \A c : FailStream(c) <=> J!FailStream(c)
BY DEF FailStream, J!FailStream, FirstError, J!FirstError, StillRegistered, J!StillRegistered

LEMMA JSeal ==
    ASSUME NEW c
    PROVE  SealOutcome(c) <=> J!SealOutcome(c)
<1>1. FailStream("seal") <=> J!FailStream("seal")
  BY JFail
<1>2. J!MaxOf(sealed_seq, c.seq) = MaxOf(sealed_seq, c.seq)
      /\ J!MaxOf(requested_seq, c.seq) = MaxOf(requested_seq, c.seq)
  BY JMax
<1>3. QED
  BY <1>1, <1>2, SMT DEF SealOutcome, J!SealOutcome

LEMMA JNextIs == \A op : J!NextIs(op) <=> NextIs(op)
BY DEF J!NextIs, NextIs

LEMMA JCanExtend == J!CanExtend <=> CanExtend
BY JNextIs DEF J!CanExtend, CanExtend

LEMMA JWriter ==
    ASSUME UNCHANGED <<seeded, snapshot_maybe>>,
           \/ WriterCollect \/ WriterExtend \/ WriterSkip \/ WriterPublish
           \/ WriterFail \/ WriterSeal \/ WriterRelease
    PROVE  J!Writer
<1>1. UNCHANGED <<file, disk, flush, incarnation>>
  BY DEF WriterCollect, WriterExtend, WriterSkip, WriterPublish, WriterFail, WriterSeal,
     WriterRelease, streamVars, fileVars
<1>2. UNCHANGED <<JFile, JDisk, JFlush>>
  BY <1>1, JFrame
<1> USE <1>2, JNextIs, JCanExtend, JSets, JMax, JFail
        DEF clientVars, J!clientVars, streamVars, J!streamVars, J!fileVars
<1>3. ASSUME WriterCollect PROVE J!WriterCollect
  BY <1>3 DEF WriterCollect, J!WriterCollect
<1>4. ASSUME WriterExtend PROVE J!WriterExtend
  BY <1>4 DEF WriterExtend, J!WriterExtend
<1>5. ASSUME WriterSkip PROVE J!WriterSkip
  BY <1>5 DEF WriterSkip, J!WriterSkip
<1>6. ASSUME WriterPublish PROVE J!WriterPublish
  BY <1>6 DEF WriterPublish, J!WriterPublish, PublishedSegment, J!PublishedSegment
<1>7. ASSUME WriterFail PROVE J!WriterFail
  BY <1>7 DEF WriterFail, J!WriterFail
<1>8. ASSUME WriterSeal PROVE J!WriterSeal
  BY <1>8, JSeal DEF WriterSeal, J!WriterSeal
<1>9. ASSUME WriterRelease PROVE J!WriterRelease
  BY <1>9 DEF WriterRelease, J!WriterRelease, StillRegistered, J!StillRegistered
<1>10. QED
  BY <1>3, <1>4, <1>5, <1>6, <1>7, <1>8, <1>9, Zenon DEF J!Writer

\* The writer's steps that append to a file.
LEMMA JWriterFile ==
    ASSUME UNCHANGED <<seeded, snapshot_maybe>>, WriterWrite \/ WriterWriteFails,
           batch.start \in Starts, file \in [Starts -> SUBSET Seqs]
    PROVE  J!Writer
<1>1. UNCHANGED <<disk, flush, incarnation>>
  BY DEF WriterWrite, WriterWriteFails
<1>2. UNCHANGED <<Covered, JDisk, JFlush>>
  BY <1>1, JFrame
<1>3. ASSUME NEW b \in Starts, NEW R, file' = [file EXCEPT ![b] = @ \cup R]
      PROVE  JFile' = [JFile EXCEPT ![b] = @ \cup R]
  BY <1>2, <1>3 DEF JFile
<1>4. J!OpenedSegment(batch.start) = OpenedSegment(batch.start) /\ (J!Monotonic <=> Monotonic)
  BY JSets DEF J!OpenedSegment, OpenedSegment, J!Monotonic, Monotonic
<1>5. ASSUME WriterWrite PROVE J!WriterWrite
  <2>1. JFile' = [JFile EXCEPT ![batch.start] = @ \cup (batch.first..batch.last)]
    BY <1>3, <1>5 DEF WriterWrite
  <2>2. QED
    BY <1>2, <1>4, <1>5, <2>1, JCanExtend DEF WriterWrite, J!WriterWrite, clientVars, J!clientVars
<1>6. ASSUME WriterWriteFails PROVE J!WriterWriteFails
  <2>1. file' = file => JFile' = JFile
    BY <1>2 DEF JFile
  <2>2. \A upto : file' = [file EXCEPT ![batch.start] = @ \cup (batch.first..upto)]
                  => JFile' = [JFile EXCEPT ![batch.start] = @ \cup (batch.first..upto)]
    BY <1>3
  <2>3. QED
    BY <1>2, <1>4, <1>6, <2>1, <2>2, JCanExtend
    DEF WriterWriteFails, J!WriterWriteFails, clientVars, J!clientVars
<1>7. QED
  BY <1>5, <1>6, Zenon DEF J!Writer

\* The flusher's steps for the current incarnation, and those for an earlier
\* one.  The outcome of such work is dropped, but what it syncs is synced.
Stale == flush.active /\ flush.incarnation # incarnation

LEMMA JDirty == \A s : J!Dirty(s) <=> Dirty(s)
BY DEF J!Dirty, Dirty

LEMMA JReady ==
    ASSUME NEW segs, NEW dur
    PROVE  CloseReadySegments(segs, dur) <=> J!CloseReadySegments(segs, dur)
BY JSets DEF CloseReadySegments, J!CloseReadySegments, ReadySegments, J!ReadySegments

LEMMA JFlusher ==
    ASSUME UNCHANGED <<seeded, snapshot_maybe>>, FileInv,
           \/ NextFlushWork \/ FlushDone \/ FlushFailed \/ FlushSyncFails
           \/ \E s \in Starts : FlushSync(s)
    PROVE  \/ J!Flusher
           \/ UNCHANGED J!vars
           \/ /\ Stale /\ UNCHANGED <<clientVars, tickets, queue, batch, streamVars, JFile, JFlush>>
              /\ \E s \in Starts : JDisk' = [JDisk EXCEPT ![s] = JFile[s]]
<1>1. UNCHANGED <<file, incarnation>>
  BY DEF NextFlushWork, FlushPick, FlushClean, FlushDone, FlushFailed, FlushSyncFails, FlushSync,
     streamVars, fileVars
<1>2. UNCHANGED <<Covered, JFile>>
  BY <1>1, JFrame
<1>3. flush \in FlushWork /\ NoFlush.active = FALSE
  BY DEF FileInv, NoFlush
<1>4. (~flush.active => JFlush = NoFlush) /\ (flush.active /\ ~Stale => JFlush = flush)
      /\ (Stale => JFlush = NoFlush)
  BY DEF JFlush, Stale
<1>5. UNCHANGED disk => UNCHANGED JDisk
  BY <1>2 DEF JDisk
<1> USE JSets, JMax, JDirty
        DEF clientVars, J!clientVars, streamVars, J!streamVars, fileVars, J!fileVars
<1>6. ASSUME FlushPick PROVE J!FlushPick
  BY <1>2, <1>3, <1>4, <1>5, <1>6 DEF FlushPick, J!FlushPick, FlushWanted, J!FlushWanted, JFlush
<1>7. ASSUME FlushClean PROVE J!FlushClean
  BY <1>2, <1>3, <1>4, <1>5, <1>7, JReady
  DEF FlushClean, J!FlushClean, FlushWanted, J!FlushWanted, StillRegistered, J!StillRegistered, JFlush
<1>8. ASSUME FlushDone PROVE J!FlushDone \/ UNCHANGED J!vars
  <2>1. flush.active /\ flush' = NoFlush /\ JFlush' = NoFlush /\ UNCHANGED JDisk
    BY <1>3, <1>5, <1>8 DEF FlushDone, JFlush
  <2>2. CASE Stale
    <3>1. ~FlushIsCurrent
      BY <2>2 DEF FlushIsCurrent, Stale
    <3>2. UNCHANGED <<durable_seq, segments, sealed_seq, registered>>
      BY <1>8, <3>1, Zenon DEF FlushDone
    <3>3. QED
      BY <1>2, <1>4, <1>8, <2>1, <2>2, <3>2 DEF FlushDone, J!vars
  <2>3. CASE ~Stale
    <3>1. JFlush = flush
      BY <1>4, <2>1, <2>3
    <3>2. J!FlushedSegments = FlushedSegments /\ (J!FlushIsCurrent <=> FlushIsCurrent)
      BY <3>1 DEF FlushedSegments, J!FlushedSegments, FlushIsCurrent, J!FlushIsCurrent
    <3>3. QED
      BY <1>2, <1>8, <2>1, <3>1, <3>2, JReady
      DEF FlushDone, J!FlushDone, StillRegistered, J!StillRegistered
  <2>4. QED
    BY <2>2, <2>3
<1>9. ASSUME FlushFailed PROVE J!FlushFailed \/ UNCHANGED J!vars
  <2>1. flush.active /\ flush' = NoFlush /\ JFlush' = NoFlush /\ UNCHANGED JDisk
    BY <1>3, <1>5, <1>9 DEF FlushFailed, JFlush
  <2>2. CASE Stale
    <3>1. ~FlushIsCurrent
      BY <2>2 DEF FlushIsCurrent, Stale
    <3>2. UNCHANGED <<error, registered>>
      BY <1>9, <3>1, Zenon DEF FlushFailed
    <3>3. QED
      BY <1>2, <1>4, <1>9, <2>1, <2>2, <3>2 DEF FlushFailed, J!vars
  <2>3. CASE ~Stale
    <3>1. JFlush = flush
      BY <1>4, <2>1, <2>3
    <3>2. J!FlushIsCurrent <=> FlushIsCurrent
      BY <3>1 DEF FlushIsCurrent, J!FlushIsCurrent
    <3>3. QED
      BY <1>2, <1>9, <2>1, <3>1, <3>2, JFail DEF FlushFailed, J!FlushFailed
  <2>4. QED
    BY <2>2, <2>3
<1>10. ASSUME FlushSyncFails PROVE J!FlushSyncFails \/ UNCHANGED J!vars
  <2>1. /\ flush.active /\ ~flush.failed /\ flush.todo # {} /\ UNCHANGED JDisk
        /\ flush' = [flush EXCEPT !.failed = TRUE]
    BY <1>5, <1>10 DEF FlushSyncFails
  <2>2. flush'.active /\ flush'.incarnation = flush.incarnation
    BY <1>3, <2>1 DEF FlushWork
  <2>3. CASE Stale
    <3>1. UNCHANGED JFlush
      BY <1>1, <1>4, <2>2, <2>3 DEF JFlush, Stale
    <3>2. QED
      BY <1>2, <1>10, <2>1, <3>1 DEF FlushSyncFails, J!vars
  <2>4. CASE ~Stale
    <3>1. JFlush = flush /\ JFlush' = flush'
      BY <1>1, <1>4, <2>1, <2>2, <2>4 DEF JFlush, Stale
    <3>2. QED
      BY <1>2, <1>10, <2>1, <3>1 DEF FlushSyncFails, J!FlushSyncFails
  <2>5. QED
    BY <2>3, <2>4
<1>11. ASSUME NEW s \in Starts, FlushSync(s)
       PROVE  \/ J!FlushSync(s)
              \/ /\ Stale /\ UNCHANGED <<clientVars, tickets, queue, batch, streamVars, JFile, JFlush>>
                 /\ JDisk' = [JDisk EXCEPT ![s] = JFile[s]]
  <2>1. /\ flush.active /\ ~flush.failed /\ s \in flush.todo
        /\ \A other \in flush.todo : s <= other
        /\ disk' = [disk EXCEPT ![s] = file[s]]
        /\ flush' = [flush EXCEPT !.todo = @ \ {s}]
    BY <1>11, Zenon DEF FlushSync
  <2>2. flush'.active /\ flush'.incarnation = flush.incarnation
    BY <1>3, <2>1 DEF FlushWork
  <2>3. JDisk' = [JDisk EXCEPT ![s] = JFile[s]]
    BY <1>2, <2>1 DEF JDisk, JFile, FileInv
  <2>4. CASE Stale
    <3>1. UNCHANGED JFlush
      BY <1>1, <1>4, <2>2, <2>4 DEF JFlush, Stale
    <3>2. QED
      BY <1>2, <1>11, <2>3, <2>4, <3>1 DEF FlushSync
  <2>5. CASE ~Stale
    <3>1. JFlush = flush /\ JFlush' = flush'
      BY <1>1, <1>4, <2>1, <2>2, <2>5 DEF JFlush, Stale
    <3>2. QED
      BY <1>2, <1>11, <2>1, <2>3, <3>1 DEF FlushSync, J!FlushSync
  <2>6. QED
    BY <2>4, <2>5
<1>12. QED
  BY <1>6, <1>7, <1>8, <1>9, <1>10, <1>11, Zenon DEF NextFlushWork, J!NextFlushWork, J!Flusher

-----------------------------------------------------------------------------
(***************************************************************************)
(* What keeps the journal's invariant: its own steps, and what the store   *)
(* does to its files and its memory.                                       *)
(***************************************************************************)

JInv == J!IInv /\ J!CInv

LEMMA JStep ==
    ASSUME JInv, J!Next \/ UNCHANGED J!vars
    PROVE  JInv'
<1>1. [J!Next]_(J!vars)
  OBVIOUS
<1>2. J!IInv'
  BY <1>1, J!NextIInv, BoundsAssumption DEF JInv
<1>3. J!CInv'
  BY <1>1, J!NextCInv, BoundsAssumption DEF JInv
<1>4. QED
  BY <1>2, <1>3 DEF JInv

\* Records may be forced to the medium, and may move from a file to the seed.
LEMMA JFiles ==
    ASSUME JInv,
           UNCHANGED <<clientVars, tickets, queue, batch, streamVars, JFlush>>,
           JFile' \in [Starts -> SUBSET Seqs], JDisk' \in [Starts -> SUBSET Seqs],
           \A s \in Starts : JDisk'[s] \subseteq JFile'[s],
           \A s \in Starts : \A n \in JDisk[s] : \E t \in Starts : n \in JDisk'[t],
           \A s \in Starts : \A n \in JFile[s] :
               n \in JFile'[s] \/ \E t \in Starts : n \in JDisk'[t],
           \A s \in Starts : \A n \in JFile'[s] : \/ n \in JDisk'[s]
                                                  \/ n \in JFile[s] /\ n \notin JDisk[s],
           batch.phase = "written" => batch.first..batch.last \subseteq JFile'[batch.start]
    PROVE  JInv'
<1> USE DEF clientVars, streamVars
<1>0. /\ J!TypeOK /\ J!BatchInv /\ J!OrderInv /\ J!SegmentInv /\ J!CoverInv /\ J!FlushInv
      /\ J!FrontierInv /\ J!DurableIsSynced
  BY DEF JInv, J!IInv
<1>1. J!TypeOK'
  BY <1>0, JSets DEF J!TypeOK
<1>2. J!BatchInv'
  BY <1>0 DEF J!BatchInv
<1>3. J!OrderInv' /\ J!FrontierInv'
  BY <1>0 DEF J!OrderInv, J!FrontierInv, J!Sealed
<1>4. J!SegmentInv'
  BY <1>0, JSets DEF J!SegmentInv
<1>5. J!CoverInv'
  <2>1. SUFFICES ASSUME NEW n \in 1..written_seq
                 PROVE  \E s \in Starts : \/ n \in JDisk'[s]
                                          \/ n \in JFile'[s] /\ n <= segments[s].last_seq /\ J!Dirty(s)
    BY JSets DEF J!CoverInv, J!Dirty
  <2>2. PICK s \in Starts : n \in JDisk[s] \/ (n \in JFile[s] /\ n <= segments[s].last_seq /\ J!Dirty(s))
    BY <1>0, JSets DEF J!CoverInv
  <2>3. QED
    BY <2>2
<1>6. J!FlushInv'
  <2>1. SUFFICES ASSUME JFlush.active PROVE J!FlushInv'
    BY DEF J!FlushInv
  <2>2. /\ JFlush.target <= written_seq
        /\ \A s \in Starts : JFlush.epoch[s] # 0 =>
              /\ segments[s].state # "none"
              /\ JFlush.epoch[s] <= segments[s].write_epoch
              /\ s \notin JFlush.todo /\ JFlush.epoch[s] = segments[s].write_epoch =>
                    \A n \in JFile[s] : n <= segments[s].last_seq => n \in JDisk[s]
        /\ \A n \in 1..JFlush.target : \E s \in Starts :
              n \in JDisk[s] \/ (n \in JFile[s] /\ s \in JFlush.todo)
    BY <1>0, <2>1, JSets DEF J!FlushInv
  <2>3. ASSUME NEW n \in 1..JFlush.target
        PROVE  \E s \in Starts : n \in JDisk'[s] \/ (n \in JFile'[s] /\ s \in JFlush.todo)
    <3>1. PICK s \in Starts : n \in JDisk[s] \/ (n \in JFile[s] /\ s \in JFlush.todo)
      BY <2>2
    <3>2. QED
      BY <3>1
  <2>4. ASSUME NEW s \in Starts, s \notin JFlush.todo, JFlush.epoch[s] # 0,
               JFlush.epoch[s] = segments[s].write_epoch, NEW n \in JFile'[s],
               n <= segments[s].last_seq
        PROVE  n \in JDisk'[s]
    BY <2>2, <2>4
  <2>5. QED
    BY <2>2, <2>3, <2>4, JSets DEF J!FlushInv
<1>7. J!DurableIsSynced'
  BY <1>0, JSets DEF J!DurableIsSynced, J!OnMedium
<1>8. J!CInv'
  <2>1. J!CauseInv /\ J!EndInv /\ J!CleanInv /\ J!RetireInv /\ J!ChainInv
    BY DEF JInv, J!CInv
  <2>2. J!CauseInv' /\ J!EndInv' /\ J!CleanInv' /\ J!RetireInv'
    BY <2>1 DEF J!CauseInv, J!NoConsistencyError, J!EndInv, J!CleanInv, J!Dirty, J!RetireInv
  <2>3. J!ChainInv'
    BY <2>1, SMTT(60) DEF J!ChainInv, J!Past, J!Received, J!Current, J!Sends, J!ActiveInv, J!Sealed
  <2>4. QED
    BY <2>2, <2>3 DEF J!CInv
<1>9. QED
  BY <1>1, <1>2, <1>3, <1>4, <1>5, <1>6, <1>7, <1>8 DEF JInv, J!IInv

LEMMA BlankFacts ==
    /\ NoSegment \in Segment /\ NoSegment.state = "none" /\ NoSegment.sealed_end = 0
    /\ NoSegment.last_seq = 0 /\ NoSegment.flushed_epoch = 0 /\ NoSegment.write_epoch = 0
    /\ NoBatch \in Batch /\ NoBatch.phase = "idle"
    /\ NoFlush \in FlushWork /\ NoFlush.active = FALSE
<1>1. /\ NoSegment \in Segment /\ NoSegment.state = "none" /\ NoSegment.sealed_end = 0
      /\ NoSegment.last_seq = 0 /\ NoSegment.flushed_epoch = 0 /\ NoSegment.write_epoch = 0
  BY BoundsAssumption DEF NoSegment, Segment
<1>2. NoBatch \in Batch /\ NoBatch.phase = "idle"
  BY BoundsAssumption DEF NoBatch, Batch, Errors
<1>3. NoFlush \in FlushWork /\ NoFlush.active = FALSE
  BY BoundsAssumption DEF NoFlush, FlushWork
<1>4. QED
  BY <1>1, <1>2, <1>3

\* A journal without work: one that was just seeded with all it reports as
\* durable, or none at all.
LEMMA JFresh ==
    ASSUME NEW w \in 0..MaxSeq,
           written_seq' = w, durable_seq' = w, requested_seq' = w, sealed_seq' = 0,
           next_sequence' = w + 1, segment_start' \in Starts,
           segments' = [s \in Starts |-> NoSegment], error' = "none",
           queue' = <<>>, batch' \in Batch, batch'.phase = "idle", JFlush' = NoFlush,
           tickets' \subseteq Ticket, incarnation' \in Nat, closing' = FALSE,
           handles' \in {0, 1}, owners' = handles',
           registered' \in BOOLEAN, ~registered' <=> handles' = 0,
           JFile' \in [Starts -> SUBSET Seqs], JDisk' \in [Starts -> SUBSET Seqs],
           \A s \in Starts : JDisk'[s] \subseteq JFile'[s],
           1..w \subseteq JDisk'[1]
    PROVE  JInv'
<1>0. /\ MaxSeq \in Nat /\ MaxOwners \in Nat \ {0} /\ 1 \in Starts /\ w \in Nat /\ Starts \subseteq Nat
      /\ w + 1 \in 1..(MaxSeq + 1)
  BY BoundsAssumption DEF Starts
<1>1. /\ ~JFlush'.active
      /\ \A s \in Starts : /\ segments'[s].state = "none" /\ segments'[s].sealed_end = 0
                           /\ segments'[s].last_seq = 0 /\ segments'[s].flushed_epoch = 0
                           /\ segments'[s].write_epoch = 0
  BY BlankFacts
<1>2. /\ Len(queue') = 0 /\ queue' \in Seq(Command)
      /\ \A i \in 1..Len(queue') : FALSE
  OBVIOUS
<1>3. J!TypeOK'
  <2>1. /\ segments' \in [Starts -> Segment] /\ error' \in Errors /\ JFlush' \in FlushWork
    BY BlankFacts DEF Errors
  <2>2. handles' \in 0..MaxOwners /\ owners' \in Nat
    BY <1>0
  <2>3. closing' \in BOOLEAN
    OBVIOUS
  <2>4. sealed_seq' \in 0..MaxSeq /\ next_sequence' \in 1..(MaxSeq + 1)
    BY <1>0
  <2>5. QED
    BY <1>2, <2>1, <2>2, <2>3, <2>4, JSets DEF J!TypeOK
<1>4. J!BatchInv' /\ J!FlushInv'
  BY <1>1 DEF J!BatchInv, J!FlushInv
<1>5. J!OrderInv'
  BY <1>1, <1>2, JSets DEF J!OrderInv, J!Sealed
<1>6. J!SegmentInv' /\ J!FrontierInv'
  BY <1>0, <1>1, JSets DEF J!SegmentInv, J!FrontierInv
<1>7. J!CoverInv' /\ J!DurableIsSynced'
  BY <1>0, JSets DEF J!CoverInv, J!DurableIsSynced, J!OnMedium
<1>8. J!ChainInv'
  <2>1. PICK v \in J!View : /\ v = J!Current' /\ v.last = w /\ v.handles = owners'
                            /\ v.start \in Starts
    <3>1. next_sequence' - 1 = w
      BY <1>0
    <3>2. handles' \in 0..MaxOwners
      BY <1>0
    <3>3. J!Current' = [last |-> w, start |-> segment_start', handles |-> handles']
      BY <3>1 DEF J!Current
    <3>4. J!Current' \in J!View
      BY <3>2, <3>3, JSets DEF J!View
    <3>5. QED
      BY <3>3, <3>4
  <2> DEFINE view == [i \in 0..0 |-> v]
  <2>2. view \in [0..Len(queue') -> J!View] /\ view[0] = v /\ view[Len(queue')] = v
    BY <1>2, <2>1
  <2> HIDE DEF view
  <2>3. \A i, j \in 0..Len(queue') : view[j] = view[i]
    BY <1>2
  <2>4. J!Past(view)'
    <3>1. ~\E i \in 1..Len(queue') : TRUE
      BY <1>2
    <3>2. QED
      BY <2>1, <2>2, <2>3, <3>1 DEF J!Past
  <2>5. J!Received(view[0])'
    <3>1. owners' = v.handles /\ v.last = written_seq' /\ durable_seq' >= written_seq'
      BY <1>0, <2>1
    <3>2. segments'[v.start].state # "open"
      BY <1>1, <2>1
    <3>3. J!Received(v)'
      BY <1>1, <3>1, <3>2, JSets DEF J!Received, J!ActiveInv, J!Sealed
    <3>4. QED
      BY <2>2, <3>3
  <2>6. QED
    BY <2>2, <2>4, <2>5 DEF J!ChainInv
<1>9. J!CauseInv' /\ J!RetireInv'
  BY <1>0 DEF J!CauseInv, J!NoConsistencyError, J!RetireInv
<1>10. J!EndInv' /\ J!CleanInv'
  BY <1>1, JSets DEF J!EndInv, J!CleanInv, J!Dirty
<1>11. QED
  BY <1>3, <1>4, <1>5, <1>6, <1>7, <1>8, <1>9, <1>10 DEF JInv, J!IInv, J!CInv

LEMMA JInit ==
    ASSUME StoreInit
    PROVE  JInv
<1>1. /\ Init /\ seeded = 0 /\ snapshot_maybe = {-1} /\ Seeds = {0} /\ MaxSeq \in Nat
      /\ flush = NoFlush /\ NoFlush.active = FALSE
  BY BoundsAssumption, StoreAssumption, BlankFacts DEF StoreInit, Init
<1>2. Covered = {}
  BY <1>1 DEF Covered, Seqs
<1>3. JFlush = NoFlush
  BY <1>1 DEF JFlush
<1>4. /\ file = [s \in Starts |-> {}] /\ disk = file
      /\ next_sequence = 1 /\ segment_start = 1
      /\ written_seq = 0 /\ durable_seq = 0 /\ requested_seq = 0
  <2>1. PICK seed \in Seeds :
          /\ next_sequence = seed + 1
          /\ segment_start \in {1, seed + 1}
          /\ written_seq = seed /\ durable_seq = seed /\ requested_seq = seed
          /\ file = [s \in Starts |-> IF s = 1 THEN 1..seed ELSE {}]
          /\ disk = file
    BY <1>1 DEF Init
  <2>2. seed = 0
    BY <1>1, <2>1
  <2>3. 1..seed = {}
    BY <2>2
  <2>4. QED
    BY <2>1, <2>2, <2>3
<1>5. JFile = [s \in Starts |-> {}] /\ JDisk = JFile
  BY <1>2, <1>4 DEF JFile, JDisk
<1>6. JFile = [s \in Starts |-> IF s = 1 THEN 1..0 ELSE {}]
  BY <1>5
<1>7. J!Init
  BY <1>1, <1>3, <1>4, <1>5, <1>6, JSets DEF Init, J!Init
<1>8. J!IInv
  BY <1>7, J!InitIInv, BoundsAssumption
<1>9. J!CInv
  BY <1>7, <1>8, J!InitCInv, BoundsAssumption
<1>10. QED
  BY <1>8, <1>9 DEF JInv

\* Segments are deleted once the seed or every snapshot covers them.
LEMMA JRetire ==
    ASSUME JInv, FileInv, NEW gone \in SUBSET Starts,
           file' = Without(file, gone), disk' = Without(disk, gone),
           UNCHANGED <<clientVars, tickets, queue, batch, streamVars, flush, seeded, snapshot_maybe>>,
           \A s \in gone : file[s] \subseteq Covered,
           batch.phase = "written" => batch.start \notin gone
    PROVE  JInv'
<1>1. UNCHANGED <<Covered, JFlush>>
  BY JFrame DEF streamVars
<1>2. /\ file \in [Starts -> SUBSET Seqs] /\ disk \in [Starts -> SUBSET Seqs]
      /\ \A s \in Starts : disk[s] \subseteq file[s]
      /\ Covered \subseteq Seqs /\ 1 \in Starts
  BY BoundsAssumption DEF FileInv, Covered, Starts
<1>3. \A s \in Starts : /\ file'[s] = (IF s \in gone THEN {} ELSE file[s])
                        /\ disk'[s] = (IF s \in gone THEN {} ELSE disk[s])
  BY DEF Without
<1>4. \A s \in Starts : file'[s] \subseteq file[s] /\ disk'[s] \subseteq disk[s]
  BY <1>3
<1>5. \A s \in Starts : s \notin gone => file'[s] = file[s] /\ disk'[s] = disk[s]
  BY <1>3
<1>6. \A s \in Starts : s \in gone => file[s] \subseteq Covered /\ disk[s] \subseteq Covered
  BY <1>2
<1>7. \A s \in Starts :
          /\ JFile[s] = (IF s = 1 THEN file[s] \cup Covered ELSE file[s])
          /\ JDisk[s] = (IF s = 1 THEN disk[s] \cup Covered ELSE disk[s])
          /\ JFile'[s] = (IF s = 1 THEN file'[s] \cup Covered ELSE file'[s])
          /\ JDisk'[s] = (IF s = 1 THEN disk'[s] \cup Covered ELSE disk'[s])
  BY <1>1 DEF JFile, JDisk
<1>8. JFile' \in [Starts -> SUBSET Seqs] /\ JDisk' \in [Starts -> SUBSET Seqs]
  <2>1. \A s \in Starts : JFile'[s] \subseteq Seqs /\ JDisk'[s] \subseteq Seqs
    <3>1. \A s \in Starts : file'[s] \subseteq Seqs /\ disk'[s] \subseteq Seqs
      BY <1>2, <1>4
    <3>2. Covered \subseteq Seqs
      BY <1>2
    <3>3. ASSUME NEW s \in Starts
          PROVE  JFile'[s] \subseteq file'[s] \cup Covered /\ JDisk'[s] \subseteq disk'[s] \cup Covered
      BY <1>7, Zenon
    <3>4. QED
      BY <3>1, <3>2, <3>3, Zenon
  <2>2. JFile' = [s \in Starts |-> JFile'[s]] /\ JDisk' = [s \in Starts |-> JDisk'[s]]
    BY DEF JFile, JDisk
  <2>3. QED
    BY <2>1, <2>2
<1>9. \A s \in Starts : JDisk'[s] \subseteq JFile'[s]
  <2>1. ASSUME NEW s \in Starts PROVE disk'[s] \subseteq file'[s]
    BY <1>2, <1>3
  <2>2. ASSUME NEW s \in Starts PROVE JDisk'[s] \subseteq JFile'[s]
    <3>1. CASE s = 1
      <4>1. JDisk'[s] = disk'[s] \cup Covered /\ JFile'[s] = file'[s] \cup Covered
        BY <1>7, <3>1
      <4>2. QED
        BY <2>1, <4>1, Zenon
    <3>2. CASE s # 1
      BY <1>7, <2>1, <3>2, Zenon
    <3>3. QED
      BY <3>1, <3>2
  <2>3. QED
    BY <2>2
<1>10. Covered \subseteq JDisk'[1]
  <2>1. JDisk'[1] = disk'[1] \cup Covered
    BY <1>2, <1>7
  <2>2. QED
    BY <2>1, Zenon
<1>11. ASSUME NEW s \in Starts, NEW n \in JDisk[s]
       PROVE  \E t \in Starts : n \in JDisk'[t]
  <2>1. n \in Covered \/ n \in disk[s]
    BY <1>7
  <2>2. n \in Covered \/ n \in JDisk'[s]
    BY <1>7, <1>5, <1>6, <2>1
  <2>3. CASE n \in Covered
    <3>1. n \in JDisk'[1]
      BY <1>10, <2>3
    <3>2. QED
      BY <1>2, <3>1, Zenon
  <2>4. CASE n \in JDisk'[s]
    BY <2>4, Zenon
  <2>5. QED
    BY <2>2, <2>3, <2>4
<1>12. ASSUME NEW s \in Starts, NEW n \in JFile[s]
       PROVE  n \in JFile'[s] \/ \E t \in Starts : n \in JDisk'[t]
  <2>1. n \in Covered \/ n \in file[s]
    BY <1>7
  <2>2. n \in Covered \/ n \in JFile'[s]
    BY <1>7, <1>5, <1>6, <2>1
  <2>3. CASE n \in Covered
    <3>1. n \in JDisk'[1]
      BY <1>10, <2>3
    <3>2. QED
      BY <1>2, <3>1, Zenon
  <2>4. CASE n \in JFile'[s]
    BY <2>4
  <2>5. QED
    BY <2>2, <2>3, <2>4
<1>13. \A s \in Starts : \A n \in JFile'[s] : n \in JDisk'[s] \/ (n \in JFile[s] /\ n \notin JDisk[s])
  <2>1. ASSUME NEW s \in Starts, NEW n \in file'[s]
        PROVE  n \in disk'[s] \/ (n \in file[s] /\ n \notin disk[s])
    BY <1>3
  <2>2. ASSUME NEW s \in Starts, NEW n \in JFile'[s]
        PROVE  n \in JDisk'[s] \/ (n \in JFile[s] /\ n \notin JDisk[s])
    <3>1. CASE s = 1
      <4>1. n \in file'[s] \/ n \in Covered
        BY <1>7, <3>1
      <4>2. JDisk'[s] = disk'[s] \cup Covered /\ JDisk[s] = disk[s] \cup Covered
            /\ JFile[s] = file[s] \cup Covered
        BY <1>7, <3>1
      <4>3. QED
        BY <2>1, <4>1, <4>2, Zenon
    <3>2. CASE s # 1
      BY <1>7, <2>1, <3>2, Zenon
    <3>3. QED
      BY <3>1, <3>2
  <2>3. QED
    BY <2>2
<1>14. batch.phase = "written" => batch.first..batch.last \subseteq JFile'[batch.start]
  <2>1. SUFFICES ASSUME batch.phase = "written"
                 PROVE  batch.first..batch.last \subseteq JFile'[batch.start]
    OBVIOUS
  <2>2. batch.start \in Starts /\ batch.start \notin gone
    BY <2>1, JSets DEF JInv, J!IInv, J!BatchInv
  <2>3. batch.first..batch.last \subseteq file'[batch.start]
    BY <1>3, <2>1, <2>2 DEF FileInv
  <2>4. QED
    BY <1>7, <2>2, <2>3
<1>15. QED
  BY <1>1, <1>8, <1>9, <1>11, <1>12, <1>13, <1>14, JFiles

\* The snapshot is synced: it covers more for good.
LEMMA JGrow ==
    ASSUME JInv, FileInv, UNCHANGED vars, Covered \subseteq Covered'
    PROVE  JInv'
<1>1. UNCHANGED <<file, disk, flush, incarnation, clientVars, tickets, queue, batch, streamVars, JFlush>>
  BY JFrame DEF vars, fileVars, streamVars
<1>2. /\ file \in [Starts -> SUBSET Seqs] /\ disk \in [Starts -> SUBSET Seqs]
      /\ \A s \in Starts : disk[s] \subseteq file[s]
      /\ Covered' \subseteq Seqs /\ 1 \in Starts
  BY BoundsAssumption DEF FileInv, Covered, Starts, Seqs
<1>3. \A s \in Starts :
          /\ JFile[s] = (IF s = 1 THEN file[s] \cup Covered ELSE file[s])
          /\ JDisk[s] = (IF s = 1 THEN disk[s] \cup Covered ELSE disk[s])
          /\ JFile'[s] = (IF s = 1 THEN file[s] \cup Covered' ELSE file[s])
          /\ JDisk'[s] = (IF s = 1 THEN disk[s] \cup Covered' ELSE disk[s])
  BY <1>1 DEF JFile, JDisk
<1>4. JFile' \in [Starts -> SUBSET Seqs] /\ JDisk' \in [Starts -> SUBSET Seqs]
  <2>1. \A s \in Starts : JFile'[s] \subseteq Seqs /\ JDisk'[s] \subseteq Seqs
    BY <1>2, <1>3
  <2>2. JFile' = [s \in Starts |-> JFile'[s]] /\ JDisk' = [s \in Starts |-> JDisk'[s]]
    BY DEF JFile, JDisk
  <2>3. QED
    BY <2>1, <2>2
<1>5. /\ \A s \in Starts : JDisk'[s] \subseteq JFile'[s]
      /\ \A s \in Starts : JDisk[s] \subseteq JDisk'[s] /\ JFile[s] \subseteq JFile'[s]
  BY <1>2, <1>3
<1>6. \A s \in Starts : \A n \in JFile'[s] : n \in JDisk'[s] \/ (n \in JFile[s] /\ n \notin JDisk[s])
  BY <1>2, <1>3
<1>7. batch.phase = "written" => batch.first..batch.last \subseteq JFile'[batch.start]
  <2>1. batch.phase = "written" => batch.start \in Starts
    BY JSets DEF JInv, J!IInv, J!BatchInv
  <2>2. batch.phase = "written" => batch.first..batch.last \subseteq JFile[batch.start]
    BY DEF JInv, J!IInv, J!BatchInv
  <2>3. QED
    BY <1>5, <2>1, <2>2
<1>8. QED
  BY <1>1, <1>4, <1>5, <1>6, <1>7, JFiles

\* A sync for an earlier incarnation.
LEMMA JStaleSync ==
    ASSUME JInv, UNCHANGED <<clientVars, tickets, queue, batch, streamVars, JFile, JFlush>>,
           NEW s \in Starts, JDisk' = [JDisk EXCEPT ![s] = JFile[s]]
    PROVE  JInv'
<1>1. /\ JFile \in [Starts -> SUBSET Seqs] /\ JDisk \in [Starts -> SUBSET Seqs]
      /\ \A r \in Starts : JDisk[r] \subseteq JFile[r]
  BY JSets DEF JInv, J!IInv, J!TypeOK, J!SegmentInv
<1>2. JDisk' \in [Starts -> SUBSET Seqs]
  BY <1>1
<1>3. /\ \A r \in Starts : JDisk'[r] \subseteq JFile'[r]
      /\ \A r \in Starts : JDisk[r] \subseteq JDisk'[r]
  BY <1>1
<1>4. batch.phase = "written" => batch.first..batch.last \subseteq JFile'[batch.start]
  BY DEF JInv, J!IInv, J!BatchInv
<1>5. QED
  BY <1>1, <1>2, <1>3, <1>4, JFiles

-----------------------------------------------------------------------------
(***************************************************************************)
(* What the journal's invariant tells the store.                           *)
(***************************************************************************)

LEMMA JFacts ==
    ASSUME JInv, FileInv
    PROVE  /\ TypeOK
           /\ sealed_seq <= durable_seq /\ durable_seq <= written_seq
           /\ batch.phase # "idle" => batch.start \in Starts /\ batch.first <= batch.last
           /\ batch.phase = "written" \/ (batch.phase = "collect" /\ error = "none")
                  => batch.first = written_seq + 1
           /\ batch.phase = "written" => segments[batch.start].state = "open"
           /\ batch.phase = "collect" /\ NextIs("append") => Head(queue).seq = batch.last + 1
           /\ handles = 0 /\ queue = <<>> => batch.phase = "idle"
<1>1. TypeOK
  BY TypeFacts DEF JInv
<1>2. sealed_seq <= durable_seq /\ durable_seq <= written_seq
  BY DEF JInv, J!IInv, J!FrontierInv
<1>3. PICK view \in [0..Len(queue) -> J!View] : J!Past(view) /\ J!Received(view[0])
  BY DEF JInv, J!CInv, J!ChainInv
<1>4. batch.phase # "idle" => batch.start \in Starts /\ batch.contiguous
  BY <1>3, JSets DEF J!Received, JInv, J!IInv, J!BatchInv
<1>5. batch.phase # "idle" => batch.first <= batch.last
  BY <1>4 DEF JInv, J!IInv, J!BatchInv
<1>6. batch.phase = "written" \/ (batch.phase = "collect" /\ error = "none")
          => batch.first = written_seq + 1
  BY <1>3 DEF J!Received, JInv, J!IInv, J!BatchInv
<1>7. batch.phase = "written" => segments[batch.start].state = "open"
  BY DEF JInv, J!CInv, J!CauseInv
<1>8. batch.phase = "collect" /\ NextIs("append") => Head(queue).seq = batch.last + 1
  <2>1. SUFFICES ASSUME batch.phase = "collect", queue # <<>>, Head(queue).op = "append"
                 PROVE  Head(queue).seq = batch.last + 1
    BY DEF NextIs
  <2>2. queue \in Seq(Command)
    BY <1>1 DEF TypeOK
  <2>3. Head(queue) = queue[1] /\ 1 \in 1..Len(queue)
    BY <2>1, <2>2
  <2>4. J!Sends(view[0], queue[1], view[1])
    BY <1>3, <2>3 DEF J!Past
  <2>5. batch.last = view[0].last
    BY <1>3, <2>1 DEF J!Received
  <2>6. QED
    BY <2>1, <2>3, <2>4, <2>5 DEF J!Sends
<1>9. handles = 0 /\ queue = <<>> => batch.phase = "idle"
  <2>1. SUFFICES ASSUME handles = 0, queue = <<>> PROVE batch.phase = "idle"
    OBVIOUS
  <2>2. view[0] = J!Current
    BY <1>3, <2>1 DEF J!Past
  <2>3. QED
    BY <1>3, <2>1, <2>2 DEF J!Received, J!Current
<1>10. QED
  BY <1>1, <1>2, <1>4, <1>5, <1>6, <1>7, <1>8, <1>9

-----------------------------------------------------------------------------
(***************************************************************************)
(* What keeps the parts of the store's invariant.                          *)
(***************************************************************************)

Inv == JInv /\ StoreInv

LEMMA MarkTypes ==
    ASSUME StoreTypeOK
    PROVE  Marks \subseteq Int /\ snapshot_maybe \subseteq Int /\ snapshot \in Int /\ checkpoint_seq \in Int
<1>1. -1..MaxSeq \subseteq Int /\ 0..MaxSeq \subseteq Int
  BY BoundsAssumption
<1>2. snapshot_maybe \subseteq Int /\ snapshot \in Int /\ checkpoint_seq \in Int
  BY <1>1 DEF StoreTypeOK
<1>3. ckpt.boundary \in Int
  BY <1>1 DEF StoreTypeOK
<1>4. Marks \subseteq Int
  BY <1>2, <1>3 DEF Marks
<1>5. QED
  BY <1>2, <1>4

LEMMA IntFacts ==
    /\ MaxSeq \in Nat /\ Seqs \subseteq Nat \ {0} /\ Starts \subseteq Nat \ {0}
    /\ \A n \in Seqs : n \in Starts
<1>1. MaxSeq \in Nat
  BY BoundsAssumption
<1>2. Seqs \subseteq Nat \ {0}
  BY <1>1 DEF Seqs
<1>3. Starts \subseteq Nat \ {0}
  BY <1>1 DEF Starts
<1>4. \A n \in Seqs : n \in Starts
  BY <1>1 DEF Seqs, Starts
<1>5. QED
  BY <1>1, <1>2, <1>3, <1>4

LEMMA TypeNext ==
    ASSUME JInv', FileInv'
    PROVE  TypeOK'
<1>1. J!TypeOK'
  BY DEF JInv, J!IInv
<1>2. QED
  BY <1>1, JSets DEF J!TypeOK, TypeOK, FileInv

LEMMA KeepFile ==
    ASSUME FileInv, UNCHANGED <<flush, incarnation, file, disk, present, batch>>
    PROVE  FileInv'
BY DEF FileInv

\* The channel and the coordinator stay, or what they hold is only taken away.
LEMMA KeepCoord ==
    ASSUME CoordInv, UNCHANGED <<applied_seq, next_sequence, segment_start, written_seq,
                                 queue, handles>>,
           tickets' \subseteq tickets \/ mode = "open",
           \/ mode' = mode
           \/ mode = "open" /\ mode' = "closing"
           \/ mode = "releasing" /\ mode' = "closed" /\ queue = <<>>
           \/ mode \in {"closed", "down"} /\ mode' = "refused"
    PROVE  CoordInv'
<1>1. mode = "open" => mode' # "releasing"
  OBVIOUS
<1>2. \A i \in 1..Len(queue) :
          /\ queue[i].op \in {"append", "seal", "release"}
          /\ queue[i].op = "release" => mode = "releasing" /\ i = Len(queue)
  BY DEF CoordInv
<1>3. queue = <<>> => 1..Len(queue) = {}
  BY SMT
<1>4. QED
  BY <1>1, <1>2, <1>3, Zenon DEF CoordInv

LEMMA KeepHolds ==
    ASSUME UNCHANGED <<file, batch, queue>>
    PROVE  \A s \in Starts, n \in Seqs : Holds(s, n)' => Holds(s, n)
BY DEF Holds

LEMMA KeepCut ==
    ASSUME CutInv, \A s \in Starts, n \in Seqs : Holds(s, n)' => Holds(s, n),
           \A m \in Marks' : m \in Marks \/ m = -1,
           segment_start \in Starts, Up' => Up /\ UNCHANGED <<segment_start, next_sequence>>
    PROVE  CutInv'
<1>1. \A s \in Starts, n \in Seqs : Holds(s, n) =>
          /\ s <= n
          /\ Up => n < next_sequence
          /\ \A m \in Marks : s <= m => n <= m
  BY DEF CutInv
<1>2. ASSUME NEW s \in Starts, NEW n \in Seqs, Holds(s, n)'
      PROVE  s <= n /\ (Up' => n < next_sequence') /\ \A m \in Marks' : s <= m => n <= m
  <2>1. Holds(s, n)
    BY <1>2
  <2>2. ASSUME NEW m \in Marks', s <= m PROVE n <= m
    BY <1>1, <2>1, <2>2, IntFacts
  <2>3. QED
    BY <1>1, <2>1, <2>2
<1>3. ASSUME Up' PROVE \A m \in Marks' : m < segment_start'
  <2>1. Up /\ segment_start' = segment_start
    BY <1>3
  <2>2. \A m \in Marks : m < segment_start
    BY <2>1 DEF CutInv
  <2>3. -1 < segment_start
    BY IntFacts
  <2>4. QED
    BY <2>1, <2>2, <2>3
<1>4. QED
  BY <1>2, <1>3 DEF CutInv

\* How the checkpoint thread may move while the files and the snapshots stay.
Moves ==
    \/ ckpt' = ckpt
    \/ ckpt'.phase \in {"idle", "begin", "retire_only", "fail"} /\ (At("seal") => persistence_fault')
    \/ At("seal") /\ ckpt' = [ckpt EXCEPT !.phase = "write"] /\ ckpt.boundary <= durable_seq

Thread == [phase : Phases, boundary : 0..MaxSeq, pending : BOOLEAN]

\* The marks and the frontiers, whatever is appended to the active segment.
LEMMA MarksStay ==
    ASSUME StoreTypeOK, MarkInv, FrontInv, segment_start \in Starts,
           durable_seq \in Int, durable_seq' \in Int,
           UNCHANGED <<segment_start, checkpoint_seq, snapshot, snapshot_maybe, seeded>>,
           durable_seq <= durable_seq',
           \/ mode' = mode
           \/ mode = "open" /\ mode' = "closing"
           \/ mode = "closing" /\ mode' = "releasing" /\ At("idle")
           \/ mode = "releasing" /\ mode' = "closed"
           \/ mode \in {"closed", "down"} /\ mode' = "refused",
           persistence_fault /\ Up' => persistence_fault',
           Moves, At("idle") => ckpt' = ckpt \/ mode = "open"
    PROVE  MarkInv' /\ FrontInv' /\ \A m \in Marks' : m \in Marks
<1>1. ckpt \in Thread /\ (Captured <=> ckpt.phase \in {"seal", "write", "sync", "retire", "finish"})
  BY DEF StoreTypeOK, Thread, Captured
<1>3. Up' => Up
  BY DEF Up
<1>4. (Captured' => Captured /\ ckpt'.boundary = ckpt.boundary)
      /\ (At("sync")' => At("sync") /\ ckpt'.boundary = ckpt.boundary)
      /\ (At("retire")' => At("retire") /\ ckpt'.boundary = ckpt.boundary)
      /\ (At("finish")' => At("finish") /\ ckpt'.boundary = ckpt.boundary)
      /\ (At("seal")' => ckpt' = ckpt /\ At("seal"))
      /\ (~At("seal")' => ~At("seal") \/ persistence_fault' \/ ckpt.boundary <= durable_seq)
      /\ (ckpt'.phase \in {"write", "sync", "retire", "finish"} =>
             /\ ckpt'.boundary = ckpt.boundary
             /\ ckpt.phase \in {"write", "sync", "retire", "finish"} \/ ckpt.boundary <= durable_seq)
  <2>1. CASE ckpt' = ckpt
    BY <2>1 DEF Captured, At
  <2>2. CASE ckpt'.phase \in {"idle", "begin", "retire_only", "fail"} /\ (At("seal") => persistence_fault')
    BY <2>2 DEF Captured, At
  <2>3. CASE At("seal") /\ ckpt' = [ckpt EXCEPT !.phase = "write"] /\ ckpt.boundary <= durable_seq
    <3>1. ckpt'.phase = "write" /\ ckpt'.boundary = ckpt.boundary
      BY <1>1, <2>3 DEF Thread
    <3>2. QED
      BY <2>3, <3>1 DEF Captured, At
  <2>4. QED
    BY <2>1, <2>2, <2>3 DEF Moves
<1>5. \A m \in Marks' : m \in Marks
  BY <1>4 DEF Marks
<1>6. MarkInv'
  <2>1. ~At("idle") => mode \in {"open", "closing"}
    BY DEF MarkInv
  <2>2. ~At("idle")' => mode' \in {"open", "closing"}
    <3>1. ckpt' = ckpt => (At("idle")' <=> At("idle"))
      BY DEF At
    <3>2. At("idle") /\ ckpt' # ckpt => mode = "open"
      OBVIOUS
    <3>3. QED
      BY <2>1, <3>1, <3>2
  <2>3. QED
    BY <1>3, <1>4, <2>2 DEF MarkInv
<1>7. FrontInv'
  <2>1. segment_start \in Int /\ durable_seq \in Int /\ durable_seq' \in Int /\ snapshot \in Int
    BY IntFacts, MarkTypes
  <2>2. ckpt.boundary \in Int
    BY IntFacts DEF StoreTypeOK
  <2>3. Up' => snapshot' <= durable_seq'
    BY <1>3, <2>1 DEF FrontInv
  <2>4. ckpt'.phase \in {"write", "sync", "retire", "finish"} => ckpt'.boundary <= durable_seq'
    BY <1>4, <2>1, <2>2 DEF FrontInv
  <2>5. At("seal")' => ckpt'.boundary = segment_start' - 1
    BY <1>4 DEF FrontInv
  <2>6. Up' /\ ~persistence_fault' /\ ~At("seal")' => segment_start' - 1 <= durable_seq'
    <3>1. SUFFICES ASSUME Up', ~persistence_fault', ~At("seal")'
                   PROVE  segment_start - 1 <= durable_seq'
      OBVIOUS
    <3>2. Up /\ ~persistence_fault
      BY <1>3, <3>1
    <3>3. ~At("seal") => segment_start - 1 <= durable_seq
      BY <3>2 DEF FrontInv
    <3>4. At("seal") => ckpt.boundary <= durable_seq /\ ckpt.boundary = segment_start - 1
      BY <1>4, <3>1 DEF FrontInv
    <3>5. QED
      BY <2>1, <2>2, <3>3, <3>4
  <2>7. QED
    BY <2>3, <2>4, <2>5, <2>6 DEF FrontInv
<1>8. QED
  BY <1>5, <1>6, <1>7

\* A step aside: of the waiters, the flusher, or the store's own bookkeeping.
LEMMA Aside ==
    ASSUME Inv, JInv', StoreTypeOK', FileInv',
           UNCHANGED <<next_sequence, segment_start, handles, queue, batch, written_seq,
                       applied_seq, checkpoint_seq, snapVars, present, file, seeded>>,
           durable_seq <= durable_seq',
           tickets' \subseteq tickets \/ mode = "open",
           \/ mode' = mode
           \/ mode = "open" /\ mode' = "closing"
           \/ mode = "releasing" /\ mode' = "closed" /\ queue = <<>>
           \/ mode \in {"closed", "down"} /\ mode' = "refused",
           persistence_fault /\ Up' => persistence_fault',
           Moves, At("idle") => ckpt' = ckpt \/ mode = "open"
    PROVE  Inv'
<1>0. /\ StoreTypeOK /\ FileInv /\ CoordInv /\ CutInv /\ MarkInv /\ FrontInv /\ WrittenIsRecoverable
      /\ UNCHANGED <<snapshot, snapshot_maybe>>
  BY DEF Inv, StoreInv, snapVars
<1>1. TypeOK /\ TypeOK'
  <2>1. FileInv /\ JInv => TypeOK
    BY JFacts
  <2>2. TypeOK'
    BY TypeNext
  <2>3. QED
    BY <1>0, <2>1, <2>2 DEF Inv
<1>2. CoordInv'
  BY <1>0, KeepCoord
<1>3. Up' => Up
  BY DEF Up
<1>4. MarkInv' /\ FrontInv' /\ \A m \in Marks' : m \in Marks
  BY <1>0, <1>1, IntFacts, MarksStay DEF TypeOK
<1>5. CutInv'
  <2>1. \A s \in Starts, n \in Seqs : Holds(s, n)' => Holds(s, n)
    BY KeepHolds
  <2>3. segment_start \in Starts
    BY <1>1 DEF TypeOK
  <2>4. QED
    BY <1>0, <1>3, <1>4, <2>1, <2>3, KeepCut
<1>8. WrittenIsRecoverable'
  BY <1>0 DEF WrittenIsRecoverable
<1>9. QED
  BY <1>2, <1>4, <1>5, <1>8 DEF Inv, StoreInv

LEMMA JStill ==
    ASSUME JInv, UNCHANGED <<vars, seeded, snapshot_maybe>>
    PROVE  JInv'
<1>1. UNCHANGED <<JFile, JDisk, JFlush>>
  BY JFrame DEF vars, streamVars, fileVars
<1>2. UNCHANGED J!vars
  BY <1>1 DEF vars, J!vars, clientVars, J!clientVars, streamVars, J!streamVars, J!fileVars
<1>3. QED
  BY <1>2, JStep

LEMMA ThreadFacts ==
    /\ Idle \in Thread /\ Idle.phase = "idle"
    /\ \A p \in Phases : /\ [Idle EXCEPT !.phase = p] \in Thread
                         /\ [Idle EXCEPT !.phase = p].phase = p
<1>1. 0 \in 0..MaxSeq /\ "idle" \in Phases
  BY BoundsAssumption DEF Phases
<1>2. Idle \in Thread /\ Idle.phase = "idle"
  BY <1>1 DEF Idle, Thread
<1>3. ASSUME NEW p \in Phases
      PROVE  [Idle EXCEPT !.phase = p] \in Thread /\ [Idle EXCEPT !.phase = p].phase = p
  BY <1>1 DEF Idle, Thread
<1>4. QED
  BY <1>2, <1>3

\* A checkpoint that is requested starts from an idle thread only.
LEMMA RequestKeeps ==
    ASSUME StoreTypeOK, NEW force \in BOOLEAN, NEW due \in BOOLEAN,
           RequestCheckpoint(force, due)
    PROVE  /\ Moves /\ ckpt' \in Thread
           /\ checkpoint_requested' \in BOOLEAN /\ checkpoint_error' \in BOOLEAN
<1>1. ckpt \in Thread /\ checkpoint_requested \in BOOLEAN /\ checkpoint_error \in BOOLEAN
  BY DEF StoreTypeOK, Thread
<1>2. "begin" \in Phases /\ "retire_only" \in Phases
  BY DEF Phases
<1>3. CASE ckpt.phase # "idle"
  BY <1>1, <1>3, Zenon DEF RequestCheckpoint, Moves
<1>4. CASE ckpt.phase = "idle"
  <2>1. CASE ~force /\ ~due /\ ~retirement_pending
    BY <1>1, <1>4, <2>1, Zenon DEF RequestCheckpoint, Moves
  <2>2. CASE ~force /\ ~due /\ retirement_pending
    <3>1. ckpt' = [Idle EXCEPT !.phase = "retire_only"] /\ checkpoint_requested' = FALSE
          /\ checkpoint_error' = checkpoint_error
      BY <1>4, <2>2, Zenon DEF RequestCheckpoint
    <3>2. QED
      BY <1>1, <1>2, <1>4, <3>1, ThreadFacts DEF Moves, At
  <2>3. CASE force \/ due
    <3>1. ckpt' = [Idle EXCEPT !.phase = "begin"] /\ checkpoint_requested' = FALSE
          /\ checkpoint_error' = FALSE
      BY <1>4, <2>3, Zenon DEF RequestCheckpoint
    <3>2. QED
      BY <1>1, <1>2, <1>4, <3>1, ThreadFacts DEF Moves, At
  <2>4. QED
    BY <2>1, <2>2, <2>3
<1>5. QED
  BY <1>3, <1>4

LEMMA IfDueKeeps ==
    ASSUME StoreTypeOK, NEW records, NEW bytes, RequestIfDue(records, bytes)
    PROVE  /\ Moves /\ ckpt' \in Thread /\ (ckpt' = ckpt \/ mode = "open")
           /\ checkpoint_requested' \in BOOLEAN /\ checkpoint_error' \in BOOLEAN
<1>1. CASE mode = "open" /\ Due(records, bytes)
  BY <1>1, RequestKeeps DEF RequestIfDue
<1>2. CASE ~(mode = "open" /\ Due(records, bytes))
  BY <1>2 DEF RequestIfDue, Moves, StoreTypeOK, Thread
<1>3. QED
  BY <1>1, <1>2

LEMMA QuietKeeps ==
    ASSUME Inv,
           OnWritten \/ Save \/ SaveReturns \/ Maintain \/ CkptGivesUp \/ CkptWriteFails
               \/ CkptFail \/ Close
    PROVE  Inv'
<1>0. StoreTypeOK /\ FileInv /\ MarkInv /\ TypeOK
  BY JFacts DEF Inv, StoreInv
<1>1. /\ UNCHANGED <<vars, applied_seq, checkpoint_seq, snapVars, dirVars, ackVars>>
      /\ mode' = mode \/ (mode = "open" /\ mode' = "closing")
  BY DEF OnWritten, Save, SaveReturns, Maintain, CkptGivesUp, CkptWriteFails, CkptFail, Close,
     memoryVars
<1>2. UNCHANGED <<clientVars, tickets, queue, batch, streamVars, flush, file, disk, present, torn,
                  snapshot, snapshot_maybe, seeded, acked_written, acked_durable>>
  BY <1>1 DEF vars, snapVars, dirVars, ackVars, fileVars
<1>3. JInv' /\ FileInv'
  BY <1>0, <1>1, <1>2, JStill, KeepFile DEF Inv, streamVars
<1>4. ASSUME OnWritten
      PROVE  /\ Moves /\ (At("idle") => ckpt' = ckpt \/ mode = "open") /\ StoreTypeOK'
             /\ (persistence_fault => persistence_fault')
  <2>1. PICK notice \in notices :
          /\ notices' = notices \ {notice}
          /\ seg_bytes' = [seg_bytes EXCEPT ![notice[2]] = @ + 1]
          /\ journal_bytes' = journal_bytes + 1
          /\ RequestIfDue(journal_records, journal_bytes + 1)
          /\ persistence_fault' = (persistence_fault \/
                                   (checkpoint_error' /\ journal_bytes + 1 >= HardRecords))
          /\ UNCHANGED <<mode, seg_records, journal_records, retirement_pending, saver>>
    BY <1>4 DEF OnWritten
  <2>2. /\ Moves /\ ckpt' \in Thread /\ (ckpt' = ckpt \/ mode = "open")
        /\ checkpoint_requested' \in BOOLEAN /\ checkpoint_error' \in BOOLEAN
    BY <1>0, <2>1, IfDueKeeps
  <2>3. persistence_fault' \in BOOLEAN /\ (persistence_fault => persistence_fault')
    BY <1>0, <2>1, <2>2, Zenon DEF StoreTypeOK
  <2>4. seg_bytes' \in [Starts -> Nat] /\ journal_bytes' \in Nat /\ notices' \subseteq Seqs \X Starts
    BY <1>0, <2>1 DEF StoreTypeOK
  <2>5. QED
    BY <1>0, <1>1, <1>2, <2>1, <2>2, <2>3, <2>4 DEF StoreTypeOK, Thread
<1>5. ASSUME Save
      PROVE  /\ Moves /\ (At("idle") => ckpt' = ckpt \/ mode = "open") /\ StoreTypeOK'
             /\ (persistence_fault => persistence_fault')
  <2>1. /\ mode = "open" /\ saver' = applied_seq
        /\ RequestCheckpoint(TRUE, Due(journal_records, journal_bytes))
        /\ UNCHANGED <<mode, seg_records, seg_bytes, journal_records, journal_bytes, notices,
                       persistence_fault, retirement_pending>>
    BY <1>5 DEF Save
  <2>2. Due(journal_records, journal_bytes) \in BOOLEAN
    BY DEF Due
  <2>3. /\ Moves /\ ckpt' \in Thread
        /\ checkpoint_requested' \in BOOLEAN /\ checkpoint_error' \in BOOLEAN
    BY <1>0, <2>1, <2>2, RequestKeeps
  <2>4. saver' \in -1..MaxSeq
    BY <1>0, <2>1, IntFacts DEF StoreTypeOK
  <2>5. QED
    BY <1>0, <1>1, <1>2, <2>1, <2>3, <2>4 DEF StoreTypeOK, Thread
<1>6. ASSUME Maintain
      PROVE  /\ Moves /\ (At("idle") => ckpt' = ckpt \/ mode = "open") /\ StoreTypeOK'
             /\ (persistence_fault => persistence_fault')
  <2>1. /\ mode = "open"
        /\ RequestCheckpoint(FALSE, Due(journal_records, journal_bytes))
        /\ UNCHANGED <<mode, seg_records, seg_bytes, journal_records, journal_bytes, notices,
                       persistence_fault, retirement_pending, saver>>
    BY <1>6 DEF Maintain
  <2>2. Due(journal_records, journal_bytes) \in BOOLEAN
    BY DEF Due
  <2>3. /\ Moves /\ ckpt' \in Thread
        /\ checkpoint_requested' \in BOOLEAN /\ checkpoint_error' \in BOOLEAN
    BY <1>0, <2>1, <2>2, RequestKeeps
  <2>4. QED
    BY <1>0, <1>1, <1>2, <2>1, <2>3 DEF StoreTypeOK, Thread
<1>7. ASSUME SaveReturns \/ Close
      PROVE  /\ Moves /\ (At("idle") => ckpt' = ckpt \/ mode = "open") /\ StoreTypeOK'
             /\ (persistence_fault => persistence_fault')
  <2>1. /\ UNCHANGED <<memoryVars, ckpt>> /\ (saver' = -1 \/ saver' = saver)
        /\ (mode' = mode \/ mode' = "closing")
    BY <1>7 DEF SaveReturns, Close
  <2>2. saver' \in -1..MaxSeq /\ mode' \in Modes
    BY <1>0, <2>1, IntFacts DEF StoreTypeOK, Modes
  <2>3. QED
    BY <1>0, <1>1, <1>2, <2>1, <2>2 DEF StoreTypeOK, memoryVars, Moves
<1>8. ASSUME CkptGivesUp
      PROVE  /\ Moves /\ (At("idle") => ckpt' = ckpt \/ mode = "open") /\ StoreTypeOK'
             /\ (persistence_fault => persistence_fault')
  <2>1. ckpt.phase = "begin" /\ ckpt' = Idle /\ UNCHANGED <<mode, memoryVars, saver>>
    BY <1>8 DEF CkptGivesUp, At
  <2>2. ckpt' \in Thread /\ ckpt'.phase = "idle"
    BY <2>1, ThreadFacts
  <2>3. QED
    BY <1>0, <1>1, <1>2, <2>1, <2>2 DEF StoreTypeOK, Thread, memoryVars, Moves, At
<1>9. ASSUME CkptWriteFails
      PROVE  /\ Moves /\ (At("idle") => ckpt' = ckpt \/ mode = "open") /\ StoreTypeOK'
             /\ (persistence_fault => persistence_fault')
  <2>1. ckpt.phase \in {"write", "sync"} /\ UNCHANGED <<mode, memoryVars, saver>>
        /\ ckpt' = [ckpt EXCEPT !.phase = "fail"]
    BY <1>9 DEF CkptWriteFails, GoTo
  <2>2. ckpt' \in Thread /\ ckpt'.phase = "fail"
    BY <1>0, <2>1 DEF StoreTypeOK, Thread, Phases
  <2>3. QED
    BY <1>0, <1>1, <1>2, <2>1, <2>2 DEF StoreTypeOK, Thread, memoryVars, Moves, At
<1>10. ASSUME CkptFail
      PROVE  /\ Moves /\ (At("idle") => ckpt' = ckpt \/ mode = "open") /\ StoreTypeOK'
             /\ (persistence_fault => persistence_fault')
  <2>1. /\ ckpt.phase = "fail" /\ ckpt' = Idle /\ checkpoint_error' = TRUE
        /\ persistence_fault' = (persistence_fault \/ journal_bytes >= HardRecords)
        /\ UNCHANGED <<mode, seg_records, seg_bytes, journal_records, journal_bytes, notices,
                       checkpoint_requested, retirement_pending, saver>>
    BY <1>10 DEF CkptFail, At
  <2>2. ckpt' \in Thread /\ ckpt'.phase = "idle"
    BY <2>1, ThreadFacts
  <2>3. persistence_fault' \in BOOLEAN /\ (persistence_fault => persistence_fault')
    BY <1>0, <2>1, Zenon DEF StoreTypeOK
  <2>4. QED
    BY <1>0, <1>1, <1>2, <2>1, <2>2, <2>3 DEF StoreTypeOK, Thread, Moves, At
<1>11. /\ Moves /\ (At("idle") => ckpt' = ckpt \/ mode = "open") /\ StoreTypeOK'
       /\ (persistence_fault => persistence_fault')
  BY <1>4, <1>5, <1>6, <1>7, <1>8, <1>9, <1>10, Zenon
<1>12. durable_seq <= durable_seq' /\ tickets' \subseteq tickets
  BY <1>0, <1>2, IntFacts DEF TypeOK, streamVars
<1>13. UNCHANGED <<next_sequence, segment_start, handles, written_seq>>
  BY <1>2 DEF clientVars, streamVars
<1>14. QED
  BY <1>1, <1>2, <1>3, <1>11, <1>12, <1>13, Aside

\* A wait that returns, with success or an error.
LEMMA WaitKeeps ==
    ASSUME Inv, Returns \/ CkptSealed \/ CkptSealFails \/ CloseReturns
    PROVE  Inv'
<1>0. StoreTypeOK /\ FileInv /\ MarkInv /\ CoordInv /\ TypeOK /\ sealed_seq <= durable_seq
  BY JFacts DEF Inv, StoreInv
<1>1. PICK t : /\ TicketOk(t) \/ TicketErr(t)
               /\ \/ CommitReturns(t) \/ CommitFails(t)
                  \/ CkptSealed /\ t = SealTicket /\ TicketOk(t)
                  \/ CkptSealFails
                  \/ CloseReturns
  <2>1. CASE Returns
    BY <2>1 DEF Returns, CommitReturns, CommitFails
  <2>2. CASE CkptSealed
    BY <2>2 DEF CkptSealed
  <2>3. CASE CkptSealFails
    BY <2>3 DEF CkptSealFails
  <2>4. CASE CloseReturns
    BY <2>4 DEF CloseReturns
  <2>5. QED
    BY <2>1, <2>2, <2>3, <2>4
<1>2. /\ UNCHANGED <<clientVars, queue, batch, streamVars, flush, fileVars>>
      /\ t \in tickets /\ tickets' = tickets \ {t}
  BY <1>1 DEF TicketOk, TicketErr
<1>3. UNCHANGED <<applied_seq, checkpoint_seq, snapVars, dirVars, seeded, seg_records, seg_bytes,
                  journal_records, journal_bytes, saver, checkpoint_requested, checkpoint_error,
                  retirement_pending>>
  <2>1. ASSUME CommitReturns(t)
        PROVE  UNCHANGED <<memoryVars, saver, snapVars, dirVars, seeded>>
    <3>1. CASE persistence_fault
      BY <2>1, <3>1, Zenon DEF CommitReturns, ackVars
    <3>2. CASE ~persistence_fault
      BY <2>1, <3>2, Zenon DEF CommitReturns
    <3>3. QED
      BY <3>1, <3>2
  <2>2. QED
    BY <1>1, <2>1 DEF memoryVars, ackVars, CommitFails, CkptSealed, CkptSealFails, CloseReturns
<1>4. UNCHANGED <<next_sequence, segment_start, handles, written_seq, durable_seq, incarnation,
                  file, disk, present, torn, snapshot, snapshot_maybe>>
  BY <1>2, <1>3 DEF clientVars, streamVars, fileVars, snapVars, dirVars
<1>5. JInv'
  <2>1. J!Return
    BY <1>1, <1>3, <1>4, JReturn
  <2>2. QED
    BY <2>1, JStep DEF Inv, J!Next
<1>6. FileInv'
  BY <1>0, <1>2, <1>4, KeepFile
<1>7. t.seq \in 0..MaxSeq
  BY <1>0, <1>2 DEF TypeOK, Ticket
<1>8. /\ notices' \subseteq notices
      /\ persistence_fault' \in {persistence_fault, TRUE}
      /\ acked_written' \in 0..MaxSeq /\ acked_durable' \in 0..MaxSeq
  <2>1. acked_written \in 0..MaxSeq /\ acked_durable \in 0..MaxSeq /\ persistence_fault \in BOOLEAN
    BY <1>0 DEF StoreTypeOK
  <2>2. CASE CommitReturns(t)
    <3>1. UNCHANGED <<notices, persistence_fault>>
      BY <2>2 DEF CommitReturns, memoryVars
    <3>2. CASE persistence_fault
      BY <2>1, <2>2, <3>1, <3>2, Zenon DEF CommitReturns, ackVars
    <3>3. CASE ~persistence_fault
      <4>1. /\ acked_written' = MaxOf(acked_written, t.seq)
            /\ acked_durable' = IF t.goal = "durable" THEN MaxOf(acked_durable, t.seq) ELSE acked_durable
        BY <2>2, <3>3, Zenon DEF CommitReturns
      <4>2. QED
        BY <1>7, <2>1, <3>1, <4>1 DEF MaxOf
    <3>4. QED
      BY <3>2, <3>3
  <2>3. CASE CommitFails(t)
    BY <2>1, <2>3 DEF CommitFails, ackVars
  <2>4. CASE CkptSealed \/ CkptSealFails \/ CloseReturns
    BY <2>1, <2>4 DEF CkptSealed, CkptSealFails, CloseReturns, ackVars, memoryVars
  <2>5. QED
    BY <1>1, <2>2, <2>3, <2>4
<1>9. /\ Moves /\ (At("idle") => ckpt' = ckpt) /\ ckpt' \in Thread
      /\ mode' = mode \/ (mode = "releasing" /\ mode' = "closed" /\ queue = <<>>)
  <2>1. CASE CommitReturns(t) \/ CommitFails(t)
    BY <1>0, <2>1 DEF CommitReturns, CommitFails, Moves, StoreTypeOK, Thread
  <2>2. CASE CloseReturns
    <3>1. mode = "releasing" /\ mode' = "closed" /\ ckpt' = ckpt
      BY <2>2 DEF CloseReturns
    <3>2. queue = <<>>
      BY <1>0, <1>2, <3>1 DEF CoordInv
    <3>3. QED
      BY <1>0, <3>1, <3>2 DEF Moves, StoreTypeOK, Thread
  <2>3. CASE CkptSealed /\ t = SealTicket /\ TicketOk(t)
    <3>1. At("seal") /\ ckpt' = [ckpt EXCEPT !.phase = "write"] /\ mode' = mode
      BY <2>3 DEF CkptSealed, GoTo
    <3>2. sealed_seq >= ckpt.boundary
      BY <2>3 DEF TicketOk, Reached, SealTicket
    <3>3. ckpt.boundary <= durable_seq
      BY <1>0, <3>2, IntFacts DEF StoreTypeOK, TypeOK
    <3>4. ckpt' \in Thread
      BY <1>0, <3>1 DEF StoreTypeOK, Thread, Phases
    <3>5. QED
      BY <3>1, <3>3, <3>4 DEF Moves, At
  <2>4. CASE CkptSealFails
    <3>1. At("seal") /\ ckpt' = [ckpt EXCEPT !.phase = "fail"] /\ mode' = mode /\ persistence_fault'
      BY <2>4 DEF CkptSealFails, GoTo
    <3>2. ckpt' \in Thread /\ ckpt'.phase = "fail"
      BY <1>0, <3>1 DEF StoreTypeOK, Thread, Phases
    <3>3. QED
      BY <3>1, <3>2 DEF Moves, At
  <2>5. QED
    BY <1>1, <2>1, <2>2, <2>3, <2>4
<1>10. StoreTypeOK'
  <2>1. mode' \in Modes /\ persistence_fault' \in BOOLEAN
    BY <1>0, <1>8, <1>9, Zenon DEF StoreTypeOK, Modes
  <2>2. QED
    BY <1>0, <1>3, <1>4, <1>8, <1>9, <2>1 DEF StoreTypeOK, Thread
<1>11. durable_seq <= durable_seq' /\ tickets' \subseteq tickets
       /\ (persistence_fault => persistence_fault')
  <2>1. persistence_fault => persistence_fault'
    BY <1>8, Zenon
  <2>2. durable_seq <= durable_seq'
    BY <1>0, <1>4, IntFacts DEF TypeOK
  <2>3. QED
    BY <1>2, <2>1, <2>2
<1>12. QED
  BY <1>2, <1>3, <1>4, <1>5, <1>6, <1>9, <1>10, <1>11, Aside DEF snapVars

\* The flusher, for this incarnation or an earlier one.
LEMMA FlusherKeeps ==
    ASSUME Inv, JournalFlusher \/ JournalSyncFails
    PROVE  Inv'
<1>0. StoreTypeOK /\ FileInv /\ TypeOK
  BY JFacts DEF Inv, StoreInv
<1>1. UNCHANGED storeVars
      /\ \/ NextFlushWork \/ FlushDone \/ FlushFailed \/ FlushSyncFails
         \/ \E s \in Starts : FlushSync(s)
  BY DEF JournalFlusher, JournalSyncFails
<1>2. UNCHANGED <<mode, applied_seq, checkpoint_seq, persistence_fault, ckpt, snapVars, present,
                  seeded, snapshot_maybe>> /\ StoreTypeOK'
  BY <1>0, <1>1 DEF storeVars, memoryVars, snapVars, dirVars, ackVars, StoreTypeOK
<1>3. UNCHANGED <<clientVars, tickets, queue, batch, incarnation, written_seq, file>>
  BY <1>1 DEF NextFlushWork, FlushPick, FlushClean, FlushDone, FlushFailed, FlushSyncFails, FlushSync,
     streamVars, fileVars
<1>4. JInv'
  <2>1. CASE J!Flusher \/ UNCHANGED J!vars
    BY <2>1, JStep DEF Inv, J!Next
  <2>2. CASE /\ Stale /\ UNCHANGED <<clientVars, tickets, queue, batch, streamVars, JFile, JFlush>>
             /\ \E s \in Starts : JDisk' = [JDisk EXCEPT ![s] = JFile[s]]
    BY <2>2, JStaleSync DEF Inv
  <2>3. QED
    BY <1>0, <1>1, <1>2, <2>1, <2>2, JFlusher
<1>5. FileInv'
  <2>1. flush' \in FlushWork /\ flush'.incarnation <= incarnation'
    <3>0. flush \in FlushWork /\ flush.incarnation <= incarnation /\ incarnation \in Nat
      BY <1>0 DEF FileInv, TypeOK
    <3>1. CASE FlushPick
      <4>1. flush' = [active |-> TRUE, incarnation |-> incarnation, target |-> written_seq,
                      epoch |-> [s \in Starts |->
                          IF s \in {r \in Starts : Dirty(r) /\ segments[r].last_seq <= written_seq}
                          THEN segments[s].write_epoch ELSE 0],
                      todo |-> {r \in Starts : Dirty(r) /\ segments[r].last_seq <= written_seq},
                      failed |-> FALSE]
        BY <3>1 DEF FlushPick
      <4>2. \A s \in Starts : segments[s].write_epoch \in Nat
        BY <1>0 DEF TypeOK, Segment
      <4>3. written_seq \in 0..MaxSeq
        BY <1>0 DEF TypeOK
      <4>4. QED
        BY <1>3, <3>0, <4>1, <4>2, <4>3 DEF FlushWork
    <3>2. CASE FlushClean
      BY <1>3, <3>0, <3>2 DEF FlushClean
    <3>3. CASE FlushDone \/ FlushFailed
      <4>1. flush' = NoFlush
        BY <3>3 DEF FlushDone, FlushFailed
      <4>2. NoFlush.incarnation = 0
        BY DEF NoFlush
      <4>3. QED
        BY <1>3, <3>0, <4>1, <4>2, BlankFacts
    <3>4. CASE FlushSyncFails
      BY <1>3, <3>0, <3>4 DEF FlushSyncFails, FlushWork
    <3>5. ASSUME NEW s \in Starts, FlushSync(s)
          PROVE  flush' \in FlushWork /\ flush'.incarnation <= incarnation'
      BY <1>3, <3>0, <3>5 DEF FlushSync, FlushWork
    <3>6. QED
      BY <1>1, <3>1, <3>2, <3>3, <3>4, <3>5 DEF NextFlushWork
  <2>2. disk' = disk \/ \E s \in Starts : disk' = [disk EXCEPT ![s] = file[s]]
    BY <1>1 DEF NextFlushWork, FlushPick, FlushClean, FlushDone, FlushFailed, FlushSyncFails, FlushSync,
       fileVars
  <2>3. disk' \in [Starts -> SUBSET Seqs] /\ \A s \in Starts : disk'[s] \subseteq file[s]
    BY <1>0, <2>2 DEF FileInv
  <2>4. QED
    BY <1>0, <1>2, <1>3, <2>1, <2>3 DEF FileInv
<1>6. durable_seq <= durable_seq'
  <2>1. UNCHANGED durable_seq \/ durable_seq' = MaxOf(durable_seq, written_seq)
        \/ durable_seq' = MaxOf(durable_seq, flush.target)
    <3>1. CASE FlushDone
      BY <3>1, Zenon DEF FlushDone
    <3>2. QED
      BY <1>1, <3>1 DEF NextFlushWork, FlushPick, FlushClean, FlushFailed, FlushSyncFails, FlushSync,
         streamVars
  <2>2. durable_seq \in Int /\ written_seq \in Int /\ flush.target \in Int
    BY <1>0, IntFacts DEF TypeOK, FlushWork
  <2>3. QED
    BY <2>1, <2>2 DEF MaxOf
<1>7. QED
  BY <1>2, <1>3, <1>4, <1>5, <1>6, Aside DEF clientVars, Moves

-----------------------------------------------------------------------------
(***************************************************************************)
(* The store's sends.                                                      *)
(***************************************************************************)

LEMMA HoldsSend ==
    ASSUME queue \in Seq(Command), NEW c \in Command, queue' = Append(queue, c),
           UNCHANGED <<file, batch>>, NEW s \in Starts, NEW n \in Seqs, Holds(s, n)'
    PROVE  Holds(s, n) \/ (c.op = "append" /\ c.start = s /\ c.seq = n)
<1>1. /\ Len(queue) \in Nat /\ Len(queue') = Len(queue) + 1
      /\ \A i \in 1..Len(queue) : queue'[i] = queue[i]
      /\ queue'[Len(queue) + 1] = c
  OBVIOUS
<1>2. CASE \E i \in 1..Len(queue') : queue'[i].op = "append" /\ queue'[i].start = s /\ queue'[i].seq = n
  <2>1. PICK i \in 1..Len(queue') : queue'[i].op = "append" /\ queue'[i].start = s /\ queue'[i].seq = n
    BY <1>2
  <2>2. i \in 1..Len(queue) \/ i = Len(queue) + 1
    BY <1>1
  <2>3. CASE i \in 1..Len(queue)
    <3>1. queue[i].op = "append" /\ queue[i].start = s /\ queue[i].seq = n
      BY <1>1, <2>1, <2>3
    <3>2. QED
      BY <2>3, <3>1 DEF Holds
  <2>4. CASE i = Len(queue) + 1
    BY <1>1, <2>1, <2>4
  <2>5. QED
    BY <2>2, <2>3, <2>4
<1>3. CASE n \in file'[s] \/ (batch'.phase # "idle" /\ batch'.start = s /\ n \in batch'.first..batch'.last)
  BY <1>3 DEF Holds
<1>4. QED
  BY <1>2, <1>3 DEF Holds

\* A release is the last command of its channel.
LEMMA CoordSend ==
    ASSUME queue \in Seq(Command), NEW c \in Command, queue' = Append(queue, c), CoordInv,
           c.op \in {"append", "seal", "release"}, c.op = "release" => mode' = "releasing",
           mode # "releasing"
    PROVE  \A i \in 1..Len(queue') :
               /\ queue'[i].op \in {"append", "seal", "release"}
               /\ queue'[i].op = "release" => mode' = "releasing" /\ i = Len(queue')
<1>1. /\ Len(queue) \in Nat /\ Len(queue') = Len(queue) + 1
      /\ \A i \in 1..Len(queue) : queue'[i] = queue[i]
      /\ queue'[Len(queue) + 1] = c
  OBVIOUS
<1>2. ASSUME NEW i \in 1..Len(queue')
      PROVE  /\ queue'[i].op \in {"append", "seal", "release"}
             /\ queue'[i].op = "release" => mode' = "releasing" /\ i = Len(queue')
  <2>1. CASE i \in 1..Len(queue)
    <3>1. queue[i].op \in {"append", "seal"}
      BY <2>1 DEF CoordInv
    <3>2. QED
      BY <1>1, <2>1, <3>1
  <2>2. CASE i = Len(queue) + 1
    BY <1>1, <2>2
  <2>3. QED
    BY <1>1, <2>1, <2>2
<1>3. QED
  BY <1>2

LEMMA CommitKeeps ==
    ASSUME Inv, NEW durable \in BOOLEAN, Commit(durable)
    PROVE  Inv'
<1>0. StoreTypeOK /\ FileInv /\ MarkInv /\ CoordInv /\ CutInv /\ FrontInv /\ WrittenIsRecoverable /\ TypeOK
  BY JFacts DEF Inv, StoreInv
<1> DEFINE c == [op |-> "append", seq |-> next_sequence, start |-> segment_start, durable |-> durable]
<1>1. /\ mode = "open" /\ ~persistence_fault /\ next_sequence <= MaxSeq /\ handles > 0
      /\ queue' = Append(queue, c) /\ next_sequence' = next_sequence + 1
      /\ applied_seq' = next_sequence
      /\ notices' = notices \cup {<<next_sequence, segment_start>>}
      /\ seg_records' = [seg_records EXCEPT ![segment_start] = @ + 1]
      /\ journal_records' = journal_records + 1
      /\ RequestIfDue(journal_records + 1, journal_bytes)
      /\ UNCHANGED <<segment_start, handles, batch, streamVars, flush, fileVars>>
      /\ UNCHANGED <<mode, checkpoint_seq, seg_bytes, journal_bytes, persistence_fault,
                     retirement_pending, saver, snapVars, dirVars, ackVars>>
  BY DEF Commit, SubmitAppend
<1>2. /\ UNCHANGED <<incarnation, written_seq, durable_seq, file, disk, present, torn,
                     snapshot, snapshot_maybe, seeded, acked_written, acked_durable>>
  BY <1>1 DEF streamVars, fileVars, snapVars, dirVars, ackVars
<1>3. JInv'
  <2>1. (\E d \in BOOLEAN : SubmitAppend(d)) \/ SubmitSeal \/ RequestFlush \/ SubmitRelease
    BY DEF Commit
  <2>2. J!Client
    BY <1>2, <2>1, JClient
  <2>3. QED
    BY <2>2, JStep DEF Inv, J!Next
<1>4. FileInv'
  BY <1>0, <1>1, <1>2, KeepFile
<1>5. c \in Command /\ next_sequence \in Seqs /\ segment_start \in Starts /\ queue \in Seq(Command)
      /\ durable_seq \in Int /\ segment_start \in 0..(MaxSeq + 1) /\ next_sequence \in Int
      /\ written_seq \in Int
  BY <1>0, <1>1, IntFacts DEF TypeOK, Command, Ops, Seqs, Starts
<1>6. /\ Moves /\ ckpt' \in Thread
      /\ checkpoint_requested' \in BOOLEAN /\ checkpoint_error' \in BOOLEAN
  BY <1>0, <1>1, IfDueKeeps
<1>7. StoreTypeOK'
  <2>1. applied_seq' \in 0..MaxSeq /\ notices' \subseteq Seqs \X Starts
    <3>1. next_sequence \in 0..MaxSeq
      BY <1>5, IntFacts DEF Seqs
    <3>2. notices \subseteq Seqs \X Starts
      BY <1>0 DEF StoreTypeOK
    <3>3. <<next_sequence, segment_start>> \in Seqs \X Starts
      BY <1>5
    <3>4. notices' \subseteq Seqs \X Starts
      BY <1>1, <3>2, <3>3, Zenon
    <3>5. QED
      BY <1>1, <3>1, <3>4
  <2>2. seg_records' \in [Starts -> Nat] /\ journal_records' \in Nat
    <3>1. seg_records \in [Starts -> Nat] /\ journal_records \in Nat
      BY <1>0 DEF StoreTypeOK
    <3>2. seg_records' = [seg_records EXCEPT ![segment_start] = @ + 1]
          /\ journal_records' = journal_records + 1
      BY <1>1
    <3>3. QED
      BY <1>5, <3>1, <3>2
  <2>3. QED
    BY <1>0, <1>1, <1>2, <1>6, <2>1, <2>2 DEF StoreTypeOK, Thread
<1>8. MarkInv' /\ FrontInv' /\ \A m \in Marks' : m \in Marks
  BY <1>0, <1>1, <1>2, <1>5, <1>6, MarksStay
<1>9. CoordInv'
  <2> HIDE DEF c
  <2>0. c.op = "append"
    BY DEF c
  <2>1. \A i \in 1..Len(queue') :
               /\ queue'[i].op \in {"append", "seal", "release"}
               /\ queue'[i].op = "release" => mode' = "releasing" /\ i = Len(queue')
    BY <1>0, <1>1, <1>5, <2>0, CoordSend
  <2>2. applied_seq' = next_sequence' - 1 /\ written_seq' < next_sequence' /\ segment_start' <= next_sequence'
    <3>1. written_seq < next_sequence /\ segment_start <= next_sequence
      BY <1>0 DEF CoordInv
    <3>2. next_sequence' = next_sequence + 1 /\ applied_seq' = next_sequence
          /\ written_seq' = written_seq /\ segment_start' = segment_start
      BY <1>1, <1>2
    <3>3. QED
      BY <1>5, <3>1, <3>2, IntFacts
  <2>3. mode' = "open" /\ handles' <= 1
    BY <1>0, <1>1 DEF CoordInv
  <2>4. QED
    BY <2>1, <2>2, <2>3, Zenon DEF CoordInv
<1>10. CutInv'
  <2>1. Up /\ \A m \in Marks : m < segment_start /\ m \in Int
    BY <1>0, <1>1, MarkTypes DEF CutInv, Up
  <2>2. ASSUME NEW s \in Starts, NEW n \in Seqs, Holds(s, n)'
        PROVE  s <= n /\ n < next_sequence' /\ \A m \in Marks' : s <= m => n <= m
    <3>1. CASE Holds(s, n)
      <4>1. s <= n /\ n < next_sequence /\ \A m \in Marks : s <= m => n <= m
        BY <1>0, <2>1, <3>1 DEF CutInv
      <4>2. n < next_sequence'
        BY <1>1, <1>5, <4>1, IntFacts
      <4>3. QED
        BY <1>8, <4>1, <4>2
    <3>2. CASE c.op = "append" /\ c.start = s /\ c.seq = n
      <4>1. s = segment_start /\ n = next_sequence
        BY <3>2
      <4>2. s <= n /\ n < next_sequence'
        BY <1>0, <1>1, <1>5, <4>1, IntFacts DEF CoordInv
      <4>3. \A m \in Marks' : ~(s <= m)
        BY <1>5, <1>8, <2>1, <4>1, IntFacts
      <4>4. QED
        BY <4>2, <4>3
    <3>3. QED
      <4> HIDE DEF c
      <4>1. QED
        BY <1>1, <1>2, <1>5, <2>2, <3>1, <3>2, HoldsSend
  <2>3. \A m \in Marks' : m < segment_start'
    BY <1>1, <1>8, <2>1
  <2>4. QED
    BY <2>2, <2>3 DEF CutInv
<1>11. WrittenIsRecoverable'
  BY <1>0, <1>2 DEF WrittenIsRecoverable
<1>12. QED
  BY <1>3, <1>4, <1>7, <1>8, <1>9, <1>10, <1>11 DEF Inv, StoreInv

LEMMA FlushKeeps ==
    ASSUME Inv, Flush
    PROVE  Inv'
<1>0. StoreTypeOK /\ FileInv /\ TypeOK
  BY JFacts DEF Inv, StoreInv
<1>1. mode = "open" /\ RequestFlush /\ UNCHANGED storeVars
  BY DEF Flush
<1>2. UNCHANGED <<clientVars, queue, batch, incarnation, written_seq, durable_seq, flush, file, disk>>
  BY <1>1 DEF RequestFlush, fileVars
<1>3. UNCHANGED <<mode, applied_seq, checkpoint_seq, persistence_fault, ckpt, snapVars, present,
                  seeded, snapshot_maybe>> /\ StoreTypeOK'
  BY <1>0, <1>1 DEF storeVars, memoryVars, snapVars, dirVars, ackVars, StoreTypeOK
<1>4. JInv'
  <2>1. J!Client
    BY <1>1, <1>3, JClient
  <2>2. QED
    BY <2>1, JStep DEF Inv, J!Next
<1>5. FileInv'
  BY <1>0, <1>2, <1>3, KeepFile
<1>6. durable_seq <= durable_seq'
  BY <1>0, <1>2, IntFacts DEF TypeOK
<1>7. QED
  BY <1>1, <1>2, <1>3, <1>4, <1>5, <1>6, Aside DEF clientVars, Moves

LEMMA BeginKeeps ==
    ASSUME Inv, CkptBegin
    PROVE  Inv'
<1>0. StoreTypeOK /\ FileInv /\ MarkInv /\ CoordInv /\ CutInv /\ FrontInv /\ WrittenIsRecoverable /\ TypeOK
  BY JFacts DEF Inv, StoreInv
<1>1. /\ At("begin") /\ ~persistence_fault /\ checkpoint_requested' = FALSE
      /\ UNCHANGED <<mode, applied_seq, checkpoint_seq, seg_records, seg_bytes,
                     journal_records, journal_bytes, notices, checkpoint_error,
                     persistence_fault, retirement_pending, saver, snapVars, dirVars, ackVars>>
  BY DEF CkptBegin
<1>2. /\ UNCHANGED <<next_sequence, handles, batch, streamVars, flush, fileVars>>
      /\ \/ /\ segment_start <= applied_seq /\ SubmitSeal /\ segment_start' = next_sequence
            /\ ckpt' = [Idle EXCEPT !.phase = "seal", !.boundary = applied_seq]
         \/ /\ ~(segment_start <= applied_seq) /\ UNCHANGED vars
            /\ ckpt' = [Idle EXCEPT !.phase = "write", !.boundary = applied_seq]
  <2>1. CASE segment_start <= applied_seq
    <3>1. SubmitSeal /\ ckpt' = [Idle EXCEPT !.phase = "seal", !.boundary = applied_seq]
      BY <2>1, Zenon DEF CkptBegin
    <3>2. segment_start' = next_sequence - 1 + 1
          /\ UNCHANGED <<next_sequence, handles, batch, streamVars, flush, fileVars>>
      BY <3>1 DEF SubmitSeal
    <3>3. next_sequence - 1 + 1 = next_sequence
      BY <1>0 DEF TypeOK
    <3>4. QED
      BY <2>1, <3>1, <3>2, <3>3
  <2>2. CASE ~(segment_start <= applied_seq)
    <3>1. UNCHANGED vars /\ ckpt' = [Idle EXCEPT !.phase = "write", !.boundary = applied_seq]
      BY <2>2, Zenon DEF CkptBegin
    <3>2. QED
      BY <2>2, <3>1 DEF vars, clientVars
  <2>3. QED
    BY <2>1, <2>2
<1>3. /\ UNCHANGED <<incarnation, written_seq, durable_seq, file, disk, present, torn,
                     snapshot, snapshot_maybe, seeded, acked_written, acked_durable>>
  BY <1>1, <1>2 DEF streamVars, fileVars, snapVars, dirVars, ackVars
<1>4. JInv'
  <2>1. CASE SubmitSeal
    <3>1. J!Client
      BY <1>3, <2>1, JClient
    <3>2. QED
      BY <3>1, JStep DEF Inv, J!Next
  <2>2. CASE UNCHANGED vars
    BY <1>3, <2>2, JStill DEF Inv
  <2>3. QED
    BY <1>2, <2>1, <2>2
<1>5. FileInv'
  BY <1>0, <1>2, <1>3, KeepFile
<1>6. /\ next_sequence \in Int /\ segment_start \in Int /\ durable_seq \in Int /\ queue \in Seq(Command)
      /\ segment_start \in Starts /\ applied_seq \in 0..MaxSeq /\ applied_seq = next_sequence - 1
      /\ segment_start <= next_sequence /\ written_seq < next_sequence /\ snapshot \in Int
  BY <1>0, IntFacts, MarkTypes DEF TypeOK, CoordInv, StoreTypeOK
<1>7. /\ ckpt' \in Thread /\ ckpt'.boundary = applied_seq
      /\ \/ ckpt'.phase = "seal" /\ segment_start <= applied_seq /\ SubmitSeal
                 /\ segment_start' = next_sequence
         \/ ckpt'.phase = "write" /\ segment_start = next_sequence /\ UNCHANGED vars
  <2>1. Idle \in Thread
    BY ThreadFacts
  <2>2. ~(segment_start <= applied_seq) => segment_start = next_sequence
    BY <1>6
  <2>3. QED
    BY <1>2, <1>6, <2>1, <2>2 DEF Thread, Phases
<1>8. Up /\ mode \in {"open", "closing"} /\ ~Captured
  BY <1>0, <1>1 DEF MarkInv, At, Up, Captured
<1>9. StoreTypeOK'
  BY <1>0, <1>1, <1>3, <1>7 DEF StoreTypeOK, Thread
<1>10. segment_start' = next_sequence /\ next_sequence' = next_sequence
       /\ (SubmitSeal \/ UNCHANGED vars)
  BY <1>2, <1>6, <1>7 DEF vars, clientVars
<1>11. \A m \in Marks' : m \in Marks \/ m = applied_seq
  BY <1>1, <1>3, <1>7 DEF Marks
<1>12. \A m \in Marks : m \in Int /\ m < segment_start
  BY <1>0, <1>8, MarkTypes DEF CutInv
<1>13. CoordInv'
  <2>1. CASE UNCHANGED vars
    BY <1>0, <1>1, <2>1, KeepCoord DEF vars, clientVars, streamVars
  <2>2. CASE SubmitSeal
    <3>1. PICK c : c = [op |-> "seal", seq |-> next_sequence - 1, start |-> segment_start,
                        durable |-> FALSE]
      OBVIOUS
    <3>2. queue' = Append(queue, c)
      BY <2>2, <3>1 DEF SubmitSeal
    <3>3. c \in Command /\ c.op = "seal"
      BY <1>6, <3>1, IntFacts DEF Command, Ops, Starts
    <3>4. \A i \in 1..Len(queue') :
               /\ queue'[i].op \in {"append", "seal", "release"}
               /\ queue'[i].op = "release" => mode' = "releasing" /\ i = Len(queue')
      BY <1>0, <1>6, <1>8, <3>2, <3>3, CoordSend
    <3>5. /\ applied_seq' = next_sequence' - 1 /\ written_seq' < next_sequence'
          /\ segment_start' <= next_sequence'
      BY <1>1, <1>3, <1>6, <1>10
    <3>6. mode' \in {"open", "closing"} /\ handles' <= 1
      BY <1>0, <1>1, <1>2, <1>8 DEF CoordInv
    <3>7. QED
      BY <3>4, <3>5, <3>6, Zenon DEF CoordInv
  <2>3. QED
    BY <1>10, <2>1, <2>2
<1>14. CutInv'
  <2>1. ASSUME NEW s \in Starts, NEW n \in Seqs, Holds(s, n)'
        PROVE  Holds(s, n)
    <3>1. CASE UNCHANGED vars
      BY <2>1, <3>1, KeepHolds DEF vars, fileVars
    <3>2. CASE SubmitSeal
      <4>1. PICK c : c = [op |-> "seal", seq |-> next_sequence - 1, start |-> segment_start,
                          durable |-> FALSE]
        OBVIOUS
      <4>2. queue' = Append(queue, c)
        BY <3>2, <4>1 DEF SubmitSeal
      <4>3. c \in Command /\ c.op = "seal"
        BY <1>6, <4>1, IntFacts DEF Command, Ops, Starts
      <4>4. QED
        BY <1>2, <1>3, <1>6, <2>1, <4>2, <4>3, HoldsSend
    <3>3. QED
      BY <1>10, <3>1, <3>2
  <2>2. ASSUME NEW s \in Starts, NEW n \in Seqs, Holds(s, n)'
        PROVE  s <= n /\ n < next_sequence' /\ \A m \in Marks' : s <= m => n <= m
    <3>1. s <= n /\ n < next_sequence /\ \A m \in Marks : s <= m => n <= m
      BY <1>0, <1>8, <2>1, <2>2 DEF CutInv
    <3>2. n <= applied_seq
      BY <1>6, <3>1, IntFacts
    <3>3. QED
      BY <1>10, <1>11, <3>1, <3>2
  <2>3. \A m \in Marks' : m < segment_start'
    BY <1>6, <1>10, <1>11, <1>12
  <2>4. QED
    BY <2>2, <2>3 DEF CutInv
<1>15. MarkInv'
  <2>1. snapshot <= ckpt'.boundary
    <3>1. snapshot \in Marks
      BY DEF Marks
    <3>2. snapshot < segment_start
      BY <1>12, <3>1
    <3>3. segment_start <= next_sequence /\ ckpt'.boundary = next_sequence - 1
      BY <1>6, <1>7
    <3>4. QED
      BY <1>6, <3>2, <3>3
  <2>2. /\ snapshot' \in snapshot_maybe' /\ \A m \in snapshot_maybe' : m <= snapshot'
        /\ Up' => checkpoint_seq' <= snapshot'
        /\ Up' => checkpoint_seq' <= seeded' \/ \A m \in snapshot_maybe' : checkpoint_seq' <= m
    BY <1>0, <1>1, <1>3, <1>8 DEF MarkInv, Up
  <2>3. mode' \in {"open", "closing"} /\ ckpt'.phase \in {"seal", "write"}
    BY <1>1, <1>7, <1>8
  <2>4. QED
    BY <1>3, <2>1, <2>2, <2>3 DEF MarkInv, At
<1>16. FrontInv'
  <2>1. Up' => snapshot' <= durable_seq'
    BY <1>0, <1>3, <1>8 DEF FrontInv
  <2>2. segment_start - 1 <= durable_seq
    BY <1>0, <1>1, <1>8 DEF FrontInv, At
  <2>3. CASE ckpt'.phase = "seal"
    <3>1. ckpt'.boundary = segment_start' - 1
      BY <1>6, <1>7, <1>10
    <3>2. QED
      BY <2>1, <2>3, <3>1 DEF FrontInv, At
  <2>4. CASE ckpt'.phase = "write" /\ segment_start = next_sequence
    <3>1. ckpt'.boundary <= durable_seq' /\ segment_start' - 1 <= durable_seq'
      BY <1>3, <1>6, <1>7, <1>10, <2>2, <2>4
    <3>2. QED
      BY <2>1, <2>4, <3>1 DEF FrontInv, At
  <2>5. QED
    BY <1>7, <2>3, <2>4
<1>17. WrittenIsRecoverable'
  BY <1>0, <1>3 DEF WrittenIsRecoverable
<1>18. QED
  BY <1>4, <1>5, <1>9, <1>13, <1>14, <1>15, <1>16, <1>17 DEF Inv, StoreInv

LEMMA ReleaseKeeps ==
    ASSUME Inv, CloseRelease
    PROVE  Inv'
<1>0. StoreTypeOK /\ FileInv /\ MarkInv /\ CoordInv /\ CutInv /\ FrontInv /\ WrittenIsRecoverable /\ TypeOK
  BY JFacts DEF Inv, StoreInv
<1> DEFINE c == [op |-> "release", seq |-> 0, start |-> 0, durable |-> FALSE]
<1>1. /\ mode = "closing" /\ At("idle") /\ tickets = {} /\ SubmitRelease
      /\ mode' = "releasing" /\ handles > 0 /\ handles' = handles - 1
      /\ queue' = Append(queue, c)
      /\ UNCHANGED <<memoryVars, ckpt, saver, snapVars, dirVars, ackVars>>
      /\ UNCHANGED <<next_sequence, segment_start, tickets, batch, streamVars, flush, fileVars>>
  BY DEF CloseRelease, SubmitRelease, Control
<1>2. c \in Command /\ c.op = "release"
  BY IntFacts DEF Command, Ops
<1> HIDE DEF c
<1>3. UNCHANGED <<incarnation, written_seq, durable_seq, file, disk, present, torn, snapshot,
                  snapshot_maybe, seeded, applied_seq, checkpoint_seq, persistence_fault>>
  BY <1>1 DEF streamVars, fileVars, snapVars, dirVars, ackVars, memoryVars
<1>4. JInv'
  <2>1. J!Client
    BY <1>1, <1>3, JClient
  <2>2. QED
    BY <2>1, JStep DEF Inv, J!Next
<1>5. FileInv'
  BY <1>0, <1>1, <1>3, KeepFile
<1>6. StoreTypeOK'
  BY <1>0, <1>1, <1>3 DEF StoreTypeOK, Modes, memoryVars, dirVars, ackVars
<1>7. segment_start \in Starts /\ durable_seq \in Int /\ queue \in Seq(Command) /\ handles \in Int
  BY <1>0, IntFacts, BoundsAssumption DEF TypeOK
<1>8. durable_seq <= durable_seq' /\ durable_seq' \in Int
  BY <1>3, <1>7
<1>9. Moves
  BY <1>1 DEF Moves
<1>10. MarkInv' /\ FrontInv' /\ \A m \in Marks' : m \in Marks
  BY <1>0, <1>1, <1>3, <1>7, <1>8, <1>9, MarksStay
<1>11. CoordInv'
  <2>1. \A i \in 1..Len(queue') :
               /\ queue'[i].op \in {"append", "seal", "release"}
               /\ queue'[i].op = "release" => mode' = "releasing" /\ i = Len(queue')
    BY <1>0, <1>1, <1>2, <1>7, CoordSend
  <2>2. /\ applied_seq' = next_sequence' - 1 /\ written_seq' < next_sequence'
        /\ segment_start' <= next_sequence'
    BY <1>0, <1>1, <1>3 DEF CoordInv
  <2>3. handles' = 0
    BY <1>0, <1>1, <1>7 DEF CoordInv
  <2>4. mode' = "releasing" /\ tickets' = {} /\ handles' <= 1
    BY <1>1, <2>3
  <2>5. QED
    BY <2>1, <2>2, <2>3, <2>4, Zenon DEF CoordInv
<1>12. CutInv'
  <2>1. ASSUME NEW s \in Starts, NEW n \in Seqs, Holds(s, n)'
        PROVE  Holds(s, n)
    BY <1>1, <1>2, <1>3, <1>7, <2>1, HoldsSend
  <2>2. Up' => Up /\ UNCHANGED <<segment_start, next_sequence>>
    BY <1>1 DEF Up
  <2>3. QED
    BY <1>0, <1>7, <1>10, <2>1, <2>2, KeepCut
<1>13. WrittenIsRecoverable'
  BY <1>0, <1>3 DEF WrittenIsRecoverable
<1>14. QED
  BY <1>4, <1>5, <1>6, <1>10, <1>11, <1>12, <1>13 DEF Inv, StoreInv

-----------------------------------------------------------------------------
(***************************************************************************)
(* The writer: a record moves from the channel to the batch to its file.   *)
(***************************************************************************)

WriterStep ==
    \/ WriterCollect \/ WriterExtend \/ WriterSkip \/ WriterPublish
    \/ WriterFail \/ WriterSeal \/ WriterRelease \/ WriterWrite \/ WriterWriteFails

InBatch(s, n) == batch.phase # "idle" /\ batch.start = s /\ n \in batch.first..batch.last

Queued(s, n) ==
    \E i \in 1..Len(queue) : queue[i].op = "append" /\ queue[i].start = s /\ queue[i].seq = n

LEMMA HoldsIs == \A s, n : Holds(s, n) <=> n \in file[s] \/ InBatch(s, n) \/ Queued(s, n)
BY DEF Holds, InBatch, Queued

LEMMA HoldsNext ==
    \A s, n : Holds(s, n)' <=> n \in file'[s] \/ InBatch(s, n)' \/ Queued(s, n)'
BY DEF Holds, InBatch, Queued

LEMMA QueuedTail ==
    ASSUME queue \in Seq(Command), queue # <<>>, queue' = Tail(queue), NEW s, NEW n, Queued(s, n)'
    PROVE  Queued(s, n)
<1>1. PICK i \in 1..Len(queue') : queue'[i].op = "append" /\ queue'[i].start = s /\ queue'[i].seq = n
  BY DEF Queued
<1>2. i + 1 \in 1..Len(queue) /\ queue'[i] = queue[i + 1]
  OBVIOUS
<1>3. QED
  BY <1>1, <1>2 DEF Queued

LEMMA QueuedHead ==
    ASSUME queue \in Seq(Command), NextIs("append")
    PROVE  Queued(Head(queue).start, Head(queue).seq)
<1>1. 1 \in 1..Len(queue) /\ Head(queue) = queue[1]
  BY DEF NextIs
<1>2. QED
  BY <1>1 DEF Queued, NextIs

LEMMA WriterHolds ==
    ASSUME JInv, FileInv, WriterStep, NEW s \in Starts, NEW n \in Seqs, Holds(s, n)'
    PROVE  Holds(s, n)
<1>0. TypeOK /\ queue \in Seq(Command)
      /\ (batch.phase # "idle" => batch.start \in Starts /\ batch.first <= batch.last)
      /\ (batch.phase = "collect" /\ NextIs("append") => Head(queue).seq = batch.last + 1)
  BY JFacts DEF TypeOK
<1>1. batch \in Batch /\ batch.first \in Nat /\ batch.last \in Nat
      /\ file \in [Starts -> SUBSET Seqs] /\ n \in Nat
  BY <1>0, IntFacts DEF TypeOK, Batch
<1>2. n \in file'[s] \/ InBatch(s, n)' \/ Queued(s, n)'
  BY HoldsNext
<1>3. ASSUME Queued(s, n)' PROVE Holds(s, n)
  <2>1. queue' = queue \/ (queue # <<>> /\ queue' = Tail(queue))
    BY DEF WriterStep, WriterCollect, WriterExtend, WriterSkip, WriterPublish, WriterFail, WriterSeal,
       WriterRelease, WriterWrite, WriterWriteFails, CanExtend, NextIs
  <2>2. Queued(s, n)
    BY <1>0, <1>3, <2>1, QueuedTail DEF Queued
  <2>3. QED
    BY <2>2, HoldsIs
<1>4. ASSUME InBatch(s, n)' PROVE Holds(s, n)
  <2>1. CASE WriterCollect
    <3>1. /\ NextIs("append") /\ batch'.start = Head(queue).start
          /\ batch'.first = Head(queue).seq /\ batch'.last = Head(queue).seq
      BY <2>1 DEF WriterCollect, NoBatch
    <3>2. Head(queue) \in Command
      BY <1>0, <3>1 DEF NextIs
    <3>3. n = Head(queue).seq /\ s = Head(queue).start
      BY <1>1, <1>4, <3>1, <3>2, IntFacts DEF InBatch, Command
    <3>4. QED
      BY <1>0, <3>1, <3>3, QueuedHead, HoldsIs
  <2>2. CASE WriterExtend
    <3>1. /\ batch.phase = "collect" /\ NextIs("append") /\ Head(queue).start = batch.start
          /\ batch'.start = batch.start /\ batch'.first = batch.first /\ batch'.last = Head(queue).seq
      BY <1>1, <2>2 DEF WriterExtend, CanExtend, Batch
    <3>2. n \in batch.first..batch.last \/ n = Head(queue).seq
      BY <1>0, <1>1, <1>4, <3>1 DEF InBatch
    <3>3. s = batch.start
      BY <1>4, <3>1 DEF InBatch
    <3>4. InBatch(s, n) \/ Queued(s, n)
      BY <1>0, <3>1, <3>2, <3>3, QueuedHead DEF InBatch
    <3>5. QED
      BY <3>4, HoldsIs
  <2>3. CASE WriterSkip \/ WriterPublish \/ WriterFail
    <3>1. batch'.phase = "idle"
      BY <2>3, BlankFacts DEF WriterSkip, WriterPublish, WriterFail
    <3>2. QED
      BY <1>4, <3>1 DEF InBatch
  <2>4. CASE WriterSeal \/ WriterRelease
    <3>1. batch' = batch
      BY <2>4 DEF WriterSeal, WriterRelease
    <3>2. InBatch(s, n)
      BY <1>4, <3>1 DEF InBatch
    <3>3. QED
      BY <3>2, HoldsIs
  <2>5. CASE WriterWrite \/ WriterWriteFails
    <3>1. /\ batch'.start = batch.start /\ batch'.first = batch.first /\ batch'.last = batch.last
          /\ batch.phase # "idle"
      BY <1>1, <2>5 DEF WriterWrite, WriterWriteFails, Batch
    <3>2. InBatch(s, n)
      BY <1>4, <3>1 DEF InBatch
    <3>3. QED
      BY <3>2, HoldsIs
  <2>6. QED
    BY <2>1, <2>2, <2>3, <2>4, <2>5 DEF WriterStep
<1>5. ASSUME n \in file'[s] PROVE Holds(s, n)
  <2>1. CASE WriterWrite
    <3>1. batch.phase # "idle" /\ file' = [file EXCEPT ![batch.start] = @ \cup (batch.first..batch.last)]
      BY <2>1 DEF WriterWrite
    <3>2. n \in file[s] \/ (s = batch.start /\ n \in batch.first..batch.last)
      BY <1>0, <1>1, <1>5, <3>1
    <3>3. QED
      BY <3>1, <3>2, HoldsIs DEF InBatch
  <2>2. CASE WriterWriteFails
    <3>1. batch.phase # "idle"
      BY <2>2 DEF WriterWriteFails
    <3>2. CASE file' = file
      BY <1>5, <3>2, HoldsIs
    <3>3. CASE file' # file
      <4>1. PICK upto \in (batch.first - 1)..(batch.last - 1) :
                file' = [file EXCEPT ![batch.start] = @ \cup (batch.first..upto)]
        BY <2>2, <3>3 DEF WriterWriteFails
      <4>2. n \in file[s] \/ (s = batch.start /\ n \in batch.first..upto)
        BY <1>0, <1>1, <1>5, <3>1, <4>1
      <4>3. n \in file[s] \/ (s = batch.start /\ n \in batch.first..batch.last)
        BY <1>1, <4>1, <4>2
      <4>4. QED
        BY <3>1, <4>3, HoldsIs DEF InBatch
    <3>4. QED
      BY <3>2, <3>3
  <2>3. CASE ~(WriterWrite \/ WriterWriteFails)
    <3>1. file' = file
      BY <2>3 DEF WriterStep, WriterCollect, WriterExtend, WriterSkip, WriterPublish, WriterFail,
         WriterSeal, WriterRelease, fileVars
    <3>2. QED
      BY <1>5, <3>1, HoldsIs
  <2>4. QED
    BY <2>1, <2>2, <2>3
<1>6. QED
  BY <1>2, <1>3, <1>4, <1>5

LEMMA WriterKeeps ==
    ASSUME Inv, JournalWriter \/ JournalWrites \/ JournalWriteFails
    PROVE  Inv'
<1>0. StoreTypeOK /\ FileInv /\ MarkInv /\ CoordInv /\ CutInv /\ FrontInv /\ WrittenIsRecoverable
      /\ TypeOK
      /\ (batch.phase # "idle" => batch.start \in Starts /\ batch.first <= batch.last)
      /\ (batch.phase = "written" => batch.first = written_seq + 1)
      /\ (handles = 0 /\ queue = <<>> => batch.phase = "idle")
  BY JFacts DEF Inv, StoreInv
<1>1. WriterStep /\ UNCHANGED otherStoreVars /\ (JournalWriter => UNCHANGED storeVars)
  BY DEF JournalWriter, JournalWrites, JournalWriteFails, WriterStep, storeVars, otherStoreVars, dirVars
<1>2. UNCHANGED <<mode, applied_seq, checkpoint_seq, persistence_fault, ckpt, saver, notices,
                  seg_records, seg_bytes, journal_records, journal_bytes, checkpoint_requested,
                  checkpoint_error, retirement_pending, snapshot, snapshot_maybe, seeded,
                  acked_written, acked_durable>>
  BY <1>1 DEF otherStoreVars, memoryVars, snapVars, ackVars
<1>3. UNCHANGED <<clientVars, incarnation, durable_seq, flush, disk>>
  BY <1>1 DEF WriterStep, WriterCollect, WriterExtend, WriterSkip, WriterPublish, WriterFail, WriterSeal,
     WriterRelease, WriterWrite, WriterWriteFails, streamVars, fileVars
<1>4. UNCHANGED <<next_sequence, segment_start, handles>>
  BY <1>3 DEF clientVars
<1>5. batch \in Batch /\ batch.first \in Nat /\ batch.last \in Nat /\ batch.last \in 0..MaxSeq
      /\ file \in [Starts -> SUBSET Seqs] /\ disk \in [Starts -> SUBSET Seqs] /\ queue \in Seq(Command)
      /\ written_seq \in Nat /\ next_sequence \in Nat /\ segment_start \in Starts
      /\ durable_seq \in Int /\ present \subseteq Starts /\ torn \subseteq Starts
  BY <1>0, IntFacts, BoundsAssumption DEF TypeOK, Batch, StoreTypeOK
<1>6. JInv'
  <2>1. CASE WriterWrite \/ WriterWriteFails
    <3>1. batch.start \in Starts
      BY <1>0, <2>1 DEF WriterWrite, WriterWriteFails
    <3>2. J!Writer
      BY <1>2, <1>5, <2>1, <3>1, JWriterFile
    <3>3. QED
      BY <3>2, JStep DEF Inv, J!Next
  <2>2. CASE ~(WriterWrite \/ WriterWriteFails)
    <3>1. J!Writer
      BY <1>1, <1>2, <2>2, JWriter DEF WriterStep
    <3>2. QED
      BY <3>1, JStep DEF Inv, J!Next
  <2>3. QED
    BY <2>1, <2>2
<1>7. /\ file' \in [Starts -> SUBSET Seqs] /\ \A s \in Starts : file[s] \subseteq file'[s]
      /\ \A s \in Starts : file'[s] # {} => s \in present'
      /\ batch'.phase = "written" => batch'.first..batch'.last \subseteq file'[batch'.start]
      /\ present \subseteq present' /\ present' \subseteq Starts /\ torn' \subseteq Starts
  <2>0. /\ \A s \in Starts : file[s] # {} => s \in present
        /\ batch.phase = "written" => batch.first..batch.last \subseteq file[batch.start]
    BY <1>0 DEF FileInv
  <2>1. CASE JournalWriter
    <3>1. UNCHANGED <<file, present, torn>>
      BY <1>1, <2>1 DEF JournalWriter, WriterCollect, WriterExtend, WriterSkip, WriterPublish, WriterFail,
         WriterSeal, WriterRelease, fileVars, storeVars, dirVars
    <3>2. batch'.phase = "written" => batch' = batch
      <4>1. CASE WriterCollect
        <5>1. batch'.phase = "collect"
          BY <4>1 DEF WriterCollect, NoBatch
        <5>2. QED
          BY <5>1
      <4>2. CASE WriterExtend
        BY <1>5, <4>2 DEF WriterExtend, Batch
      <4>3. CASE WriterSkip \/ WriterPublish \/ WriterFail
        BY <4>3, BlankFacts DEF WriterSkip, WriterPublish, WriterFail
      <4>4. CASE WriterSeal \/ WriterRelease
        BY <4>4 DEF WriterSeal, WriterRelease
      <4>5. QED
        BY <2>1, <4>1, <4>2, <4>3, <4>4 DEF JournalWriter
    <3>3. QED
      BY <1>5, <2>0, <3>1, <3>2
  <2>2. CASE JournalWrites
    <3>1. /\ batch.start \in Starts /\ file' = [file EXCEPT ![batch.start] = @ \cup (batch.first..batch.last)]
          /\ batch' = [batch EXCEPT !.phase = "written"] /\ present' = present \cup {batch.start}
          /\ torn' = torn
      BY <1>0, <2>2 DEF JournalWrites, WriterWrite
    <3>2. batch.first..batch.last \subseteq Seqs
      <4>1. batch.first = written_seq + 1
        BY <2>2 DEF JournalWrites, WriterWrite, Monotonic
      <4>2. QED
        BY <1>5, <4>1, IntFacts DEF Seqs
    <3>3. batch'.start = batch.start /\ batch'.first = batch.first /\ batch'.last = batch.last
      BY <1>5, <3>1 DEF Batch
    <3>4. \A s \in Starts : file'[s] = IF s = batch.start THEN file[s] \cup (batch.first..batch.last)
                                                           ELSE file[s]
      BY <1>5, <3>1
    <3>5. file' \in [Starts -> SUBSET Seqs]
      BY <1>5, <3>1, <3>2
    <3>6. \A s \in Starts : file[s] \subseteq file'[s] /\ (file'[s] # {} => s \in present')
      BY <2>0, <3>1, <3>4
    <3>7. batch'.first..batch'.last \subseteq file'[batch'.start]
      BY <3>1, <3>3, <3>4
    <3>8. QED
      BY <1>5, <3>1, <3>5, <3>6, <3>7
  <2>3. CASE JournalWriteFails
    <3>1. /\ batch.start \in Starts /\ batch'.phase = "failed"
          /\ present' \in {present, present \cup {batch.start}}
          /\ torn' \in {torn, torn \cup ({batch.start} \cap present')}
          /\ (segments'[batch.start].state = "open" => batch.start \in present')
      BY <1>0, <1>5, <2>3 DEF JournalWriteFails, WriterWriteFails, Batch
    <3>2. CASE file' = file
      BY <1>5, <2>0, <3>1, <3>2
    <3>3. CASE file' # file
      <4>1. Monotonic /\ segments' = [segments EXCEPT ![batch.start] = OpenedSegment(batch.start)]
            /\ \E upto \in (batch.first - 1)..(batch.last - 1) :
                  file' = [file EXCEPT ![batch.start] = @ \cup (batch.first..upto)]
        BY <2>3, <3>3 DEF JournalWriteFails, WriterWriteFails
      <4>2. PICK upto \in (batch.first - 1)..(batch.last - 1) :
                file' = [file EXCEPT ![batch.start] = @ \cup (batch.first..upto)]
        BY <4>1
      <4>3. batch.first..upto \subseteq Seqs
        <5>1. batch.first = written_seq + 1
          BY <4>1 DEF Monotonic
        <5>2. QED
          BY <1>5, <4>2, <5>1, IntFacts DEF Seqs
      <4>4. batch.start \in present'
        <5>1. segments \in [Starts -> Segment]
          BY <1>0 DEF TypeOK
        <5>2. OpenedSegment(batch.start).state = "open"
          BY DEF OpenedSegment, NoSegment
        <5>3. QED
          BY <3>1, <4>1, <5>1, <5>2
      <4>5. \A s \in Starts : file'[s] = IF s = batch.start THEN file[s] \cup (batch.first..upto)
                                                             ELSE file[s]
        BY <1>5, <4>2
      <4>6. file' \in [Starts -> SUBSET Seqs]
        BY <1>5, <3>1, <4>2, <4>3
      <4>7. present \subseteq present' /\ present' \subseteq Starts
        BY <1>5, <3>1
      <4>8. \A s \in Starts : file[s] \subseteq file'[s] /\ (file'[s] # {} => s \in present')
        BY <2>0, <4>4, <4>5, <4>7
      <4>9. torn' \subseteq Starts
        BY <1>5, <3>1
      <4>10. QED
        BY <3>1, <4>6, <4>7, <4>8, <4>9
    <3>4. QED
      BY <3>2, <3>3
  <2>4. QED
    BY <2>1, <2>2, <2>3
<1>8. FileInv'
  <2>1. \A s \in Starts : disk'[s] \subseteq file'[s]
    <3>1. \A s \in Starts : disk[s] \subseteq file[s]
      BY <1>0 DEF FileInv
    <3>2. QED
      BY <1>3, <1>7, <3>1
  <2>2. flush' \in FlushWork /\ flush'.incarnation <= incarnation' /\ disk' \in [Starts -> SUBSET Seqs]
    BY <1>0, <1>3 DEF FileInv
  <2>3. QED
    BY <1>7, <2>1, <2>2 DEF FileInv
<1>9. StoreTypeOK'
  BY <1>0, <1>2, <1>7 DEF StoreTypeOK
<1>10. MarkInv' /\ FrontInv' /\ \A m \in Marks' : m \in Marks
  <2>1. durable_seq <= durable_seq' /\ durable_seq' \in Int
    BY <1>3, <1>5
  <2>2. Moves
    BY <1>2 DEF Moves
  <2>3. QED
    BY <1>0, <1>2, <1>4, <1>5, <2>1, <2>2, MarksStay
<1>11. CutInv'
  <2>1. \A s \in Starts, n \in Seqs : Holds(s, n)' => Holds(s, n)
    BY <1>0, <1>1, WriterHolds DEF Inv
  <2>2. Up' => Up
    BY <1>2 DEF Up
  <2>3. QED
    BY <1>0, <1>4, <1>5, <1>10, <2>1, <2>2, KeepCut
<1>12. /\ \/ written_seq' = written_seq
          \/ batch.phase = "written" /\ written_seq' = batch.last
       /\ queue' = queue \/ (queue # <<>> /\ queue' = Tail(queue))
       /\ tickets' = tickets \/ (queue # <<>> /\ Head(queue).op = "release" /\ queue' = Tail(queue))
  <2>1. CASE WriterPublish
    <3>1. UNCHANGED <<queue, tickets>> /\ batch.phase = "written"
      BY <2>1 DEF WriterPublish, clientVars
    <3>2. written_seq' = written_seq \/ written_seq' = batch.last
      BY <2>1, Zenon DEF WriterPublish
    <3>3. QED
      BY <3>1, <3>2
  <2>2. CASE WriterRelease
    BY <2>2 DEF WriterRelease, NextIs
  <2>3. CASE WriterCollect \/ WriterExtend \/ WriterSkip \/ WriterFail \/ WriterSeal
    BY <2>3 DEF WriterCollect, WriterExtend, WriterSkip, WriterFail, WriterSeal, streamVars, CanExtend, NextIs
  <2>4. CASE WriterWrite \/ WriterWriteFails
    BY <2>4 DEF WriterWrite, WriterWriteFails
  <2>5. QED
    BY <1>1, <2>1, <2>2, <2>3, <2>4 DEF WriterStep
<1>13. ASSUME batch.phase = "written"
       PROVE  /\ batch.start \in Starts /\ batch.start \in present
              /\ batch.first..batch.last \subseteq file[batch.start]
              /\ batch.first = written_seq + 1 /\ batch.first <= batch.last
  <2>1. /\ batch.start \in Starts /\ batch.first <= batch.last /\ batch.first = written_seq + 1
        /\ batch.first..batch.last \subseteq file[batch.start]
    BY <1>0, <1>13 DEF FileInv
  <2>2. batch.first \in file[batch.start]
    BY <1>5, <2>1
  <2>3. QED
    BY <1>0, <2>1, <2>2 DEF FileInv
<1>14. CoordInv'
  <2>1. written_seq' < next_sequence'
    <3>1. CASE written_seq' = written_seq
      BY <1>0, <1>4, <3>1 DEF CoordInv
    <3>2. CASE batch.phase = "written" /\ written_seq' = batch.last
      <4>1. InBatch(batch.start, batch.last) /\ batch.last \in Seqs /\ batch.start \in Starts
        BY <1>5, <1>13, <3>2, IntFacts DEF InBatch, Seqs
      <4>2. Holds(batch.start, batch.last)
        BY <4>1, HoldsIs
      <4>3. Up
        <5>1. ~(queue = <<>> /\ handles = 0)
          BY <1>0, <3>2
        <5>2. QED
          BY <1>0, <5>1 DEF CoordInv, Up, StoreTypeOK, Modes
      <4>4. QED
        BY <1>0, <1>4, <3>2, <4>1, <4>2, <4>3 DEF CutInv
    <3>3. QED
      BY <1>12, <3>1, <3>2
  <2>2. \A i \in 1..Len(queue') :
          /\ queue'[i].op \in {"append", "seal", "release"}
          /\ queue'[i].op = "release" => mode = "releasing" /\ i = Len(queue')
    <3>0. \A i \in 1..Len(queue) :
          /\ queue[i].op \in {"append", "seal", "release"}
          /\ queue[i].op = "release" => mode = "releasing" /\ i = Len(queue)
      BY <1>0 DEF CoordInv
    <3>1. CASE queue' = queue
      BY <3>0, <3>1
    <3>2. CASE queue # <<>> /\ queue' = Tail(queue)
      <4>1. /\ Len(queue') \in Nat /\ Len(queue') = Len(queue) - 1
            /\ \A i \in 1..Len(queue') : i + 1 \in 1..Len(queue) /\ queue'[i] = queue[i + 1]
        BY <1>5, <3>2
      <4>2. QED
        BY <3>0, <4>1
    <3>3. QED
      BY <1>12, <3>1, <3>2
  <2>3. queue = <<>> => queue' = <<>>
    BY <1>12
  <2>4. mode = "releasing" /\ queue' # <<>> => tickets' = {}
    <3>1. SUFFICES ASSUME mode = "releasing", queue' # <<>> PROVE tickets' = {}
      OBVIOUS
    <3>2. queue # <<>> /\ tickets = {}
      BY <1>0, <2>3, <3>1 DEF CoordInv
    <3>3. ~(Head(queue).op = "release" /\ queue' = Tail(queue))
      <4>1. SUFFICES ASSUME Head(queue).op = "release", queue' = Tail(queue) PROVE FALSE
        OBVIOUS
      <4>2. Head(queue) = queue[1] /\ 1 \in 1..Len(queue)
        BY <1>5, <3>2
      <4>3. Len(queue) = 1
        BY <1>0, <4>1, <4>2 DEF CoordInv
      <4>4. queue' = <<>>
        BY <1>5, <4>1, <4>3
      <4>5. QED
        BY <3>1, <4>4
    <3>4. QED
      BY <1>12, <3>2, <3>3
  <2>5. QED
    BY <1>0, <1>2, <1>4, <2>1, <2>2, <2>3, <2>4 DEF CoordInv
<1>15. WrittenIsRecoverable'
  <2>1. SUFFICES ASSUME NEW n \in 1..written_seq'
                 PROVE  n <= snapshot \/ \E s \in present' : n \in file'[s]
    BY <1>2 DEF WrittenIsRecoverable
  <2>2. CASE n \in 1..written_seq
    <3>1. n <= snapshot \/ \E s \in present : n \in file[s]
      BY <1>0, <2>2 DEF WrittenIsRecoverable
    <3>2. QED
      BY <1>5, <1>7, <3>1
  <2>3. CASE n \notin 1..written_seq
    <3>1. batch.phase = "written" /\ written_seq' = batch.last
      BY <1>12, <2>3
    <3>2. n \in batch.first..batch.last
      BY <1>5, <1>13, <2>3, <3>1
    <3>3. batch.start \in present' /\ n \in file'[batch.start]
      BY <1>7, <1>13, <3>1, <3>2
    <3>4. QED
      BY <3>3
  <2>4. QED
    BY <2>2, <2>3
<1>16. QED
  BY <1>6, <1>8, <1>9, <1>10, <1>11, <1>14, <1>15 DEF Inv, StoreInv

-----------------------------------------------------------------------------
(***************************************************************************)
(* The checkpoint: publication, sync, retirement, end.                     *)
(***************************************************************************)

LEMMA PublishKeeps ==
    ASSUME Inv, CkptPublish \/ CkptSync
    PROVE  Inv'
<1>0. StoreTypeOK /\ FileInv /\ MarkInv /\ CoordInv /\ CutInv /\ FrontInv /\ WrittenIsRecoverable /\ TypeOK
  BY JFacts DEF Inv, StoreInv
<1>1. UNCHANGED <<vars, mode, memoryVars, saver, dirVars, ackVars>>
  BY DEF CkptPublish, CkptSync
<1>2. UNCHANGED <<clientVars, tickets, queue, batch, streamVars, flush, fileVars, next_sequence,
                  segment_start, handles, written_seq, durable_seq, incarnation, applied_seq,
                  checkpoint_seq, persistence_fault, present, seeded, file, disk>>
  BY <1>1 DEF vars, clientVars, streamVars, memoryVars, dirVars, ackVars, fileVars
<1>3. /\ snapshot \in Int /\ snapshot_maybe \subseteq Int /\ checkpoint_seq \in Int
      /\ ckpt.boundary \in Int /\ ckpt.boundary \in 0..MaxSeq
      /\ durable_seq \in Int /\ segment_start \in Starts
  BY <1>0, MarkTypes, IntFacts DEF StoreTypeOK, TypeOK
<1>4. ckpt.phase \in {"write", "sync"} /\ Captured /\ Up /\ mode \in {"open", "closing"}
      /\ ckpt.boundary \in Marks /\ snapshot <= ckpt.boundary /\ ckpt.boundary <= durable_seq
  <2>1. ckpt.phase \in {"write", "sync"}
    BY DEF CkptPublish, CkptSync, At
  <2>2. QED
    BY <1>0, <2>1 DEF MarkInv, FrontInv, At, Up, Captured, Marks
<1>5. ckpt' \in Thread /\ ckpt'.boundary = ckpt.boundary
      /\ \/ /\ At("write") /\ ckpt'.phase = "sync" /\ snapshot' = ckpt.boundary
            /\ snapshot_maybe' = snapshot_maybe \cup {ckpt.boundary}
         \/ /\ At("sync") /\ ckpt'.phase = "retire" /\ snapshot' = snapshot
            /\ snapshot_maybe' = {snapshot} /\ snapshot = ckpt.boundary
  <2>1. CASE CkptPublish
    BY <1>0, <2>1 DEF CkptPublish, GoTo, StoreTypeOK, Thread, Phases
  <2>2. CASE CkptSync
    BY <1>0, <2>2 DEF CkptSync, GoTo, StoreTypeOK, Thread, Phases, MarkInv
  <2>3. QED
    BY <2>1, <2>2
<1>6. snapshot' = ckpt.boundary /\ snapshot_maybe' \subseteq snapshot_maybe \cup {ckpt.boundary}
      /\ snapshot' \in snapshot_maybe' /\ snapshot \in snapshot_maybe
      /\ (\A m \in snapshot_maybe' : m <= ckpt.boundary)
      /\ (\A m \in snapshot_maybe : m <= snapshot)
  <2>1. snapshot \in snapshot_maybe /\ \A m \in snapshot_maybe : m <= snapshot
    BY <1>0 DEF MarkInv
  <2>2. \A m \in snapshot_maybe : m <= ckpt.boundary
    BY <1>3, <1>4, <2>1
  <2>3. CASE At("write") /\ snapshot' = ckpt.boundary
             /\ snapshot_maybe' = snapshot_maybe \cup {ckpt.boundary}
    <3>1. ckpt.boundary <= ckpt.boundary
      BY <1>3
    <3>2. QED
      BY <2>1, <2>2, <2>3, <3>1, Zenon
  <2>4. CASE snapshot' = snapshot /\ snapshot_maybe' = {snapshot} /\ snapshot = ckpt.boundary
    <3>1. ckpt.boundary <= ckpt.boundary
      BY <1>3
    <3>2. QED
      BY <2>1, <2>4, <3>1, Zenon
  <2>5. QED
    BY <1>5, <2>3, <2>4
<1>7. ASSUME NEW n \in Int, \A m \in snapshot_maybe : n <= m, NEW m \in snapshot_maybe'
      PROVE  n <= m
  <2>1. n <= snapshot
    BY <1>6, <1>7
  <2>2. m \in snapshot_maybe \/ m = ckpt.boundary
    BY <1>6
  <2>3. CASE m \in snapshot_maybe
    BY <1>7, <2>3
  <2>4. CASE m = ckpt.boundary
    <3>1. snapshot \in Int /\ m \in Int /\ snapshot <= m
      BY <1>3, <1>4, <2>4
    <3>2. QED
      BY <2>1, <3>1
  <2>5. QED
    BY <2>2, <2>3, <2>4
<1>8. Covered \subseteq Covered'
  <2>1. ASSUME NEW n \in Covered PROVE n \in Covered'
    <3>1. n \in Seqs /\ n \in Int
      BY IntFacts DEF Covered
    <3>2. n <= seeded \/ \A m \in snapshot_maybe : n <= m
      BY DEF Covered
    <3>3. n <= seeded' \/ \A m \in snapshot_maybe' : n <= m
      BY <1>2, <1>7, <3>1, <3>2
    <3>4. QED
      BY <3>1, <3>3 DEF Covered
  <2>2. QED
    BY <2>1
<1>9. JInv'
  BY <1>0, <1>1, <1>8, JGrow DEF Inv
<1>10. FileInv' /\ CoordInv'
  BY <1>0, <1>1, <1>2, KeepFile, KeepCoord
<1>11. StoreTypeOK'
  <2>1. snapshot' \in -1..MaxSeq /\ snapshot_maybe' \subseteq -1..MaxSeq
    BY <1>0, <1>3, <1>6, IntFacts DEF StoreTypeOK
  <2>2. QED
    BY <1>0, <1>1, <1>5, <2>1 DEF StoreTypeOK, Thread, memoryVars, dirVars, ackVars
<1>12. \A m \in Marks' : m \in Marks
  <2>1. \A m \in Marks' : m \in {checkpoint_seq, ckpt.boundary, snapshot'} \cup snapshot_maybe'
    BY <1>2, <1>5 DEF Marks
  <2>2. QED
    BY <1>4, <1>6, <2>1 DEF Marks
<1>13. CutInv'
  <2>1. \A s \in Starts, n \in Seqs : Holds(s, n)' => Holds(s, n)
    BY <1>2, KeepHolds
  <2>2. Up' => Up
    BY <1>1 DEF Up
  <2>3. QED
    BY <1>0, <1>2, <1>3, <1>12, <2>1, <2>2, KeepCut
<1>14. MarkInv'
  <2>1. checkpoint_seq <= snapshot
        /\ (checkpoint_seq <= seeded \/ \A m \in snapshot_maybe : checkpoint_seq <= m)
    BY <1>0, <1>4 DEF MarkInv
  <2>2. checkpoint_seq' <= snapshot'
    BY <1>2, <1>3, <1>4, <1>6, <2>1
  <2>3. checkpoint_seq' <= seeded' \/ \A m \in snapshot_maybe' : checkpoint_seq' <= m
    BY <1>2, <1>3, <1>7, <2>1
  <2>4. /\ snapshot' <= ckpt'.boundary
        /\ At("sync")' => snapshot' = ckpt'.boundary
        /\ At("retire")' \/ At("finish")' => snapshot_maybe' = {ckpt'.boundary}
    BY <1>3, <1>5, <1>6 DEF At
  <2>5. mode' \in {"open", "closing"}
    BY <1>1, <1>4
  <2>6. QED
    BY <1>6, <2>2, <2>3, <2>4, <2>5, <1>5 DEF MarkInv
<1>15. FrontInv'
  <2>1. snapshot' <= durable_seq' /\ ckpt'.boundary <= durable_seq' /\ ~At("seal") /\ ~At("seal")'
    BY <1>2, <1>4, <1>5, <1>6 DEF At
  <2>2. ~persistence_fault' => segment_start' - 1 <= durable_seq'
    BY <1>0, <1>2, <1>4, <2>1 DEF FrontInv
  <2>3. QED
    BY <2>1, <2>2 DEF FrontInv
<1>16. WrittenIsRecoverable'
  <2>1. SUFFICES ASSUME NEW n \in 1..written_seq
                 PROVE  n <= snapshot' \/ \E s \in present : n \in file[s]
    BY <1>2 DEF WrittenIsRecoverable
  <2>2. n <= snapshot \/ \E s \in present : n \in file[s]
    BY <1>0 DEF WrittenIsRecoverable
  <2>3. n \in Int /\ snapshot' = ckpt.boundary
    BY <1>6
  <2>4. QED
    BY <1>3, <1>4, <2>2, <2>3
<1>17. QED
  BY <1>9, <1>10, <1>11, <1>13, <1>14, <1>15, <1>16 DEF Inv, StoreInv

\* Segments are deleted up to a mark that the snapshot has reached for good.
LEMMA RetireKeeps ==
    ASSUME Inv, Up, NEW m0 \in Marks, m0 <= snapshot,
           m0 <= seeded \/ \A m \in snapshot_maybe : m0 <= m,
           NEW covered, covered \subseteq {s \in present : s <= m0},
           NEW pending, Retire(covered, pending),
           UNCHANGED <<clientVars, tickets, queue, batch, streamVars, flush, mode, applied_seq,
                       snapVars, ackVars>>,
           StoreTypeOK', MarkInv', FrontInv', \A m \in Marks' : m \in Marks
    PROVE  Inv'
<1>0. StoreTypeOK /\ FileInv /\ MarkInv /\ CoordInv /\ CutInv /\ FrontInv /\ WrittenIsRecoverable /\ TypeOK
      /\ (batch.phase = "written" => batch.start \in Starts /\ batch.first <= batch.last
                                     /\ batch.first = written_seq + 1)
      /\ durable_seq <= written_seq
  BY JFacts DEF Inv, StoreInv
<1>1. PICK d \in Deletions(covered) :
          /\ present' = present \ d.gone
          /\ file' = Without(file, d.gone)
          /\ disk' = Without(disk, d.gone)
  BY DEF Retire
<1>2. /\ d.gone \subseteq {s \in present : s <= m0} /\ present \subseteq Starts
      /\ d.gone \subseteq Starts
  <2>1. d.gone \subseteq covered
    BY DEF Deletions
  <2>2. present \subseteq Starts
    BY <1>0 DEF StoreTypeOK
  <2>3. QED
    BY <2>1, <2>2
<1>3. UNCHANGED <<next_sequence, segment_start, handles, written_seq, durable_seq, incarnation,
                  snapshot, snapshot_maybe, seeded>>
  BY DEF clientVars, streamVars, snapVars, ackVars
<1>4. /\ m0 \in Int /\ snapshot \in Int /\ snapshot_maybe \subseteq Int /\ durable_seq \in Int
      /\ written_seq \in Int /\ segment_start \in Starts
      /\ file \in [Starts -> SUBSET Seqs] /\ disk \in [Starts -> SUBSET Seqs]
  BY <1>0, MarkTypes, IntFacts DEF TypeOK
<1>5. ASSUME NEW s \in d.gone, NEW n \in Seqs, Holds(s, n)
      PROVE  n <= m0
  BY <1>0, <1>2, <1>5 DEF CutInv
<1>6. \A s \in d.gone : file[s] \subseteq Covered
  <2>1. ASSUME NEW s \in d.gone, NEW n \in file[s] PROVE n \in Covered
    <3>1. n \in Seqs /\ Holds(s, n)
      BY <1>2, <1>4, <2>1, HoldsIs
    <3>2. n <= m0 /\ n \in Int
      BY <1>5, <3>1, IntFacts
    <3>3. n <= seeded \/ \A m \in snapshot_maybe : n <= m
      <4>1. seeded \in Int
        BY <1>0, IntFacts DEF StoreTypeOK
      <4>2. QED
        BY <1>4, <3>2, <4>1
    <3>4. QED
      BY <3>1, <3>3 DEF Covered
  <2>2. QED
    BY <2>1
<1>7. batch.phase = "written" => batch.start \notin d.gone
  <2>1. SUFFICES ASSUME batch.phase = "written", batch.start \in d.gone PROVE FALSE
    OBVIOUS
  <2>2. batch.first \in Seqs /\ batch.first \in file[batch.start]
    <3>1. batch.first \in Nat /\ batch.last \in Nat
      BY <1>0, IntFacts DEF TypeOK, Batch
    <3>2. batch.first \in file[batch.start]
      BY <1>0, <2>1, <3>1 DEF FileInv
    <3>3. QED
      BY <1>0, <1>4, <2>1, <3>2
  <2>3. batch.first <= m0
    BY <1>5, <2>1, <2>2, HoldsIs
  <2>4. snapshot <= durable_seq
    BY <1>0 DEF FrontInv
  <2>5. QED
    BY <1>0, <1>4, <2>1, <2>2, <2>3, <2>4, IntFacts
<1>8. JInv'
  BY <1>0, <1>1, <1>2, <1>3, <1>6, <1>7, JRetire DEF Inv
<1>9. \A s \in Starts : /\ file'[s] = (IF s \in d.gone THEN {} ELSE file[s])
                        /\ disk'[s] = (IF s \in d.gone THEN {} ELSE disk[s])
  BY <1>1 DEF Without
<1>10. FileInv'
  <2>1. file' \in [Starts -> SUBSET Seqs] /\ disk' \in [Starts -> SUBSET Seqs]
    <3>1. \A s \in Starts : file'[s] \subseteq Seqs /\ disk'[s] \subseteq Seqs
      BY <1>4, <1>9
    <3>2. file' = [s \in Starts |-> file'[s]] /\ disk' = [s \in Starts |-> disk'[s]]
      BY <1>1 DEF Without
    <3>3. QED
      BY <3>1, <3>2
  <2>2. \A s \in Starts : disk'[s] \subseteq file'[s] /\ (file'[s] # {} => s \in present')
    BY <1>0, <1>1, <1>9 DEF FileInv
  <2>3. batch'.phase = "written" => batch'.first..batch'.last \subseteq file'[batch'.start]
    BY <1>0, <1>7, <1>9 DEF FileInv
  <2>4. flush' \in FlushWork /\ flush'.incarnation <= incarnation'
    BY <1>0, <1>3 DEF FileInv
  <2>5. QED
    BY <2>1, <2>2, <2>3, <2>4 DEF FileInv
<1>11. CoordInv'
  BY <1>0, <1>3, KeepCoord
<1>12. CutInv'
  <2>1. ASSUME NEW s \in Starts, NEW n \in Seqs, Holds(s, n)' PROVE Holds(s, n)
    <3>1. n \in file'[s] => n \in file[s]
      BY <1>9
    <3>2. QED
      BY <2>1, <3>1, HoldsIs, HoldsNext DEF InBatch, Queued
  <2>2. Up' => Up
    BY DEF Up
  <2>3. QED
    BY <1>0, <1>3, <1>4, <2>1, <2>2, KeepCut
<1>13. WrittenIsRecoverable'
  <2>1. SUFFICES ASSUME NEW n \in 1..written_seq
                 PROVE  n <= snapshot \/ \E s \in present' : n \in file'[s]
    BY <1>3 DEF WrittenIsRecoverable
  <2>2. n <= snapshot \/ \E s \in present : n \in file[s]
    BY <1>0 DEF WrittenIsRecoverable
  <2>3. ASSUME NEW s \in present, n \in file[s]
        PROVE  n <= snapshot \/ (s \in present' /\ n \in file'[s])
    <3>1. s \in Starts
      BY <1>2
    <3>2. CASE s \in d.gone
      <4>1. n \in Seqs /\ Holds(s, n)
        BY <1>4, <2>3, <3>1, HoldsIs
      <4>2. n <= m0
        BY <1>5, <3>2, <4>1
      <4>3. QED
        BY <1>4, <4>1, <4>2, IntFacts
    <3>3. CASE s \notin d.gone
      BY <1>1, <1>9, <2>3, <3>1, <3>3
    <3>4. QED
      BY <3>2, <3>3
  <2>4. QED
    BY <2>2, <2>3
<1>14. QED
  BY <1>8, <1>10, <1>11, <1>12, <1>13 DEF Inv, StoreInv

LEMMA TotalType ==
    ASSUME NEW count \in [Starts -> Nat], NEW starts \in SUBSET Starts
    PROVE  Total(count, starts) \in Nat
<1> DEFINE parts == {{s} \X (1..count[s]) : s \in starts}
           f == [s \in starts |-> {s} \X (1..count[s])]
<1>1. IsFiniteSet(starts)
  <2>1. IsFiniteSet(1..(MaxSeq + 1))
    BY IntFacts, FS_Interval
  <2>2. QED
    BY <2>1, FS_Subset DEF Starts
<1>2. f \in Surjection(starts, parts)
  <2>1. f \in [starts -> parts]
    OBVIOUS
  <2>2. \A part \in parts : \E s \in starts : f[s] = part
    OBVIOUS
  <2>3. QED
    BY <2>1, <2>2 DEF Surjection
<1>3. IsFiniteSet(parts)
  <2> HIDE DEF f, parts
  <2>1. QED
    BY <1>1, <1>2, FS_Surjection
<1>4. ASSUME NEW s \in starts PROVE IsFiniteSet({s} \X (1..count[s]))
  <2>1. IsFiniteSet({s})
    BY FS_Singleton
  <2>2. IsFiniteSet(1..count[s])
    <3>1. count[s] \in Int
      OBVIOUS
    <3>2. QED
      BY <3>1, FS_Interval
  <2>3. QED
    BY <2>1, <2>2, FS_Product
<1>5. \A part \in parts : IsFiniteSet(part)
  BY <1>4
<1>6. IsFiniteSet(UNION parts)
  <2> HIDE DEF f, parts
  <2>1. QED
    BY <1>3, <1>5, FS_UNION
<1>7. Cardinality(UNION parts) \in Nat
  <2> HIDE DEF f, parts
  <2>1. QED
    BY <1>6, FS_CardinalityType
<1>8. QED
  BY <1>7 DEF Total

LEMMA CkptRetireKeeps ==
    ASSUME Inv, CkptRetire
    PROVE  Inv'
<1>0. StoreTypeOK /\ MarkInv /\ FrontInv /\ TypeOK
  BY JFacts DEF Inv, StoreInv
<1>1. PICK pending \in BOOLEAN :
          /\ Retire({s \in present : s <= ckpt.boundary}, pending)
          /\ ckpt' = [ckpt EXCEPT !.phase = "finish", !.pending = pending]
  BY Zenon DEF CkptRetire
<1>2. /\ At("retire")
      /\ UNCHANGED <<clientVars, tickets, queue, batch, streamVars, flush, mode,
                     memoryVars, saver, snapVars, ackVars>>
  BY DEF CkptRetire
<1>3. UNCHANGED <<applied_seq, checkpoint_seq, persistence_fault, snapshot, snapshot_maybe, seeded,
                  durable_seq, segment_start, acked_written, acked_durable>>
  BY <1>2 DEF memoryVars, snapVars, ackVars, streamVars, clientVars
<1>4. ckpt' \in Thread /\ ckpt'.phase = "finish" /\ ckpt'.boundary = ckpt.boundary
  BY <1>0, <1>1 DEF StoreTypeOK, Thread, Phases
<1>5. present' \subseteq present /\ torn' \subseteq torn
  BY <1>1 DEF Retire
<1>6. StoreTypeOK'
  <2>1. UNCHANGED <<mode, applied_seq, checkpoint_seq, seg_records, seg_bytes, journal_records,
                    journal_bytes, notices, checkpoint_requested, checkpoint_error,
                    persistence_fault, retirement_pending, saver, snapshot, snapshot_maybe,
                    acked_written, acked_durable, seeded>>
    BY <1>2, <1>3 DEF memoryVars
  <2>2. present' \subseteq Starts /\ torn' \subseteq Starts
    BY <1>0, <1>5 DEF StoreTypeOK
  <2>3. QED
    BY <1>0, <1>4, <2>1, <2>2 DEF StoreTypeOK, Thread
<1>7. Captured /\ Captured' /\ Up /\ Up' /\ mode' = mode /\ mode \in {"open", "closing"}
  BY <1>0, <1>2, <1>4 DEF Captured, MarkInv, At, Up
<1>8. Marks' = Marks /\ ckpt.boundary \in Marks
  BY <1>3, <1>4, <1>7 DEF Marks
<1>9. snapshot_maybe = {ckpt.boundary} /\ snapshot = ckpt.boundary /\ ckpt.boundary \in Int
  BY <1>0, <1>2, IntFacts DEF MarkInv, StoreTypeOK
<1>10. MarkInv'
  BY <1>0, <1>2, <1>3, <1>4, <1>7, <1>9 DEF MarkInv, At
<1>11. FrontInv'
  BY <1>0, <1>2, <1>3, <1>4, <1>7 DEF FrontInv, At
<1>12. ckpt.boundary <= snapshot /\ \A m \in snapshot_maybe : ckpt.boundary <= m
  BY <1>9
<1> DEFINE covered == {s \in present : s <= ckpt.boundary}
<1>13. Retire(covered, pending) /\ covered \subseteq {s \in present : s <= ckpt.boundary}
  BY <1>1
<1> HIDE DEF covered
<1>14. QED
  BY <1>2, <1>3, <1>6, <1>7, <1>8, <1>10, <1>11, <1>12, <1>13, RetireKeeps

LEMMA RetireOnlyKeeps ==
    ASSUME Inv, CkptRetireOnly
    PROVE  Inv'
<1>0. StoreTypeOK /\ MarkInv /\ FrontInv /\ TypeOK
  BY JFacts DEF Inv, StoreInv
<1> DEFINE covered == {s \in present \ Protected : s <= checkpoint_seq}
<1>1. PICK pending \in BOOLEAN : Retire(covered, pending) /\ retirement_pending' = pending
  BY DEF CkptRetireOnly
<1>2. covered \subseteq {s \in present : s <= checkpoint_seq}
  OBVIOUS
<1> HIDE DEF covered
<1>3. /\ At("retire_only")
      /\ ckpt' = Idle \/ ckpt' = [Idle EXCEPT !.phase = "begin"]
      /\ UNCHANGED <<clientVars, tickets, queue, batch, streamVars, flush, mode, applied_seq,
                     checkpoint_seq, seg_records, seg_bytes, journal_records,
                     journal_bytes, notices, checkpoint_requested, checkpoint_error,
                     persistence_fault, saver, snapVars, ackVars>>
  BY DEF CkptRetireOnly
<1>4. UNCHANGED <<snapshot, snapshot_maybe, seeded, durable_seq, segment_start, acked_written,
                  acked_durable>>
  BY <1>3 DEF snapVars, ackVars, streamVars, clientVars
<1>5. ckpt' \in Thread /\ ckpt'.phase \in {"idle", "begin"}
  BY <1>3, ThreadFacts DEF Phases
<1>6. present' \subseteq present /\ torn' \subseteq torn
  BY <1>1 DEF Retire
<1>7. StoreTypeOK'
  <2>1. present' \subseteq Starts /\ torn' \subseteq Starts /\ retirement_pending' \in BOOLEAN
    BY <1>0, <1>1, <1>6 DEF StoreTypeOK
  <2>2. QED
    BY <1>0, <1>3, <1>4, <1>5, <2>1 DEF StoreTypeOK, Thread
<1>8. Up /\ checkpoint_seq <= snapshot
      /\ (checkpoint_seq <= seeded \/ \A m \in snapshot_maybe : checkpoint_seq <= m)
  BY <1>0, <1>3 DEF MarkInv, At, Up
<1>9. Moves /\ (At("idle") => ckpt' = ckpt \/ mode = "open")
  BY <1>3, <1>5 DEF Moves, At
<1>10. durable_seq <= durable_seq' /\ durable_seq \in Int /\ durable_seq' \in Int
       /\ segment_start \in Starts /\ checkpoint_seq \in Marks
  BY <1>0, <1>4, IntFacts DEF TypeOK, Marks
<1>11. MarkInv' /\ FrontInv' /\ \A m \in Marks' : m \in Marks
  BY <1>0, <1>3, <1>4, <1>9, <1>10, MarksStay
<1>12. QED
  BY <1>1, <1>2, <1>3, <1>7, <1>8, <1>10, <1>11, RetireKeeps

LEMMA FinishKeeps ==
    ASSUME Inv, CkptFinish
    PROVE  Inv'
<1>0. StoreTypeOK /\ FileInv /\ MarkInv /\ CoordInv /\ CutInv /\ FrontInv /\ WrittenIsRecoverable /\ TypeOK
  BY JFacts DEF Inv, StoreInv
<1> DEFINE covered == {s \in Starts : s <= ckpt.boundary /\ seg_records[s] > 0}
           records == MaxOf(0, journal_records - Total(seg_records, covered))
           bytes   == MaxOf(0, journal_bytes - Total(seg_bytes, covered))
<1>1. /\ At("finish") /\ retirement_pending' = ckpt.pending
      /\ checkpoint_seq' = MaxOf(checkpoint_seq, ckpt.boundary)
      /\ seg_records' = [s \in Starts |-> IF s \in covered THEN 0 ELSE seg_records[s]]
      /\ seg_bytes' = [s \in Starts |-> IF s \in covered THEN 0 ELSE seg_bytes[s]]
      /\ journal_records' = records /\ journal_bytes' = bytes
      /\ checkpoint_error' = FALSE
      /\ ckpt' = Idle \/ ckpt' = [Idle EXCEPT !.phase = "begin"]
      /\ UNCHANGED <<vars, mode, applied_seq, notices, checkpoint_requested,
                     persistence_fault, saver, snapVars, dirVars, ackVars>>
  BY DEF CkptFinish
<1>2. covered \in SUBSET Starts
  OBVIOUS
<1> HIDE DEF covered
<1>3. records \in Nat /\ bytes \in Nat
  <2>1. Total(seg_records, covered) \in Nat /\ Total(seg_bytes, covered) \in Nat
    BY <1>0, <1>2, TotalType DEF StoreTypeOK
  <2>2. journal_records \in Nat /\ journal_bytes \in Nat
    BY <1>0 DEF StoreTypeOK
  <2>3. \A a \in Nat, b \in Nat : MaxOf(0, a - b) \in Nat
    BY DEF MaxOf
  <2>4. QED
    BY <2>1, <2>2, <2>3
<1> HIDE DEF records, bytes
<1>4. UNCHANGED <<clientVars, tickets, queue, batch, streamVars, flush, fileVars, next_sequence,
                  segment_start, handles, written_seq, durable_seq, incarnation, snapshot,
                  snapshot_maybe, present, torn, seeded, file, disk, acked_written, acked_durable>>
  BY <1>1 DEF vars, clientVars, streamVars, snapVars, dirVars, ackVars, fileVars
<1>5. /\ snapshot_maybe = {ckpt.boundary} /\ snapshot = ckpt.boundary
      /\ ckpt.boundary \in 0..MaxSeq /\ checkpoint_seq \in -1..MaxSeq /\ checkpoint_seq <= snapshot
      /\ Up /\ mode \in {"open", "closing"} /\ Captured
  BY <1>0, <1>1, IntFacts DEF MarkInv, StoreTypeOK, At, Up, Captured
<1>6. ckpt' \in Thread /\ ckpt'.phase \in {"idle", "begin"}
  BY <1>1, ThreadFacts DEF Phases
<1>7. checkpoint_seq' = ckpt.boundary /\ ckpt.boundary \in Int
  BY <1>1, <1>5, IntFacts DEF MaxOf
<1>8. StoreTypeOK'
  <2>1. seg_records' \in [Starts -> Nat] /\ seg_bytes' \in [Starts -> Nat]
    <3>1. seg_records \in [Starts -> Nat] /\ seg_bytes \in [Starts -> Nat]
      BY <1>0 DEF StoreTypeOK
    <3>2. QED
      BY <1>1, <3>1
  <2>2. checkpoint_seq' \in -1..MaxSeq /\ retirement_pending' \in BOOLEAN
    BY <1>0, <1>1, <1>5, <1>7, IntFacts DEF StoreTypeOK
  <2>3. QED
    BY <1>0, <1>1, <1>3, <1>4, <1>6, <2>1, <2>2 DEF StoreTypeOK, Thread
<1>9. JInv'
  BY <1>1, <1>4, JStill DEF Inv
<1>10. FileInv' /\ CoordInv'
  BY <1>0, <1>1, <1>4, KeepFile, KeepCoord
<1>11. \A m \in Marks' : m \in Marks
  BY <1>4, <1>5, <1>6, <1>7 DEF Marks, Captured
<1>12. CutInv'
  <2>1. \A s \in Starts, n \in Seqs : Holds(s, n)' => Holds(s, n)
    BY <1>4, KeepHolds
  <2>2. Up' => Up
    BY <1>1 DEF Up
  <2>3. segment_start \in Starts
    BY <1>0 DEF TypeOK
  <2>4. QED
    BY <1>0, <1>4, <1>11, <2>1, <2>2, <2>3, KeepCut
<1>13. MarkInv'
  <2>1. snapshot' \in snapshot_maybe' /\ (\A m \in snapshot_maybe' : m <= snapshot')
        /\ checkpoint_seq' <= snapshot' /\ \A m \in snapshot_maybe' : checkpoint_seq' <= m
    BY <1>4, <1>5, <1>7
  <2>2. mode' = mode /\ ~Captured' /\ ~At("sync")' /\ ~At("retire")' /\ ~At("finish")'
    BY <1>1, <1>6 DEF Captured, At
  <2>3. QED
    BY <1>5, <2>1, <2>2 DEF MarkInv
<1>14. FrontInv'
  <2>1. snapshot' <= durable_seq' /\ ~At("seal")' /\ ~At("seal")
    BY <1>0, <1>1, <1>4, <1>5, <1>6 DEF FrontInv, At
  <2>2. ~persistence_fault' => segment_start' - 1 <= durable_seq'
    BY <1>0, <1>1, <1>4, <1>5, <2>1 DEF FrontInv
  <2>3. QED
    BY <1>6, <2>1, <2>2 DEF FrontInv
<1>15. WrittenIsRecoverable'
  BY <1>0, <1>4 DEF WrittenIsRecoverable
<1>16. QED
  BY <1>8, <1>9, <1>10, <1>12, <1>13, <1>14, <1>15 DEF Inv, StoreInv

-----------------------------------------------------------------------------
(***************************************************************************)
(* Death of the process, power loss, and load.                             *)
(***************************************************************************)

LEMMA JTypes ==
    ASSUME file' \in [Starts -> SUBSET Seqs], disk' \in [Starts -> SUBSET Seqs],
           \A s \in Starts : disk'[s] \subseteq file'[s]
    PROVE  /\ JFile' \in [Starts -> SUBSET Seqs] /\ JDisk' \in [Starts -> SUBSET Seqs]
           /\ \A s \in Starts : JDisk'[s] \subseteq JFile'[s]
           /\ Covered' \subseteq JDisk'[1]
<1>1. 1 \in Starts /\ Covered' \subseteq Seqs
  BY IntFacts DEF Covered, Starts, Seqs
<1>2. \A s \in Starts :
          /\ JFile'[s] = (IF s = 1 THEN file'[s] \cup Covered' ELSE file'[s])
          /\ JDisk'[s] = (IF s = 1 THEN disk'[s] \cup Covered' ELSE disk'[s])
  BY DEF JFile, JDisk
<1>3. \A s \in Starts : JFile'[s] \subseteq Seqs /\ JDisk'[s] \subseteq Seqs
  BY <1>1, <1>2
<1>4. JFile' = [s \in Starts |-> JFile'[s]] /\ JDisk' = [s \in Starts |-> JDisk'[s]]
  BY DEF JFile, JDisk
<1>5. \A s \in Starts : JDisk'[s] \subseteq JFile'[s]
  BY <1>2
<1>6. JDisk'[1] = disk'[1] \cup Covered'
  BY <1>1, <1>2
<1>7. QED
  BY <1>3, <1>4, <1>5, <1>6

\* The memory is gone, and the files have lost at most what was not synced.
LEMMA DownKeeps ==
    ASSUME Inv, ForgetMemory,
           file' \in [Starts -> SUBSET Seqs], disk' \in [Starts -> SUBSET Seqs],
           \A s \in Starts : disk'[s] \subseteq file'[s] /\ file'[s] \subseteq file[s],
           \A s \in Starts : file'[s] # {} => s \in present',
           present' \subseteq Starts, torn' \subseteq Starts,
           snapshot' \in snapshot_maybe', snapshot_maybe' \subseteq snapshot_maybe,
           \A m \in snapshot_maybe' : m <= snapshot',
           acked_written' \in {acked_written, acked_durable}, acked_durable' = acked_durable
    PROVE  Inv'
<1>0. StoreTypeOK /\ FileInv /\ MarkInv /\ CoordInv /\ CutInv /\ TypeOK
  BY JFacts DEF Inv, StoreInv
<1>1. /\ mode' = "down" /\ tickets' = {} /\ queue' = <<>> /\ batch' = NoBatch /\ flush' = NoFlush
      /\ registered' = FALSE /\ owners' = 0 /\ closing' = FALSE
      /\ written_seq' = 0 /\ durable_seq' = 0 /\ requested_seq' = 0 /\ sealed_seq' = 0
      /\ segments' = [s \in Starts |-> NoSegment] /\ error' = "none"
      /\ next_sequence' = 1 /\ segment_start' = 1 /\ handles' = 0
      /\ applied_seq' = 0 /\ checkpoint_seq' = -1
      /\ ckpt' = Idle /\ seeded' = 0 /\ incarnation' = incarnation
  BY DEF ForgetMemory
<1>2. JFlush' = NoFlush
  BY <1>1, BlankFacts DEF JFlush
<1>3. JInv'
  <2>1. 0 \in 0..MaxSeq /\ 0 + 1 = 1 /\ 1 \in Starts /\ incarnation' \in Nat /\ 1..0 = {}
    BY <1>0, <1>1, IntFacts DEF TypeOK, Starts
  <2>2. batch' \in Batch /\ batch'.phase = "idle"
    BY <1>1, BlankFacts
  <2>3. /\ JFile' \in [Starts -> SUBSET Seqs] /\ JDisk' \in [Starts -> SUBSET Seqs]
        /\ \A s \in Starts : JDisk'[s] \subseteq JFile'[s]
    BY JTypes
  <2>4. PICK w \in 0..MaxSeq : w = 0
    BY <2>1
  <2>5. /\ written_seq' = w /\ durable_seq' = w /\ requested_seq' = w /\ next_sequence' = w + 1
        /\ segment_start' \in Starts /\ 1..w \subseteq JDisk'[1]
    BY <1>1, <2>1, <2>4
  <2>6. /\ tickets' \subseteq Ticket /\ handles' \in {0, 1} /\ owners' = handles'
        /\ registered' \in BOOLEAN /\ (~registered' <=> handles' = 0)
    BY <1>1
  <2>7. QED
    BY <1>1, <1>2, <2>1, <2>2, <2>3, <2>5, <2>6, JFresh
<1>4. StoreTypeOK'
  <2>1. snapshot' \in -1..MaxSeq /\ snapshot_maybe' \subseteq -1..MaxSeq
        /\ acked_written' \in 0..MaxSeq /\ acked_durable' \in 0..MaxSeq
    BY <1>0 DEF StoreTypeOK
  <2>2. 0 \in 0..MaxSeq /\ -1 \in -1..MaxSeq /\ 0 \in Nat
    BY IntFacts
  <2>3. /\ seg_records' \in [Starts -> Nat] /\ seg_bytes' \in [Starts -> Nat]
        /\ journal_records' \in Nat /\ journal_bytes' \in Nat /\ notices' \subseteq Seqs \X Starts
        /\ checkpoint_requested' \in BOOLEAN /\ checkpoint_error' \in BOOLEAN
        /\ persistence_fault' \in BOOLEAN /\ retirement_pending' \in BOOLEAN /\ saver' \in -1..MaxSeq
    BY <2>2 DEF ForgetMemory
  <2>4. mode' \in Modes /\ ckpt' \in Thread
    BY <1>1, ThreadFacts DEF Modes
  <2>5. QED
    BY <1>1, <2>1, <2>2, <2>3, <2>4 DEF StoreTypeOK, Thread
<1>5. FileInv'
  <2>1. NoFlush.incarnation = 0 /\ incarnation \in Nat
    BY <1>0 DEF NoFlush, TypeOK
  <2>2. flush' \in FlushWork /\ flush'.incarnation <= incarnation' /\ batch'.phase # "written"
    BY <1>1, <2>1, BlankFacts
  <2>3. QED
    BY <2>2 DEF FileInv
<1>6. ~Up' /\ ckpt'.phase = "idle"
  BY <1>1, ThreadFacts DEF Up
<1>7. CoordInv'
  BY <1>1 DEF CoordInv
<1>8. CutInv'
  <2>1. ASSUME NEW s \in Starts, NEW n \in Seqs, Holds(s, n)' PROVE Holds(s, n)
    <3>1. n \in file'[s]
      BY <1>1, <2>1, HoldsNext, BlankFacts DEF InBatch, Queued
    <3>2. QED
      BY <3>1, HoldsIs
  <2>2. \A m \in Marks' : m \in Marks \/ m = -1
    BY <1>1, <1>6 DEF Marks, Captured
  <2>3. segment_start \in Starts
    BY <1>0 DEF TypeOK
  <2>4. QED
    BY <1>0, <1>6, <2>1, <2>2, <2>3, KeepCut
<1>9. MarkInv'
  BY <1>6 DEF MarkInv, Captured, At
<1>10. FrontInv'
  BY <1>6 DEF FrontInv, At
<1>11. WrittenIsRecoverable'
  <2>1. \A n \in 1..written_seq' : FALSE
    BY <1>1
  <2>2. QED
    BY <2>1 DEF WrittenIsRecoverable
<1>12. QED
  BY <1>3, <1>4, <1>5, <1>7, <1>8, <1>9, <1>10, <1>11 DEF Inv, StoreInv

LEMMA CrashKeeps ==
    ASSUME Inv, ProcessCrash
    PROVE  Inv'
<1>0. StoreTypeOK /\ FileInv /\ MarkInv
  BY DEF Inv, StoreInv
<1>1. ForgetMemory /\ UNCHANGED <<file, disk, snapshot, snapshot_maybe, present, torn,
                                  acked_written, acked_durable>>
  BY DEF ProcessCrash, fileVars, snapVars, dirVars
<1>2. /\ file' \in [Starts -> SUBSET Seqs] /\ disk' \in [Starts -> SUBSET Seqs]
      /\ \A s \in Starts : disk'[s] \subseteq file'[s] /\ file'[s] \subseteq file[s]
      /\ \A s \in Starts : file'[s] # {} => s \in present'
  BY <1>0, <1>1 DEF FileInv
<1>3. present' \subseteq Starts /\ torn' \subseteq Starts
  BY <1>0, <1>1 DEF StoreTypeOK
<1>4. /\ snapshot' \in snapshot_maybe' /\ snapshot_maybe' \subseteq snapshot_maybe
      /\ \A m \in snapshot_maybe' : m <= snapshot'
  BY <1>0, <1>1 DEF MarkInv
<1>5. QED
  BY <1>1, <1>2, <1>3, <1>4, DownKeeps

LEMMA PowerKeeps ==
    ASSUME Inv, PowerLoss
    PROVE  Inv'
<1>0. StoreTypeOK /\ FileInv /\ MarkInv
  BY DEF Inv, StoreInv
<1>1. PICK cut \in Cuts, headers \in SUBSET present :
          /\ file' = Survivors(cut) /\ disk' = Survivors(cut)
          /\ present' = {s \in present : Survivors(cut)[s] # {}} \cup headers
          /\ torn' \subseteq present'
  BY DEF PowerLoss
<1>2. /\ ForgetMemory /\ snapshot' \in snapshot_maybe /\ snapshot_maybe' = {snapshot'}
      /\ acked_written' = acked_durable /\ acked_durable' = acked_durable
  BY DEF PowerLoss
<1>3. \A s \in Starts : disk[s] \subseteq file[s] /\ file[s] \subseteq Seqs /\ (file[s] # {} => s \in present)
  BY <1>0 DEF FileInv
<1>4. \A s \in Starts : file'[s] = disk[s] \cup {n \in file[s] : n <= cut[s]} /\ disk'[s] = file'[s]
  BY <1>1 DEF Survivors
<1>5. \A s \in Starts : file'[s] \subseteq file[s] /\ file'[s] \subseteq Seqs
  BY <1>3, <1>4
<1>6. file' \in [Starts -> SUBSET Seqs] /\ disk' \in [Starts -> SUBSET Seqs]
  <2>1. file' = [s \in Starts |-> file'[s]] /\ disk' = file'
    BY <1>1 DEF Survivors
  <2>2. QED
    BY <1>5, <2>1
<1>7. \A s \in Starts : file'[s] # {} => s \in present'
  BY <1>1, <1>3, <1>5
<1>8. present' \subseteq Starts /\ torn' \subseteq Starts
  BY <1>0, <1>1 DEF StoreTypeOK
<1>9. snapshot' <= snapshot'
  BY <1>0, <1>2, MarkTypes
<1>10. QED
  BY <1>2, <1>4, <1>5, <1>6, <1>7, <1>8, <1>9, DownKeeps

\* What replay finds when it meets no hole.
LEMMA LoadFacts ==
    ASSUME StoreTypeOK, Contiguous
    PROVE  /\ Recovered \in 0..MaxSeq /\ Base \in 0..MaxSeq /\ snapshot <= Base /\ Base <= Recovered
           /\ \A n \in Seqs : n <= snapshot <=> n <= Base
           /\ \A n \in Seqs : n \in Replayed <=> Base < n /\ n <= Recovered
           /\ IsFiniteSet(Replayed)
<1>0. snapshot \in -1..MaxSeq /\ MaxSeq \in Nat
  BY IntFacts DEF StoreTypeOK
<1>1. Base \in 0..MaxSeq /\ snapshot <= Base /\ \A n \in Seqs : n <= snapshot <=> n <= Base
  BY <1>0 DEF Base, MaxOf, Seqs
<1>2. Replayed \subseteq Seqs
  BY DEF Replayed
<1>3. IsFiniteSet(Replayed)
  <2>1. IsFiniteSet(1..MaxSeq)
    BY <1>0, FS_Interval
  <2>2. QED
    BY <1>2, <2>1, FS_Subset DEF Seqs
<1>4. PICK c \in Nat : c = Cardinality(Replayed)
  BY <1>3, FS_CardinalityType
<1>5. Replayed = (Base + 1)..(Base + c) /\ Recovered = Base + c
  BY <1>4 DEF Contiguous, Recovered
<1>6. Base + c <= MaxSeq
  <2>1. CASE c = 0
    BY <1>1, <2>1, <1>0
  <2>2. CASE c # 0
    <3>1. Base + c \in (Base + 1)..(Base + c)
      BY <1>1, <1>4, <2>2
    <3>2. Base + c \in Seqs
      BY <1>2, <1>5, <3>1
    <3>3. QED
      BY <3>2 DEF Seqs
  <2>3. QED
    BY <2>1, <2>2
<1>7. Recovered \in 0..MaxSeq /\ Base <= Recovered
  <2>1. \A x \in 0..MaxSeq : x \in Nat
    OBVIOUS
  <2>2. Base \in Nat
    BY <1>1, <2>1
  <2>3. Base + c \in 0..MaxSeq /\ Base <= Base + c
    BY <1>0, <1>6, <2>2
  <2>4. QED
    BY <1>5, <2>3
<1>8. ASSUME NEW n \in Seqs PROVE n \in Replayed <=> Base < n /\ n <= Recovered
  <2>1. n \in Int /\ Base \in Int /\ c \in Int
    BY <1>1, <1>4, IntFacts
  <2>2. QED
    BY <1>5, <2>1
<1>9. QED
  BY <1>1, <1>3, <1>7, <1>8, Zenon

\* The journal opens seeded with what replay found: its records are in the
\* snapshot or in a segment that is kept.
LEMMA AcceptKeeps ==
    ASSUME Inv, mode \in {"down", "closed"}, Contiguous, LoadAccepted
    PROVE  Inv'
<1>0. StoreTypeOK /\ FileInv /\ MarkInv /\ CoordInv /\ CutInv /\ TypeOK
      /\ (handles = 0 /\ queue = <<>> => batch.phase = "idle")
  BY JFacts DEF Inv, StoreInv
<1>0a. \A c : \A e \in Deletions(c) : e.gone \subseteq c /\ e.pending \in BOOLEAN
  <2>1. SUFFICES ASSUME NEW c, NEW e \in Deletions(c)
                 PROVE  e.gone \subseteq c /\ e.pending \in BOOLEAN
    OBVIOUS
  <2>2. \/ e \in {x \in [gone : SUBSET c, pending : BOOLEAN] : x.gone # c => x.pending}
        \/ e = [gone |-> c, pending |-> FALSE]
    BY Zenon DEF Deletions
  <2>3. CASE e = [gone |-> c, pending |-> FALSE]
    BY <2>3, Zenon
  <2>4. CASE e \in {x \in [gone : SUBSET c, pending : BOOLEAN] : x.gone # c => x.pending}
    <3>1. e \in [gone : SUBSET c, pending : BOOLEAN]
      BY <2>4, Zenon
    <3>2. QED
      BY <3>1, SMT
  <2>5. QED
    BY <2>2, <2>3, <2>4
<1> DEFINE resume == {s \in Starts : Resumable(s)}
           start  == IF resume = {} THEN Recovered + 1 ELSE CHOOSE s \in resume : TRUE
           live   == [s \in Starts |-> IF s \in present
                                       THEN Cardinality(file[s] \cap Replayed) ELSE 0]
           covered == {s \in present : s <= Base /\ live[s] = 0 /\ s # start}
           synced  == [s \in Starts |-> IF s \in Truncated(resume) THEN file[s] ELSE disk[s]]
<1>1. PICK d \in Deletions(covered) :
          /\ retirement_pending' = d.pending
          /\ present' = present \ d.gone
          /\ torn' = (torn \ d.gone) \ Truncated(resume)
          /\ file' = Without(file, d.gone)
          /\ disk' = Without(synced, d.gone)
  BY DEF LoadAccepted
<1>2. /\ mode' = "open" /\ incarnation' = incarnation + 1
      /\ registered' = TRUE /\ owners' = 1 /\ closing' = FALSE /\ handles' = 1
      /\ applied_seq' = Recovered /\ checkpoint_seq' = snapshot
      /\ next_sequence' = Recovered + 1 /\ segment_start' = start
      /\ written_seq' = Recovered /\ durable_seq' = Recovered /\ requested_seq' = Recovered
      /\ sealed_seq' = 0 /\ segments' = [s \in Starts |-> NoSegment] /\ error' = "none"
      /\ seg_records' = live /\ seg_bytes' = live
      /\ journal_records' = Total(live, Starts) /\ journal_bytes' = Total(live, Starts)
      /\ notices' = {} /\ checkpoint_requested' = FALSE /\ checkpoint_error' = FALSE
      /\ persistence_fault' = FALSE /\ ckpt' = Idle /\ saver' = -1
      /\ seeded' = Recovered
      /\ UNCHANGED <<tickets, queue, batch, flush, snapVars, acked_written, acked_durable>>
  BY DEF LoadAccepted
<1>3. UNCHANGED <<snapshot, snapshot_maybe>>
  BY <1>2 DEF snapVars
<1>4. /\ Recovered \in 0..MaxSeq /\ Base \in 0..MaxSeq /\ snapshot <= Base /\ Base <= Recovered
      /\ \A n \in Seqs : n <= snapshot <=> n <= Base
      /\ \A n \in Seqs : n \in Replayed <=> Base < n /\ n <= Recovered
      /\ IsFiniteSet(Replayed)
  BY <1>0, LoadFacts
<1>5. \A s \in Starts, n \in Seqs : n \in file[s] =>
          s <= n /\ s \in present /\ n <= Recovered /\ \A m \in Marks : s <= m => n <= m
  <2>1. ASSUME NEW s \in Starts, NEW n \in Seqs, n \in file[s]
        PROVE  s <= n /\ s \in present /\ n <= Recovered /\ \A m \in Marks : s <= m => n <= m
    <3>1. Holds(s, n)
      BY <2>1, HoldsIs
    <3>2. s <= n /\ \A m \in Marks : s <= m => n <= m
      BY <1>0, <3>1 DEF CutInv
    <3>3. s \in present
      BY <1>0, <2>1 DEF FileInv
    <3>4. n > Base => n \in Replayed
      BY <2>1, <3>3 DEF Replayed
    <3>5. n <= Recovered
      BY <1>4, <3>4, IntFacts
    <3>6. QED
      BY <3>2, <3>3, <3>5
  <2>2. QED
    BY <2>1
<1>6. Marks \subseteq Int /\ \A m \in {snapshot} \cup snapshot_maybe : m \in Marks /\ m \in Int /\ m <= Recovered
  <2>1. Marks \subseteq Int /\ snapshot_maybe \subseteq Int /\ snapshot \in Int
    BY <1>0, MarkTypes
  <2>2. \A m \in snapshot_maybe : m <= snapshot
    BY <1>0 DEF MarkInv
  <2>3. snapshot <= Recovered
    BY <1>4, <2>1
  <2>4. ASSUME NEW m \in {snapshot} \cup snapshot_maybe PROVE m \in Marks /\ m \in Int /\ m <= Recovered
    <3>1. m \in Marks /\ m \in Int /\ m <= snapshot
      BY <2>1, <2>2 DEF Marks
    <3>2. QED
      BY <1>4, <2>1, <2>3, <3>1
  <2>5. QED
    BY <2>1, <2>4
<1>7. /\ start \in Starts /\ start <= Recovered + 1
      /\ \A m \in {snapshot} \cup snapshot_maybe : m < start
  <2>1. CASE resume = {}
    <3>1. start = Recovered + 1 /\ start \in Starts
      BY <1>4, <2>1, IntFacts DEF Starts
    <3>2. \A m \in {snapshot} \cup snapshot_maybe : m < start
      BY <1>4, <1>6, <3>1
    <3>3. QED
      BY <1>4, <3>1, <3>2
  <2>2. CASE resume # {}
    <3>1. start \in resume
      BY <2>2
    <3> DEFINE s == start
    <3>2. s \in Starts /\ (file[s] \cap Replayed # {} \/ s = Recovered + 1)
      BY <3>1 DEF Resumable
    <3> HIDE DEF s, start
    <3>3. CASE s = Recovered + 1
      <4>1. \A m \in {snapshot} \cup snapshot_maybe : m < s
        BY <1>4, <1>6, <3>3
      <4>2. QED
        BY <1>4, <3>2, <3>3, <4>1 DEF s
    <3>4. CASE file[s] \cap Replayed # {}
      <4>1. PICK n \in Replayed : n \in file[s]
        BY <3>4
      <4>2. n \in Seqs /\ n > Base
        BY <4>1 DEF Replayed
      <4>3. s <= n /\ n <= Recovered /\ \A m \in Marks : s <= m => n <= m
        BY <1>5, <3>2, <4>1, <4>2
      <4>4. n \in Int /\ s \in Int /\ Base \in Int /\ Recovered \in Int /\ snapshot \in Int
        BY <1>0, <1>4, <3>2, <4>2, IntFacts, MarkTypes
      <4>5. ASSUME NEW m \in {snapshot} \cup snapshot_maybe PROVE m < s
        <5>1. m \in Marks /\ m \in Int
          BY <1>6
        <5>2. m <= snapshot
          BY <1>0, <4>4 DEF MarkInv
        <5>3. QED
          BY <1>4, <4>2, <4>3, <4>4, <5>1, <5>2
      <4>6. s <= Recovered + 1
        BY <4>3, <4>4
      <4>7. QED
        BY <3>2, <4>5, <4>6 DEF s
    <3>5. QED
      BY <3>2, <3>3, <3>4
  <2>3. QED
    BY <2>1, <2>2
<1>8. live \in [Starts -> Nat]
  <2>1. ASSUME NEW s \in Starts PROVE Cardinality(file[s] \cap Replayed) \in Nat
    <3>1. IsFiniteSet(file[s] \cap Replayed)
      BY <1>4, FS_Subset
    <3>2. QED
      BY <3>1, FS_CardinalityType
  <2>2. QED
    BY <2>1
<1>9. \A s \in d.gone : s \in present /\ file[s] \cap Replayed = {}
  <2>1. ASSUME NEW s \in d.gone PROVE s \in present /\ file[s] \cap Replayed = {}
    <3>1. s \in covered
      BY <1>0a
    <3>2. s \in present /\ s \in Starts /\ live[s] = 0
      BY <1>0, <3>1 DEF StoreTypeOK
    <3>3. Cardinality(file[s] \cap Replayed) = 0
      BY <3>2
    <3>4. IsFiniteSet(file[s] \cap Replayed)
      BY <1>4, FS_Subset
    <3>5. QED
      BY <3>2, <3>3, <3>4, FS_EmptySet
  <2>2. QED
    BY <2>1
<1>10. \A s \in Starts : synced[s] \subseteq file[s]
  BY <1>0 DEF FileInv
<1>11. PICK t0 \in Starts : t0 = start
  BY <1>7
<1> HIDE DEF resume, start, live, covered, synced
<1>12. /\ file' \in [Starts -> SUBSET Seqs] /\ disk' \in [Starts -> SUBSET Seqs]
       /\ \A s \in Starts : disk'[s] \subseteq file'[s] /\ file'[s] \subseteq file[s]
       /\ \A s \in Starts : s \notin d.gone => file'[s] = file[s]
       /\ \A s \in Starts : file'[s] # {} => s \notin d.gone
  <2>1. \A s \in Starts : /\ file'[s] = (IF s \in d.gone THEN {} ELSE file[s])
                          /\ disk'[s] = (IF s \in d.gone THEN {} ELSE synced[s])
    BY <1>1 DEF Without
  <2>2. \A s \in Starts : disk'[s] \subseteq file'[s] /\ file'[s] \subseteq file[s]
    BY <1>10, <2>1
  <2>3. \A s \in Starts : file[s] \subseteq Seqs
    BY <1>0 DEF FileInv
  <2>4. file' = [s \in Starts |-> file'[s]] /\ disk' = [s \in Starts |-> disk'[s]]
    BY <1>1 DEF Without
  <2>5. QED
    BY <2>1, <2>2, <2>3, <2>4
<1>13. handles = 0 /\ queue = <<>> /\ batch.phase = "idle"
  BY <1>0 DEF CoordInv
<1>14. flush \in FlushWork /\ flush.incarnation <= incarnation /\ incarnation \in Nat
       /\ flush.incarnation \in Nat
  BY <1>0 DEF FileInv, TypeOK, FlushWork
<1>15. FileInv'
  <2>1. flush' \in FlushWork /\ flush'.incarnation <= incarnation' /\ batch'.phase # "written"
    BY <1>2, <1>13, <1>14
  <2>2. \A s \in Starts : file'[s] # {} => s \in present'
    <3>1. \A s \in Starts : file[s] # {} => s \in present
      BY <1>0 DEF FileInv
    <3>2. QED
      BY <1>1, <1>12, <3>1
  <2>3. QED
    BY <1>12, <2>1, <2>2 DEF FileInv
<1>16. JInv'
  <2>1. PICK w \in 0..MaxSeq : w = Recovered
    BY <1>4
  <2>2. /\ JFile' \in [Starts -> SUBSET Seqs] /\ JDisk' \in [Starts -> SUBSET Seqs]
        /\ \A s \in Starts : JDisk'[s] \subseteq JFile'[s]
        /\ Covered' \subseteq JDisk'[1]
    BY <1>12, JTypes
  <2>3. 1..w \subseteq Covered'
    <3>1. \A n \in 1..w : n \in Seqs /\ n <= w
      BY IntFacts DEF Seqs
    <3>2. seeded' = w
      BY <1>2, <2>1
    <3>3. \A n \in 1..w : n <= seeded'
      BY <3>1, <3>2
    <3>4. QED
      BY <3>1, <3>3 DEF Covered
  <2>4. JFlush' = NoFlush
    <3>1. flush'.incarnation # incarnation'
      BY <1>2, <1>14
    <3>2. QED
      BY <3>1, BlankFacts DEF JFlush, NoFlush
  <2>5. queue' = <<>> /\ batch' \in Batch /\ batch'.phase = "idle" /\ tickets' \subseteq Ticket
        /\ incarnation' \in Nat
    BY <1>0, <1>2, <1>13, <1>14 DEF TypeOK
  <2>6. handles' \in {0, 1} /\ owners' = handles' /\ registered' \in BOOLEAN
        /\ (~registered' <=> handles' = 0)
    BY <1>2
  <2>7. segment_start' \in Starts
    BY <1>2, <1>7
  <2>8. /\ written_seq' = w /\ durable_seq' = w /\ requested_seq' = w /\ next_sequence' = w + 1
    BY <1>2, <2>1
  <2>9. 1..w \subseteq JDisk'[1]
    BY <2>2, <2>3
  <2>10. sealed_seq' = 0 /\ segments' = [s \in Starts |-> NoSegment] /\ error' = "none"
         /\ closing' = FALSE
    BY <1>2
  <2>11. QED
    BY <2>2, <2>4, <2>5, <2>6, <2>7, <2>8, <2>9, <2>10, JFresh
<1>17. StoreTypeOK'
  <2>1. /\ seg_records' \in [Starts -> Nat] /\ seg_bytes' \in [Starts -> Nat]
        /\ journal_records' \in Nat /\ journal_bytes' \in Nat
    BY <1>2, <1>8, TotalType
  <2>2. present' \subseteq Starts /\ torn' \subseteq Starts /\ retirement_pending' \in BOOLEAN
    <3>1. d.pending \in BOOLEAN
      BY <1>0a
    <3>2. present \subseteq Starts /\ torn \subseteq Starts
      BY <1>0 DEF StoreTypeOK
    <3>3. QED
      BY <1>1, <3>1, <3>2
  <2>3. applied_seq' \in 0..MaxSeq /\ seeded' \in 0..MaxSeq /\ checkpoint_seq' \in -1..MaxSeq
        /\ snapshot' \in -1..MaxSeq /\ snapshot_maybe' \subseteq -1..MaxSeq
    BY <1>0, <1>2, <1>3, <1>4 DEF StoreTypeOK
  <2>4. mode' \in Modes /\ ckpt' \in Thread /\ saver' \in -1..MaxSeq /\ notices' \subseteq Seqs \X Starts
    BY <1>2, ThreadFacts, IntFacts DEF Modes
  <2>5. checkpoint_requested' \in BOOLEAN /\ checkpoint_error' \in BOOLEAN
        /\ persistence_fault' \in BOOLEAN
    BY <1>2
  <2>6. acked_written' \in 0..MaxSeq /\ acked_durable' \in 0..MaxSeq
    BY <1>0, <1>2 DEF StoreTypeOK
  <2>7. QED
    BY <2>1, <2>2, <2>3, <2>4, <2>5, <2>6 DEF StoreTypeOK, Thread
<1>18. Up' /\ ckpt'.phase = "idle" /\ mode' = "open"
  BY <1>2, ThreadFacts DEF Up
<1>19. CoordInv'
  <2>1. written_seq' < next_sequence' /\ segment_start' <= next_sequence'
        /\ applied_seq' = next_sequence' - 1
    BY <1>2, <1>4, <1>7
  <2>2. queue' = <<>> /\ handles' = 1
    BY <1>2, <1>13
  <2>3. QED
    BY <1>18, <2>1, <2>2 DEF CoordInv
<1>20. Marks' = {snapshot} \cup snapshot_maybe
  BY <1>2, <1>3, <1>18 DEF Marks, Captured
<1>21. CutInv'
  <2>1. ASSUME NEW s \in Starts, NEW n \in Seqs, Holds(s, n)'
        PROVE  s <= n /\ n < next_sequence' /\ \A m \in Marks' : s <= m => n <= m
    <3>1. n \in file'[s]
      <4>1. ~InBatch(s, n)' /\ ~Queued(s, n)'
        BY <1>2, <1>13 DEF InBatch, Queued
      <4>2. QED
        BY <2>1, <4>1, HoldsNext
    <3>2. n \in file[s]
      BY <1>12, <3>1
    <3>3. s <= n /\ n <= Recovered /\ \A m \in Marks : s <= m => n <= m
      BY <1>5, <3>2
    <3>4. n < next_sequence'
      BY <1>2, <1>4, <3>3, IntFacts
    <3>5. QED
      BY <1>6, <1>20, <3>3, <3>4
  <2>2. \A m \in Marks' : m < segment_start'
    BY <1>2, <1>7, <1>20
  <2>3. QED
    BY <2>1, <2>2 DEF CutInv
<1>22. MarkInv'
  <2>1. snapshot' \in snapshot_maybe' /\ \A m \in snapshot_maybe' : m <= snapshot'
    BY <1>0, <1>3 DEF MarkInv
  <2>2. checkpoint_seq' <= snapshot' /\ checkpoint_seq' <= seeded'
    BY <1>0, <1>2, <1>3, <1>6, MarkTypes
  <2>3. ~Captured' /\ ~At("sync")' /\ ~At("retire")' /\ ~At("finish")' /\ At("idle")'
    BY <1>18 DEF Captured, At
  <2>4. QED
    BY <2>1, <2>2, <2>3 DEF MarkInv
<1>23. FrontInv'
  <2>1. snapshot' <= durable_seq' /\ segment_start' - 1 <= durable_seq'
    BY <1>2, <1>3, <1>4, <1>6, <1>7, <1>11, IntFacts
  <2>2. QED
    BY <1>18, <2>1 DEF FrontInv, At
<1>24. WrittenIsRecoverable'
  <2>1. ASSUME NEW n \in 1..written_seq'
        PROVE  n <= snapshot' \/ \E s \in present' : n \in file'[s]
    <3>1. n \in Seqs /\ n <= Recovered
      BY <1>2, <1>4, IntFacts DEF Seqs
    <3>2. CASE n <= Base
      BY <1>3, <1>4, <3>1, <3>2
    <3>3. CASE ~(n <= Base)
      <4>1. n \in Replayed
        BY <1>4, <3>1, <3>3, IntFacts
      <4>2. PICK s \in present : n \in file[s]
        BY <4>1 DEF Replayed
      <4>3. s \in Starts /\ s \notin d.gone
        BY <1>0, <1>9, <4>1, <4>2 DEF StoreTypeOK
      <4>4. QED
        BY <1>1, <1>12, <4>2, <4>3
    <3>4. QED
      BY <3>2, <3>3
  <2>2. QED
    BY <2>1 DEF WrittenIsRecoverable
<1>25. QED
  BY <1>15, <1>16, <1>17, <1>19, <1>21, <1>22, <1>23, <1>24 DEF Inv, StoreInv

LEMMA LoadKeeps ==
    ASSUME Inv, Load
    PROVE  Inv'
<1>1. mode \in {"down", "closed"}
  BY DEF Load
<1>2. CASE Contiguous
  <2>1. LoadAccepted
    BY <1>2 DEF Load
  <2>2. QED
    BY <1>1, <1>2, <2>1, AcceptKeeps
<1>3. CASE ~Contiguous
  <2>1. mode' = "refused" /\ UNCHANGED <<vars, memoryVars, ckpt, saver, snapVars, dirVars, ackVars>>
    BY <1>3 DEF Load, LoadRefused
  <2>2. StoreTypeOK /\ FileInv /\ TypeOK
    BY JFacts DEF Inv, StoreInv
  <2>3. UNCHANGED <<next_sequence, segment_start, handles, queue, batch, written_seq, flush,
                    incarnation, durable_seq, tickets, applied_seq, checkpoint_seq, snapshot,
                    snapshot_maybe, present, torn, file, disk, seeded, persistence_fault,
                    acked_written, acked_durable>>
    BY <2>1 DEF vars, clientVars, streamVars, fileVars, memoryVars, snapVars, dirVars, ackVars
  <2>4. JInv'
    BY <2>1, <2>3, JStill DEF Inv
  <2>5. StoreTypeOK'
    BY <2>1, <2>2, <2>3 DEF StoreTypeOK, Modes, memoryVars
  <2>6. FileInv'
    BY <2>2, <2>3, KeepFile
  <2>7. durable_seq <= durable_seq'
    BY <2>2, <2>3, IntFacts DEF TypeOK
  <2>8. Moves /\ ckpt' = ckpt
    BY <2>1 DEF Moves
  <2>9. QED
    BY <1>1, <2>1, <2>3, <2>4, <2>5, <2>6, <2>7, <2>8, Aside
<1>4. QED
  BY <1>2, <1>3

-----------------------------------------------------------------------------
(***************************************************************************)
(* The invariant of the store, and what it says.                           *)
(***************************************************************************)

LEMMA StoreInitInv ==
    ASSUME StoreInit
    PROVE  Inv
<1>1. /\ Init /\ Seeds = {0} /\ MaxSeq \in Nat /\ flush = NoFlush /\ NoFlush.incarnation = 0
      /\ NoFlush \in FlushWork /\ batch = NoBatch /\ NoBatch.phase = "idle" /\ queue = <<>>
      /\ handles = 1 /\ incarnation = 1 /\ tickets = {}
  BY BoundsAssumption, StoreAssumption, BlankFacts DEF StoreInit, Init, NoFlush
<1>2. /\ file = [s \in Starts |-> {}] /\ disk = file /\ next_sequence = 1 /\ segment_start = 1
      /\ written_seq = 0 /\ durable_seq = 0
  <2>1. PICK seed \in Seeds :
          /\ next_sequence = seed + 1
          /\ segment_start \in {1, seed + 1}
          /\ written_seq = seed /\ durable_seq = seed
          /\ file = [s \in Starts |-> IF s = 1 THEN 1..seed ELSE {}]
          /\ disk = file
    BY <1>1 DEF Init
  <2>2. seed = 0
    BY <1>1, <2>1
  <2>3. 1..seed = {}
    BY <2>2
  <2>4. QED
    BY <2>1, <2>2, <2>3
<1>3. /\ mode = "open" /\ applied_seq = 0 /\ checkpoint_seq = -1
      /\ ckpt = Idle /\ snapshot = -1 /\ snapshot_maybe = {-1} /\ present = {} /\ torn = {}
      /\ acked_written = 0 /\ acked_durable = 0 /\ seeded = 0
  BY DEF StoreInit
<1>4. Up /\ Idle \in Thread /\ ckpt.phase = "idle" /\ ~Captured
  BY <1>3, ThreadFacts DEF Up, Captured
<1>5. StoreTypeOK
  <2>1. /\ seg_records \in [Starts -> Nat] /\ seg_bytes \in [Starts -> Nat]
        /\ journal_records \in Nat /\ journal_bytes \in Nat /\ notices \subseteq Seqs \X Starts
        /\ checkpoint_requested \in BOOLEAN /\ checkpoint_error \in BOOLEAN
        /\ persistence_fault \in BOOLEAN /\ retirement_pending \in BOOLEAN /\ saver = -1
    BY DEF StoreInit
  <2>2. 0 \in 0..MaxSeq /\ -1 \in -1..MaxSeq
    BY <1>1
  <2>3. QED
    BY <1>3, <1>4, <2>1, <2>2 DEF StoreTypeOK, Modes, Thread
<1>6. FileInv
  BY <1>1, <1>2 DEF FileInv
<1>7. CoordInv
  <2>1. \A i \in 1..Len(queue) : FALSE
    BY <1>1
  <2>2. QED
    BY <1>1, <1>2, <1>3, <2>1 DEF CoordInv
<1>8. CutInv
  <2>1. \A s \in Starts, n \in Seqs : ~Holds(s, n)
    BY <1>1, <1>2 DEF Holds
  <2>2. Marks = {-1}
    BY <1>3, <1>4 DEF Marks
  <2>3. QED
    BY <1>2, <2>1, <2>2 DEF CutInv
<1>9. MarkInv
  BY <1>3, <1>4 DEF MarkInv, At
<1>10. FrontInv
  BY <1>2, <1>3, <1>4 DEF FrontInv, At
<1>11. WrittenIsRecoverable
  BY <1>2 DEF WrittenIsRecoverable
<1>12. QED
  BY <1>5, <1>6, <1>7, <1>8, <1>9, <1>10, <1>11, JInit DEF Inv, StoreInv

LEMMA StoreNextInv ==
    ASSUME Inv, [StoreNext]_allVars
    PROVE  Inv'
<1>1. ASSUME Operations PROVE Inv'
  BY <1>1, CommitKeeps, FlushKeeps, QuietKeeps, Zenon DEF Operations
<1>2. ASSUME Checkpoint PROVE Inv'
  BY <1>2, RetireOnlyKeeps, BeginKeeps, QuietKeeps, WaitKeeps, PublishKeeps, CkptRetireKeeps,
     FinishKeeps, Zenon DEF Checkpoint
<1>3. ASSUME JournalThreads PROVE Inv'
  BY <1>3, WriterKeeps, FlusherKeeps, Zenon DEF JournalThreads
<1>4. ASSUME Restart PROVE Inv'
  BY <1>4, CrashKeeps, PowerKeeps, LoadKeeps, Zenon DEF Restart
<1>5. ASSUME UNCHANGED allVars PROVE Inv'
  <2>1. StoreTypeOK /\ FileInv /\ TypeOK
    BY JFacts DEF Inv, StoreInv
  <2>2. UNCHANGED <<vars, mode, memoryVars, ckpt, saver, snapVars, dirVars, ackVars>>
    BY <1>5 DEF allVars, storeVars
  <2>3. UNCHANGED <<next_sequence, segment_start, handles, queue, batch, written_seq, flush,
                    incarnation, durable_seq, tickets, applied_seq, checkpoint_seq, snapshot,
                    snapshot_maybe, present, torn, file, disk, seeded, persistence_fault,
                    acked_written, acked_durable>>
    BY <2>2 DEF vars, clientVars, streamVars, fileVars, memoryVars, snapVars, dirVars, ackVars
  <2>4. JInv'
    BY <2>2, <2>3, JStill DEF Inv
  <2>5. StoreTypeOK'
    BY <2>1, <2>2, <2>3 DEF StoreTypeOK, memoryVars
  <2>6. FileInv'
    BY <2>1, <2>3, KeepFile
  <2>7. durable_seq <= durable_seq'
    BY <2>1, <2>3, IntFacts DEF TypeOK
  <2>8. Moves /\ ckpt' = ckpt
    BY <2>2 DEF Moves
  <2>9. QED
    BY <2>2, <2>3, <2>4, <2>5, <2>6, <2>7, <2>8, Aside
<1>6. QED
  BY <1>1, <1>2, <1>3, <1>4, <1>5, QuietKeeps, WaitKeeps, ReleaseKeeps, Zenon DEF StoreNext

\* The inductive invariant of the store composed with its journal, through
\* commits, checkpoints, failures, close, crashes, power losses and loads.
THEOREM StoreInvariant == StoreSpec => []Inv
<1>1. StoreInit => Inv
  BY StoreInitInv
<1>2. Inv /\ [StoreNext]_allVars => Inv'
  BY StoreNextInv
<1>3. QED
  BY <1>1, <1>2, PTL DEF StoreSpec

\* Every variable of the store stays within its type, through the counts that
\* load takes of what it replays and those that a checkpoint subtracts.
THEOREM StoreTypes == StoreSpec => []StoreTypeOK
<1>1. Inv => StoreTypeOK
  BY DEF Inv, StoreInv
<1>2. QED
  BY <1>1, StoreInvariant, PTL

\* No checkpoint and no load deletes a segment (_retire_segments_through) that
\* still holds a record the published snapshot does not contain.
THEOREM StoreRecoverable == StoreSpec => []WrittenIsRecoverable
<1>1. Inv => WrittenIsRecoverable
  BY DEF Inv, StoreInv
<1>2. QED
  BY <1>1, StoreInvariant, PTL

\* _checkpoint_under_gate awaits the seal before it publishes: an open store
\* never shows a snapshot beyond what its journal has made durable.
THEOREM StoreSnapshotDurable == StoreSpec => []SnapshotIsDurable
<1>1. Inv => SnapshotIsDurable
  BY DEF Inv, StoreInv, FrontInv, Up, SnapshotIsDurable
<1>2. QED
  BY <1>1, StoreInvariant, PTL

LEMMA InvDurableSafe ==
    ASSUME Inv
    PROVE  DurableIsSafe
<1>1. ASSUME NEW n \in (seeded + 1)..durable_seq
      PROVE  OnMedium(n) \/ \A m \in snapshot_maybe : n <= m
  <2>1. durable_seq \in 0..MaxSeq /\ seeded \in 0..MaxSeq
    <3>1. TypeOK /\ StoreTypeOK
      BY JFacts DEF Inv, StoreInv
    <3>2. QED
      BY <3>1 DEF TypeOK, StoreTypeOK
  <2>2. n \in 1..durable_seq /\ n \in Seqs /\ ~(n <= seeded)
    BY <2>1, IntFacts DEF Seqs
  <2>3. PICK s \in Starts : n \in JDisk[s]
    BY <2>2, JSets DEF Inv, JInv, J!IInv, J!DurableIsSynced, J!OnMedium
  <2>4. n \in disk[s] \/ n \in Covered
    BY <2>3 DEF JDisk
  <2>5. n \in Covered => \A m \in snapshot_maybe : n <= m
    BY <2>2 DEF Covered
  <2>6. QED
    BY <2>4, <2>5 DEF OnMedium
<1>2. QED
  BY <1>1 DEF DurableIsSafe

\* What a durable commit waited for survives a power loss at any point of a
\* checkpoint: a segment is deleted only when the directory has been synced,
\* so that no snapshot a power loss may leave lacks its records.
THEOREM StoreDurableSafe == StoreSpec => []DurableIsSafe
BY InvDurableSafe, StoreInvariant, PTL

-----------------------------------------------------------------------------
(***************************************************************************)
(* What the files look like when the process dies: a stronger invariant,   *)
(* from which no load is refused, nothing follows an incomplete frame, and *)
(* the store implements the abstract log.                                  *)
(***************************************************************************)

\* The faults under which all that is so: those of the disk and the journal
\* together with the death of the process, or with a power loss that keeps a
\* prefix of what was written.  Not both, nor power loss where a store that
\* failed may be closed and opened again: a load vouches for all that it has
\* read (seed_state_stream at state.py:214) and deletes what the snapshot
\* covers (state.py:321), although neither may have been synced.
PowerAlone ==
    "power" \in Faults => ~PerFileWriteback /\ "crash" \notin Faults /\ "close" \notin Calls

\* The snapshots that the next load may find.
Snapshots == IF "power" \in Faults THEN snapshot_maybe ELSE {snapshot}

Recorded(n) == \E s \in Starts : n \in file[s]

\* The writer has, or will receive, a record for segment r.
Pending(r) ==
    \/ batch.phase # "idle" /\ batch.start = r
    \/ \E i \in 1..Len(queue) : queue[i].op = "append" /\ queue[i].start = r

Used(r) == r \in present \/ (Up /\ r = segment_start) \/ Pending(r)

\* What load vouches for is synced.
PowerInv ==
    "power" \in Faults =>
        /\ mode \in {"open", "down"}
        /\ mode = "down" => snapshot_maybe = {snapshot} /\ disk = file
        /\ \A n \in 1..seeded : OnMedium(n) \/ \A m \in snapshot_maybe : n <= m

\* Beyond a snapshot, the segments have no hole.
GapInv ==
    \A m \in Snapshots :
        /\ Up => checkpoint_seq <= m
        /\ \A n \in 1..written_seq : n <= m \/ Recorded(n)
        /\ \A k, n \in Seqs : m < k /\ k <= n /\ Recorded(n) => Recorded(k)
        /\ \A k \in Seqs, s \in present : m < k /\ k < s => Recorded(k)

\* A segment's records precede the next segment.
ApartInv ==
    /\ \A s, r \in Starts, n \in Seqs : Holds(s, n) /\ Used(r) /\ s < r => n < r
    /\ Up => \A r \in Starts : Used(r) => r <= segment_start

\* Nothing is written behind an incomplete frame.
TornInv ==
    /\ torn \subseteq present
    /\ Up => \A s \in torn :
          \/ error # "none" \/ batch.phase = "failed"
          \/ s < segment_start /\ ~Pending(s)

AckInv ==
    /\ acked_durable <= acked_written
    /\ Up => acked_written <= written_seq /\ acked_durable <= durable_seq
    /\ mode = "down" => /\ tickets = {}
                        /\ \A n \in 1..acked_written : n <= snapshot \/ Recorded(n)

LiveInv == NeverRefused /\ PowerInv /\ GapInv /\ ApartInv /\ TornInv /\ AckInv

-----------------------------------------------------------------------------
(***************************************************************************)
(* The steps that leave files and snapshots alone.                         *)
(***************************************************************************)

Acks ==
    \/ UNCHANGED <<acked_written, acked_durable>>
    \/ /\ Up /\ acked_durable' <= acked_written'
       /\ acked_written' <= written_seq /\ acked_durable' <= durable_seq

Quiet ==
    /\ UNCHANGED <<file, present, torn, snapshot, snapshot_maybe, seeded>>
    /\ \A s \in Starts : disk[s] \subseteq disk'[s]
    /\ mode' = mode \/ (Up /\ Up' /\ (mode = "open" => "close" \in Calls))
    /\ checkpoint_seq' = checkpoint_seq \/ \A m \in snapshot_maybe : checkpoint_seq' <= m
    /\ written_seq <= written_seq' /\ \A n \in (written_seq + 1)..written_seq' : Recorded(n)
    /\ durable_seq <= durable_seq'
    /\ mode = "down" /\ tickets = {} => tickets' = {}
    /\ Acks
    /\ error # "none" \/ batch.phase = "failed" => error' # "none" \/ batch'.phase = "failed"
    /\ \A r \in Starts : Pending(r)' => Pending(r) \/ (Up /\ r = segment_start)
    /\ \A s \in Starts, n \in Seqs : Holds(s, n)' => Holds(s, n) \/ (Up /\ s = segment_start)
    /\ \/ segment_start' = segment_start
       \/ /\ segment_start' = next_sequence
          /\ \A s \in Starts, n \in Seqs : Holds(s, n)' => Holds(s, n)

\* What the journal's invariant and the store's say of the types.
LEMMA LiveTypes ==
    ASSUME Inv
    PROVE  /\ TypeOK /\ StoreTypeOK /\ MaxSeq \in Nat
           /\ durable_seq <= written_seq /\ written_seq < next_sequence
           /\ written_seq \in 0..MaxSeq /\ durable_seq \in 0..MaxSeq
           /\ segment_start \in Starts /\ segment_start <= next_sequence /\ next_sequence \in Nat
           /\ snapshot \in Int /\ checkpoint_seq \in Int
           /\ Snapshots \subseteq Int /\ Snapshots \subseteq snapshot_maybe
           /\ snapshot \in Snapshots /\ \A m \in Snapshots : m \in snapshot_maybe /\ m <= snapshot
           /\ acked_written \in 0..MaxSeq /\ acked_durable \in 0..MaxSeq
           /\ present \subseteq Starts /\ torn \subseteq Starts
           /\ file \in [Starts -> SUBSET Seqs] /\ disk \in [Starts -> SUBSET Seqs]
<1>1. StoreTypeOK /\ FileInv /\ CoordInv /\ MarkInv
  BY DEF Inv, StoreInv
<1>2. TypeOK /\ durable_seq <= written_seq
  BY <1>1, JFacts DEF Inv
<1>3. Snapshots \subseteq snapshot_maybe /\ snapshot \in Snapshots
  BY <1>1, Zenon DEF Snapshots, MarkInv
<1>4. \A m \in Snapshots : m \in snapshot_maybe /\ m <= snapshot
  BY <1>1, <1>3 DEF MarkInv
<1>5. snapshot_maybe \subseteq Int /\ snapshot \in Int /\ checkpoint_seq \in Int
  BY <1>1, MarkTypes
<1>6. Snapshots \subseteq Int
  BY <1>3, <1>5
<1>7. next_sequence \in Nat /\ MaxSeq \in Nat
  BY <1>2, IntFacts DEF TypeOK
<1>8. QED
  BY <1>1, <1>2, <1>3, <1>4, <1>5, <1>6, <1>7 DEF TypeOK, StoreTypeOK, CoordInv

LEMMA LiveTypesNext ==
    ASSUME Inv'
    PROVE  /\ TypeOK' /\ StoreTypeOK'
           /\ written_seq' \in 0..MaxSeq /\ durable_seq' \in 0..MaxSeq
           /\ segment_start' \in Starts
           /\ acked_written' \in 0..MaxSeq /\ acked_durable' \in 0..MaxSeq
<1>1. StoreTypeOK' /\ TypeOK'
  BY TypeNext DEF Inv, StoreInv
<1>2. QED
  BY <1>1 DEF TypeOK, StoreTypeOK

LEMMA QuietLive ==
    ASSUME PowerAlone, Inv, Inv', LiveInv, Quiet
    PROVE  LiveInv'
<1>0. /\ NeverRefused /\ PowerInv /\ GapInv /\ ApartInv /\ TornInv /\ AckInv
      /\ UNCHANGED <<file, present, torn, snapshot, snapshot_maybe, seeded>>
  BY DEF LiveInv, Quiet
<1>1. /\ UNCHANGED Snapshots /\ \A n : (Recorded(n)' <=> Recorded(n))
      /\ (Up' <=> Up) /\ (mode' = mode \/ (mode = "open" => "close" \in Calls))
  BY <1>0 DEF Snapshots, Recorded, Quiet, Up
<1>2. NeverRefused'
  BY <1>0 DEF NeverRefused, Quiet, Up
<1>3. PowerInv'
  <2>1. SUFFICES ASSUME "power" \in Faults PROVE PowerInv'
    BY DEF PowerInv
  <2>2. mode' = mode /\ mode \in {"open", "down"}
    BY <1>0, <1>1, <2>1 DEF PowerAlone, PowerInv, Quiet, Up
  <2>3. mode = "down" => snapshot_maybe' = {snapshot'} /\ disk' = file'
    <3>1. SUFFICES ASSUME mode = "down", disk = file, snapshot_maybe = {snapshot} PROVE disk' = file'
      BY <1>0, <2>1 DEF PowerInv
    <3>2. disk' \in [Starts -> SUBSET Seqs] /\ file' \in [Starts -> SUBSET Seqs]
          /\ \A s \in Starts : disk'[s] \subseteq file'[s]
      BY DEF Inv, StoreInv, FileInv
    <3>3. \A s \in Starts : disk'[s] = file'[s]
      BY <1>0, <3>1, <3>2 DEF Quiet
    <3>4. QED
      BY <3>2, <3>3
  <2>4. \A n : OnMedium(n) => OnMedium(n)'
    BY DEF OnMedium, Quiet
  <2>5. QED
    BY <1>0, <2>1, <2>2, <2>3, <2>4 DEF PowerInv
<1>4. GapInv'
  <2>1. ASSUME NEW m \in Snapshots
        PROVE  /\ Up' => checkpoint_seq' <= m
               /\ \A n \in 1..written_seq' : n <= m \/ Recorded(n)
    <3>1. Up' => checkpoint_seq' <= m
      BY <1>0, <1>1, <2>1, LiveTypes DEF GapInv, Quiet
    <3>2. written_seq \in Nat /\ written_seq' \in Nat
      BY LiveTypes, LiveTypesNext
    <3>3. ASSUME NEW n \in 1..written_seq' PROVE n <= m \/ Recorded(n)
      <4>1. n \in 1..written_seq \/ n \in (written_seq + 1)..written_seq'
        BY <3>2, <3>3
      <4>2. QED
        BY <1>0, <4>1 DEF GapInv, Quiet
    <3>4. QED
      BY <3>1, <3>3
  <2>2. QED
    BY <1>0, <1>1, <2>1 DEF GapInv
<1>5. \A s \in Starts, n \in Seqs : Holds(s, n)' =>
          \/ Holds(s, n)
          \/ Up /\ s = segment_start /\ segment_start' = segment_start
  BY DEF Quiet
<1>6. \A s \in Starts, n \in Seqs : Holds(s, n) => (Up => n < next_sequence)
  BY DEF Inv, StoreInv, CutInv
<1>7. \A r \in Starts : Used(r)' =>
          \/ Used(r)
          \/ r = segment_start' /\ segment_start' = next_sequence /\ Up'
             /\ \A s \in Starts, n \in Seqs : Holds(s, n)' => Holds(s, n)
  BY <1>0, <1>1 DEF Used, Quiet
<1>8. segment_start' \in Int /\ segment_start \in Int /\ next_sequence \in Int
      /\ segment_start <= segment_start'
  <2>1. segment_start \in Int /\ next_sequence \in Int /\ segment_start <= next_sequence
    <3>1. segment_start \in Starts /\ next_sequence \in Nat /\ segment_start <= next_sequence
      BY LiveTypes
    <3>2. QED
      BY <3>1, IntFacts
  <2>2. segment_start' = segment_start \/ segment_start' = next_sequence
    BY DEF Quiet
  <2>3. QED
    BY <2>1, <2>2
<1>9. ApartInv'
  <2>1. ASSUME NEW s \in Starts, NEW r \in Starts, NEW n \in Seqs, Holds(s, n)', Used(r)', s < r
        PROVE  n < r
    <3>1. CASE Holds(s, n) /\ Used(r)
      BY <1>0, <2>1, <3>1 DEF ApartInv
    <3>2. CASE Holds(s, n) /\ ~Used(r)
      BY <1>1, <1>6, <1>7, <2>1, <3>2
    <3>3. CASE ~Holds(s, n)
      <4>1. Up /\ s = segment_start /\ segment_start' = segment_start
        BY <1>5, <2>1, <3>3
      <4>2. Used(r) \/ r = segment_start
        BY <1>7, <2>1, <4>1
      <4>3. Used(r) => r <= segment_start
        BY <1>0, <4>1 DEF ApartInv
      <4>4. QED
        BY <2>1, <4>1, <4>2, <4>3, IntFacts
    <3>4. QED
      BY <3>1, <3>2, <3>3
  <2>2. ASSUME Up', NEW r \in Starts, Used(r)' PROVE r <= segment_start'
    <3>1. Used(r) \/ r = segment_start'
      BY <1>7, <2>2
    <3>2. Used(r) => r <= segment_start
      BY <1>0, <1>1, <2>2 DEF ApartInv
    <3>3. QED
      BY <1>8, <3>1, <3>2, IntFacts
  <2>3. QED
    BY <2>1, <2>2 DEF ApartInv
<1>10. TornInv'
  <2>1. ASSUME Up', NEW s \in torn, ~(error' # "none" \/ batch'.phase = "failed")
        PROVE  s < segment_start' /\ ~Pending(s)'
    <3>1. s < segment_start /\ ~Pending(s) /\ s \in Starts
      BY <1>0, <1>1, <2>1, LiveTypes DEF TornInv, Quiet
    <3>2. Pending(s)' => Pending(s) \/ s = segment_start
      BY <3>1 DEF Quiet
    <3>3. QED
      BY <1>8, <3>1, <3>2, IntFacts
  <2>2. QED
    BY <1>0, <2>1 DEF TornInv
<1>11. AckInv'
  <2>1. /\ written_seq \in Int /\ durable_seq \in Int /\ written_seq' \in Int /\ durable_seq' \in Int
        /\ acked_written \in Int /\ acked_durable \in Int
        /\ acked_written' \in Int /\ acked_durable' \in Int
        /\ written_seq <= written_seq' /\ durable_seq <= durable_seq'
    BY LiveTypes, LiveTypesNext DEF Quiet
  <2>2. CASE UNCHANGED <<acked_written, acked_durable>>
    <3>1. acked_durable' <= acked_written'
      BY <1>0, <2>2 DEF AckInv
    <3>2. Up' => acked_written' <= written_seq' /\ acked_durable' <= durable_seq'
      BY <1>0, <1>1, <2>1, <2>2 DEF AckInv
    <3>3. mode' = "down" => mode = "down"
      BY DEF Quiet, Up
    <3>4. mode' = "down" => tickets' = {} /\ \A n \in 1..acked_written' : n <= snapshot' \/ Recorded(n)'
      BY <1>0, <1>1, <2>2, <3>3 DEF AckInv, Quiet
    <3>5. QED
      BY <3>1, <3>2, <3>4 DEF AckInv
  <2>3. CASE ~UNCHANGED <<acked_written, acked_durable>>
    <3>1. /\ Up /\ acked_durable' <= acked_written'
          /\ acked_written' <= written_seq /\ acked_durable' <= durable_seq
      BY <2>3 DEF Quiet, Acks
    <3>2. mode' # "down"
      BY <1>1, <3>1 DEF Up
    <3>3. QED
      BY <2>1, <3>1, <3>2 DEF AckInv
  <2>4. QED
    BY <2>2, <2>3
<1>12. QED
  BY <1>2, <1>3, <1>4, <1>9, <1>10, <1>11 DEF LiveInv

\* A step that leaves the writer's work alone too.
LEMMA StillQuiet ==
    ASSUME Inv,
           UNCHANGED <<file, present, torn, snapshot, snapshot_maybe, seeded, batch, queue,
                       segment_start, written_seq, checkpoint_seq>>,
           \A s \in Starts : disk[s] \subseteq disk'[s],
           mode' = mode \/ (Up /\ Up' /\ (mode = "open" => "close" \in Calls)),
           durable_seq <= durable_seq',
           mode = "down" /\ tickets = {} => tickets' = {},
           Acks, error # "none" => error' # "none"
    PROVE  Quiet
<1>1. written_seq <= written_seq' /\ (written_seq + 1)..written_seq' = {}
  <2>1. written_seq \in Int
    BY LiveTypes
  <2>2. QED
    BY <2>1
<1>2. \A r \in Starts : Pending(r)' => Pending(r)
  BY DEF Pending
<1>3. \A s \in Starts, n \in Seqs : Holds(s, n)' => Holds(s, n)
  BY KeepHolds
<1>4. error # "none" \/ batch.phase = "failed" => error' # "none" \/ batch'.phase = "failed"
  OBVIOUS
<1>5. QED
  BY <1>1, <1>2, <1>3, <1>4, Zenon DEF Quiet

LEMMA MemoryQuiet ==
    ASSUME Inv,
           OnWritten \/ Save \/ SaveReturns \/ Maintain \/ CkptGivesUp \/ CkptWriteFails
               \/ CkptFail \/ Close
    PROVE  Quiet
<1>1. /\ UNCHANGED <<vars, checkpoint_seq, snapVars, dirVars, ackVars>>
      /\ mode' = mode \/ (mode = "open" /\ mode' = "closing" /\ "close" \in Calls)
  BY DEF OnWritten, Save, SaveReturns, Maintain, CkptGivesUp, CkptWriteFails, CkptFail, Close,
     memoryVars
<1>2. UNCHANGED <<file, disk, present, torn, snapshot, snapshot_maybe, seeded, batch, queue, tickets,
                  segment_start, written_seq, durable_seq, error, acked_written, acked_durable>>
  BY <1>1 DEF vars, snapVars, dirVars, ackVars, fileVars, clientVars, streamVars
<1>3. mode' = mode \/ (Up /\ Up' /\ (mode = "open" => "close" \in Calls))
  BY <1>1 DEF Up
<1>4. durable_seq <= durable_seq'
  <2>1. durable_seq \in Int
    BY LiveTypes
  <2>2. QED
    BY <1>2, <2>1
<1>5. Acks
  BY <1>2 DEF Acks
<1>6. QED
  BY <1>1, <1>2, <1>3, <1>4, <1>5, StillQuiet

\* A commit promises no more than the journal has reported.
LEMMA ReturnAcks ==
    ASSUME Inv, LiveInv, NEW t \in tickets, CommitReturns(t)
    PROVE  Acks
<1>1. Up
  <2>1. mode # "down"
    BY DEF LiveInv, AckInv
  <2>2. mode \in Modes
    BY DEF Inv, StoreInv, StoreTypeOK
  <2>3. QED
    BY <2>1, <2>2 DEF Modes, Up, LiveInv, NeverRefused
<1>2. acked_durable <= acked_written /\ acked_written <= written_seq /\ acked_durable <= durable_seq
  BY <1>1 DEF LiveInv, AckInv
<1>3. CASE persistence_fault
  BY <1>3, Zenon DEF CommitReturns, ackVars, Acks
<1>4. CASE ~persistence_fault
  <2>1. /\ acked_written' = MaxOf(acked_written, t.seq)
        /\ acked_durable' = IF t.goal = "durable" THEN MaxOf(acked_durable, t.seq) ELSE acked_durable
        /\ Reached(t) /\ t.goal # "sealed"
    BY <1>4, Zenon DEF CommitReturns, TicketOk
  <2>2. /\ t.seq \in Int /\ t.goal \in Goals /\ acked_written \in Int /\ acked_durable \in Int
        /\ written_seq \in Int /\ durable_seq \in Int /\ durable_seq <= written_seq
    <3>1. TypeOK /\ acked_written \in 0..MaxSeq /\ acked_durable \in 0..MaxSeq
          /\ written_seq \in 0..MaxSeq /\ durable_seq \in 0..MaxSeq /\ durable_seq <= written_seq
      BY LiveTypes
    <3>2. t \in Ticket
      BY <3>1 DEF TypeOK
    <3>3. QED
      BY <3>1, <3>2, IntFacts DEF Ticket
  <2>3. CASE t.goal = "durable"
    <3>1. t.seq <= durable_seq
      BY <2>1, <2>2, <2>3 DEF Reached
    <3>2. acked_durable' = MaxOf(acked_durable, t.seq)
      BY <2>1, <2>3
    <3>3. QED
      BY <1>1, <1>2, <2>1, <2>2, <3>1, <3>2 DEF MaxOf, Acks
  <2>4. CASE t.goal = "written"
    <3>1. t.seq <= written_seq
      BY <2>1, <2>2, <2>4 DEF Reached
    <3>2. acked_durable' = acked_durable
      BY <2>1, <2>4
    <3>3. QED
      BY <1>1, <1>2, <2>1, <2>2, <3>1, <3>2 DEF MaxOf, Acks
  <2>5. QED
    BY <2>1, <2>2, <2>3, <2>4 DEF Goals
<1>5. QED
  BY <1>3, <1>4

LEMMA WaitQuiet ==
    ASSUME Inv, LiveInv, Returns \/ CkptSealed \/ CkptSealFails \/ CloseReturns
    PROVE  Quiet
<1>1. PICK t \in tickets : /\ TicketOk(t) \/ TicketErr(t)
                           /\ CommitReturns(t) \/ CommitFails(t) \/ CkptSealed \/ CkptSealFails
                                  \/ CloseReturns
  <2>1. CASE Returns
    BY <2>1 DEF Returns, CommitReturns, CommitFails
  <2>2. CASE CkptSealed
    BY <2>2 DEF CkptSealed, TicketOk
  <2>3. CASE CkptSealFails
    BY <2>3 DEF CkptSealFails, TicketErr
  <2>4. CASE CloseReturns
    BY <2>4 DEF CloseReturns
  <2>5. QED
    BY <2>1, <2>2, <2>3, <2>4
<1>2. UNCHANGED <<clientVars, queue, batch, streamVars, fileVars>> /\ tickets' = tickets \ {t}
  BY <1>1 DEF TicketOk, TicketErr
<1>3. UNCHANGED <<checkpoint_seq, snapVars, dirVars, seeded>> /\ Acks
      /\ (mode' = mode \/ (mode = "releasing" /\ mode' = "closed"))
  <2>1. CASE CommitReturns(t)
    <3>1. UNCHANGED <<mode, memoryVars, snapVars, dirVars>>
      BY <2>1 DEF CommitReturns
    <3>2. UNCHANGED seeded
      <4>1. CASE persistence_fault
        BY <2>1, <4>1, Zenon DEF CommitReturns, ackVars
      <4>2. CASE ~persistence_fault
        BY <2>1, <4>2, Zenon DEF CommitReturns
      <4>3. QED
        BY <4>1, <4>2
    <3>3. Acks
      BY <2>1, ReturnAcks
    <3>4. QED
      BY <3>1, <3>2, <3>3 DEF memoryVars
  <2>2. CASE CommitFails(t) \/ CkptSealed \/ CkptSealFails \/ CloseReturns
    BY <2>2 DEF CommitFails, CkptSealed, CkptSealFails, CloseReturns, memoryVars, ackVars, Acks
  <2>3. QED
    BY <1>1, <2>1, <2>2
<1>4. UNCHANGED <<file, disk, present, torn, snapshot, snapshot_maybe, batch, queue,
                  segment_start, written_seq, durable_seq, error>>
  BY <1>2, <1>3 DEF clientVars, streamVars, fileVars, snapVars, dirVars
<1>5. mode' = mode \/ (Up /\ Up' /\ (mode = "open" => "close" \in Calls))
  BY <1>3 DEF Up
<1>6. durable_seq <= durable_seq'
  <2>1. durable_seq \in Int
    BY LiveTypes
  <2>2. QED
    BY <1>4, <2>1
<1>7. QED
  BY <1>2, <1>3, <1>4, <1>5, <1>6, StillQuiet

LEMMA FlusherQuiet ==
    ASSUME Inv, JournalFlusher \/ JournalSyncFails
    PROVE  Quiet
<1>0. TypeOK /\ FileInv
  BY LiveTypes DEF Inv, StoreInv
<1>1. UNCHANGED storeVars
      /\ \/ NextFlushWork \/ FlushDone \/ FlushFailed \/ FlushSyncFails
         \/ \E s \in Starts : FlushSync(s)
  BY DEF JournalFlusher, JournalSyncFails
<1>2. UNCHANGED <<mode, checkpoint_seq, snapshot, snapshot_maybe, present, torn, seeded>> /\ Acks
  BY <1>1 DEF storeVars, memoryVars, snapVars, dirVars, ackVars, Acks
<1>3. UNCHANGED <<clientVars, tickets, queue, batch, written_seq, file>>
  BY <1>1 DEF NextFlushWork, FlushPick, FlushClean, FlushDone, FlushFailed, FlushSyncFails, FlushSync,
     streamVars, fileVars
<1>4. \A s \in Starts : disk[s] \subseteq disk'[s]
  <2>1. disk' = disk \/ \E s \in Starts : disk' = [disk EXCEPT ![s] = file[s]]
    BY <1>1 DEF NextFlushWork, FlushPick, FlushClean, FlushDone, FlushFailed, FlushSyncFails, FlushSync,
       fileVars
  <2>2. QED
    BY <1>0, <2>1 DEF FileInv
<1>5. durable_seq <= durable_seq'
  <2>1. UNCHANGED durable_seq \/ durable_seq' = MaxOf(durable_seq, written_seq)
        \/ durable_seq' = MaxOf(durable_seq, flush.target)
    <3>1. CASE FlushDone
      BY <3>1, Zenon DEF FlushDone
    <3>2. QED
      BY <1>1, <3>1 DEF NextFlushWork, FlushPick, FlushClean, FlushFailed, FlushSyncFails, FlushSync,
         streamVars
  <2>2. durable_seq \in Int /\ written_seq \in Int /\ flush.target \in Int
    BY <1>0, IntFacts DEF TypeOK, FlushWork
  <2>3. QED
    BY <2>1, <2>2 DEF MaxOf
<1>6. error # "none" => error' # "none"
  <2>1. CASE FlushFailed
    BY <2>1 DEF FlushFailed, FailStream, FirstError
  <2>2. CASE ~FlushFailed
    BY <1>1, <2>2 DEF NextFlushWork, FlushPick, FlushClean, FlushDone, FlushSyncFails, FlushSync,
       streamVars
  <2>3. QED
    BY <2>1, <2>2
<1>7. QED
  BY <1>2, <1>3, <1>4, <1>5, <1>6, StillQuiet DEF clientVars

LEMMA PendingSend ==
    ASSUME queue \in Seq(Command), NEW c \in Command, queue' = Append(queue, c), UNCHANGED batch,
           NEW r \in Starts, Pending(r)'
    PROVE  Pending(r) \/ (c.op = "append" /\ c.start = r)
<1>1. /\ Len(queue) \in Nat /\ Len(queue') = Len(queue) + 1
      /\ \A i \in 1..Len(queue) : queue'[i] = queue[i]
      /\ queue'[Len(queue) + 1] = c
  OBVIOUS
<1>2. CASE batch'.phase # "idle" /\ batch'.start = r
  BY <1>2 DEF Pending
<1>3. CASE ~(batch'.phase # "idle" /\ batch'.start = r)
  <2>1. PICK i \in 1..Len(queue') : queue'[i].op = "append" /\ queue'[i].start = r
    BY <1>3 DEF Pending
  <2>2. i \in 1..Len(queue) \/ i = Len(queue) + 1
    BY <1>1, <2>1
  <2>3. QED
    BY <1>1, <2>1, <2>2 DEF Pending
<1>4. QED
  BY <1>2, <1>3

\* A command is sent: a record for the active segment, or control.
LEMMA SendQuiet ==
    ASSUME Inv, NEW c \in Command, queue' = Append(queue, c),
           UNCHANGED <<file, disk, present, torn, snapshot, snapshot_maybe, seeded, batch,
                       written_seq, durable_seq, error, checkpoint_seq, acked_written, acked_durable>>,
           Up, Up', mode' = mode \/ mode # "open",
           \/ c.op = "append" /\ c.start = segment_start /\ segment_start' = segment_start
           \/ c.op # "append" /\ segment_start' \in {segment_start, next_sequence}
    PROVE  Quiet
<1>1. queue \in Seq(Command) /\ written_seq \in Int /\ durable_seq \in Int
  <2>1. TypeOK /\ written_seq \in 0..MaxSeq /\ durable_seq \in 0..MaxSeq
    BY LiveTypes
  <2>2. QED
    BY <2>1 DEF TypeOK
<1>2. (written_seq + 1)..written_seq' = {} /\ written_seq <= written_seq' /\ durable_seq <= durable_seq'
  BY <1>1
<1>3. ASSUME NEW r \in Starts, Pending(r)' PROVE Pending(r) \/ (Up /\ r = segment_start)
  BY <1>1, <1>3, PendingSend
<1>4. ASSUME NEW s \in Starts, NEW n \in Seqs, Holds(s, n)'
      PROVE  /\ Holds(s, n) \/ (Up /\ s = segment_start)
             /\ c.op # "append" => Holds(s, n)
  BY <1>1, <1>4, HoldsSend
<1>5. Acks
  BY DEF Acks
<1>6. mode = "down" => FALSE
  BY DEF Up
<1>7. error # "none" \/ batch.phase = "failed" => error' # "none" \/ batch'.phase = "failed"
  OBVIOUS
<1>8. \/ segment_start' = segment_start
      \/ segment_start' = next_sequence /\ \A s \in Starts, n \in Seqs : Holds(s, n)' => Holds(s, n)
  BY <1>4
<1>9. QED
  BY <1>2, <1>3, <1>4, <1>5, <1>6, <1>7, <1>8, Zenon DEF Quiet

LEMMA CommitQuiet ==
    ASSUME Inv, NEW durable \in BOOLEAN, Commit(durable)
    PROVE  Quiet
<1> DEFINE c == [op |-> "append", seq |-> next_sequence, start |-> segment_start, durable |-> durable]
<1>1. /\ mode = "open" /\ next_sequence <= MaxSeq
      /\ queue' = Append(queue, c)
      /\ UNCHANGED <<segment_start, batch, streamVars, fileVars>>
      /\ UNCHANGED <<mode, checkpoint_seq, snapVars, dirVars, ackVars>>
  BY DEF Commit, SubmitAppend
<1>2. UNCHANGED <<written_seq, durable_seq, error, file, disk, present, torn,
                  snapshot, snapshot_maybe, seeded, acked_written, acked_durable>>
  BY <1>1 DEF streamVars, fileVars, snapVars, dirVars, ackVars
<1>3. c \in Command
  <2>1. TypeOK
    BY LiveTypes
  <2>2. next_sequence \in 0..MaxSeq /\ segment_start \in 0..(MaxSeq + 1)
    BY <1>1, <2>1, IntFacts DEF TypeOK, Starts
  <2>3. QED
    BY <2>2 DEF Command, Ops
<1>4. c.op = "append" /\ c.start = segment_start
  OBVIOUS
<1> HIDE DEF c
<1>5. Up /\ Up'
  BY <1>1 DEF Up
<1>6. QED
  BY <1>1, <1>2, <1>3, <1>4, <1>5, SendQuiet

LEMMA FlushQuiet ==
    ASSUME Inv, Flush
    PROVE  Quiet
<1>1. /\ mode = "open" /\ UNCHANGED storeVars
      /\ UNCHANGED <<clientVars, queue, batch, written_seq, durable_seq, error, file, disk>>
  BY DEF Flush, RequestFlush, fileVars
<1>2. UNCHANGED <<mode, checkpoint_seq, snapshot, snapshot_maybe, present, torn, seeded>> /\ Acks
  BY <1>1 DEF storeVars, memoryVars, snapVars, dirVars, ackVars, Acks
<1>3. durable_seq <= durable_seq'
  <2>1. durable_seq \in Int
    BY LiveTypes
  <2>2. QED
    BY <1>1, <2>1
<1>4. QED
  BY <1>1, <1>2, <1>3, StillQuiet DEF clientVars

LEMMA BeginQuiet ==
    ASSUME Inv, CkptBegin
    PROVE  Quiet
<1>1. /\ At("begin") /\ UNCHANGED <<mode, checkpoint_seq, snapVars, dirVars, ackVars>>
      /\ SubmitSeal \/ UNCHANGED vars
  <2>1. At("begin") /\ UNCHANGED <<mode, checkpoint_seq, snapVars, dirVars, ackVars>>
    BY DEF CkptBegin
  <2>2. SubmitSeal \/ UNCHANGED vars
    BY Zenon DEF CkptBegin
  <2>3. QED
    BY <2>1, <2>2
<1>2. Up /\ Up'
  <2>1. mode \in {"open", "closing"}
    BY <1>1 DEF Inv, StoreInv, MarkInv, At
  <2>2. QED
    BY <1>1, <2>1 DEF Up
<1>3. UNCHANGED <<snapshot, snapshot_maybe, present, torn, seeded, acked_written, acked_durable>>
  BY <1>1 DEF snapVars, dirVars, ackVars
<1>4. CASE UNCHANGED vars
  <2>1. UNCHANGED <<file, disk, batch, queue, segment_start, written_seq, durable_seq, error>>
    BY <1>4 DEF vars, clientVars, streamVars, fileVars
  <2>2. durable_seq <= durable_seq'
    <3>1. durable_seq \in Int
      BY LiveTypes
    <3>2. QED
      BY <2>1, <3>1
  <2>3. mode # "down" /\ Acks
    BY <1>2, <1>3 DEF Up, Acks
  <2>4. QED
    BY <1>1, <1>3, <2>1, <2>2, <2>3, StillQuiet
<1>5. CASE SubmitSeal
  <2> DEFINE c == [op |-> "seal", seq |-> next_sequence - 1, start |-> segment_start, durable |-> FALSE]
  <2>1. /\ queue' = Append(queue, c) /\ segment_start' = next_sequence - 1 + 1
        /\ UNCHANGED <<batch, streamVars, fileVars>>
    BY <1>5 DEF SubmitSeal
  <2>2. UNCHANGED <<file, disk, batch, written_seq, durable_seq, error>>
    BY <2>1 DEF streamVars, fileVars
  <2>3. c \in Command /\ segment_start' = next_sequence /\ c.op # "append"
    <3>1. TypeOK
      BY LiveTypes
    <3>2. next_sequence - 1 \in 0..MaxSeq /\ segment_start \in 0..(MaxSeq + 1)
          /\ next_sequence - 1 + 1 = next_sequence
      BY <3>1, IntFacts DEF TypeOK, Starts
    <3>3. QED
      BY <2>1, <3>2 DEF Command, Ops
  <2> HIDE DEF c
  <2>4. QED
    BY <1>1, <1>2, <1>3, <2>1, <2>2, <2>3, SendQuiet
<1>6. QED
  BY <1>1, <1>4, <1>5

LEMMA ReleaseQuiet ==
    ASSUME Inv, CloseRelease
    PROVE  Quiet
<1> DEFINE c == [op |-> "release", seq |-> 0, start |-> 0, durable |-> FALSE]
<1>1. /\ mode = "closing" /\ mode' = "releasing" /\ queue' = Append(queue, c)
      /\ UNCHANGED <<memoryVars, snapVars, dirVars, ackVars>>
      /\ UNCHANGED <<segment_start, batch, streamVars, fileVars>>
  BY DEF CloseRelease, SubmitRelease, Control
<1>2. c \in Command /\ c.op # "append"
  BY IntFacts DEF Command, Ops
<1> HIDE DEF c
<1>3. UNCHANGED <<written_seq, durable_seq, error, file, disk, present, torn, snapshot,
                  snapshot_maybe, seeded, checkpoint_seq, acked_written, acked_durable>>
  BY <1>1 DEF streamVars, fileVars, snapVars, dirVars, ackVars, memoryVars
<1>4. Up /\ Up' /\ mode # "open"
  BY <1>1 DEF Up
<1>5. QED
  BY <1>1, <1>2, <1>3, <1>4, SendQuiet

LEMMA WriterPending ==
    ASSUME JInv, FileInv, WriterStep, NEW r, Pending(r)'
    PROVE  Pending(r)
<1>0. queue \in Seq(Command) /\ batch \in Batch
  BY JFacts DEF TypeOK
<1>1. CASE \E i \in 1..Len(queue') : queue'[i].op = "append" /\ queue'[i].start = r
  <2>1. queue' = queue \/ (queue # <<>> /\ queue' = Tail(queue))
    BY DEF WriterStep, WriterCollect, WriterExtend, WriterSkip, WriterPublish, WriterFail, WriterSeal,
       WriterRelease, WriterWrite, WriterWriteFails, CanExtend, NextIs
  <2>2. PICK i \in 1..Len(queue') : queue'[i].op = "append" /\ queue'[i].start = r
    BY <1>1
  <2>3. CASE queue' = queue
    BY <2>2, <2>3 DEF Pending
  <2>4. CASE queue # <<>> /\ queue' = Tail(queue)
    <3>1. i + 1 \in 1..Len(queue) /\ queue'[i] = queue[i + 1]
      BY <1>0, <2>2, <2>4
    <3>2. QED
      BY <2>2, <3>1 DEF Pending
  <2>5. QED
    BY <2>1, <2>3, <2>4
<1>2. CASE batch'.phase # "idle" /\ batch'.start = r
  <2>1. CASE WriterCollect
    <3>1. NextIs("append") /\ batch'.start = Head(queue).start
      BY <2>1 DEF WriterCollect, NoBatch
    <3>2. Queued(Head(queue).start, Head(queue).seq)
      BY <1>0, <3>1, QueuedHead
    <3>3. QED
      BY <1>2, <3>1, <3>2 DEF Queued, Pending
  <2>2. CASE ~WriterCollect
    <3>1. (batch.phase # "idle" /\ batch.start = r) \/ batch' = NoBatch \/ batch' = batch
      BY <1>0, <1>2, <2>2 DEF WriterStep, WriterExtend, WriterSkip, WriterPublish, WriterFail, WriterSeal,
         WriterRelease, WriterWrite, WriterWriteFails, Batch
    <3>2. QED
      BY <1>2, <3>1, BlankFacts DEF Pending
  <2>3. QED
    BY <2>1, <2>2
<1>3. QED
  BY <1>1, <1>2 DEF Pending

LEMMA WriterQuiet ==
    ASSUME Inv, JournalWriter
    PROVE  Quiet
<1>0. /\ JInv /\ FileInv /\ StoreTypeOK /\ CoordInv /\ TypeOK /\ written_seq \in Int /\ durable_seq \in Int
      /\ batch \in Batch
  BY LiveTypes DEF Inv, StoreInv, TypeOK
<1>1. WriterStep /\ UNCHANGED storeVars
  BY DEF JournalWriter, WriterStep
<1>2. UNCHANGED <<mode, checkpoint_seq, present, torn, snapshot, snapshot_maybe, seeded>> /\ Acks
  BY <1>1 DEF storeVars, memoryVars, snapVars, dirVars, ackVars, Acks
<1>3. UNCHANGED <<clientVars, durable_seq, file, disk>>
  BY DEF JournalWriter, WriterCollect, WriterExtend, WriterSkip, WriterPublish, WriterFail, WriterSeal,
     WriterRelease, streamVars, fileVars
<1>4. written_seq' = written_seq \/ (batch.phase = "written" /\ written_seq' = batch.last)
  <2>1. CASE WriterPublish
    BY <2>1, Zenon DEF WriterPublish
  <2>2. CASE ~WriterPublish
    BY <2>2 DEF JournalWriter, WriterCollect, WriterExtend, WriterSkip, WriterFail, WriterSeal,
       WriterRelease, streamVars
  <2>3. QED
    BY <2>1, <2>2
<1>5. written_seq <= written_seq' /\ \A n \in (written_seq + 1)..written_seq' : Recorded(n)
  <2>1. CASE written_seq' = written_seq
    BY <1>0, <2>1
  <2>2. CASE batch.phase = "written" /\ written_seq' = batch.last
    <3>1. /\ batch.first = written_seq + 1 /\ batch.first <= batch.last /\ batch.start \in Starts
          /\ batch.first..batch.last \subseteq file[batch.start]
      BY <1>0, <2>2, JFacts DEF FileInv
    <3>2. batch.last \in Int
      BY <1>0 DEF Batch
    <3>3. QED
      BY <1>0, <2>2, <3>1, <3>2 DEF Recorded
  <2>3. QED
    BY <1>4, <2>1, <2>2
<1>6. error # "none" => error' # "none"
  <2>1. CASE WriterPublish \/ WriterFail
    BY <2>1 DEF WriterPublish, WriterFail, FailStream, FirstError
  <2>2. CASE WriterSeal
    <3>1. SealOutcome(Head(queue))
      BY <2>2 DEF WriterSeal
    <3>2. QED
      BY <3>1 DEF SealOutcome
  <2>3. CASE WriterCollect \/ WriterExtend \/ WriterSkip \/ WriterRelease
    BY <2>3 DEF WriterCollect, WriterExtend, WriterSkip, WriterRelease, streamVars
  <2>4. QED
    BY <2>1, <2>2, <2>3 DEF JournalWriter
<1>7. batch.phase = "failed" => error' # "none" \/ batch'.phase = "failed"
  <2>1. SUFFICES ASSUME batch.phase = "failed" PROVE error' # "none" \/ batch'.phase = "failed"
    OBVIOUS
  <2>2. CASE WriterFail
    <3>1. batch.cause = "append"
      BY <1>0, <2>1 DEF JInv, J!CInv, J!CauseInv
    <3>2. QED
      BY <2>2, <3>1 DEF WriterFail, FailStream, FirstError
  <2>3. QED
    BY <2>1, <2>2 DEF JournalWriter, WriterCollect, WriterExtend, WriterSkip, WriterPublish, WriterSeal,
       WriterRelease
<1>8. \A s \in Starts, n \in Seqs : Holds(s, n)' => Holds(s, n)
  BY <1>0, <1>1, WriterHolds
<1>9. \A r \in Starts : Pending(r)' => Pending(r)
  BY <1>0, <1>1, WriterPending
<1>10. mode = "down" /\ tickets = {} => tickets' = {}
  <2>1. CASE WriterRelease
    <3>1. queue # <<>>
      BY <2>1 DEF WriterRelease, NextIs
    <3>2. QED
      BY <1>0, <3>1 DEF CoordInv
  <2>2. CASE ~WriterRelease
    BY <2>2 DEF JournalWriter, WriterCollect, WriterExtend, WriterSkip, WriterPublish, WriterFail, WriterSeal
  <2>3. QED
    BY <2>1, <2>2
<1>11. durable_seq <= durable_seq' /\ segment_start' = segment_start
  BY <1>0, <1>3 DEF clientVars
<1>12. QED
  BY <1>2, <1>3, <1>5, <1>6, <1>7, <1>8, <1>9, <1>10, <1>11 DEF Quiet

LEMMA FinishQuiet ==
    ASSUME Inv, CkptFinish
    PROVE  Quiet
<1>1. /\ At("finish") /\ checkpoint_seq' = MaxOf(checkpoint_seq, ckpt.boundary)
      /\ UNCHANGED <<vars, mode, snapVars, dirVars, ackVars>>
  BY DEF CkptFinish
<1>2. UNCHANGED <<tickets, queue, batch, segment_start, written_seq, durable_seq, error, snapshot,
                  snapshot_maybe, present, torn, seeded, file, disk, acked_written, acked_durable>>
  BY <1>1 DEF vars, clientVars, streamVars, snapVars, dirVars, ackVars, fileVars
<1>3. \A m \in snapshot_maybe : checkpoint_seq' <= m
  <2>1. MarkInv /\ StoreTypeOK
    BY DEF Inv, StoreInv
  <2>2. snapshot_maybe = {ckpt.boundary} /\ checkpoint_seq <= snapshot /\ snapshot = ckpt.boundary
    BY <1>1, <2>1 DEF MarkInv, At, Up
  <2>3. checkpoint_seq \in Int /\ ckpt.boundary \in Int
    BY <2>1, IntFacts DEF StoreTypeOK
  <2>4. QED
    BY <1>1, <2>2, <2>3 DEF MaxOf
<1>4. written_seq \in Int /\ durable_seq \in Int
  BY LiveTypes
<1>5. (written_seq + 1)..written_seq' = {} /\ written_seq <= written_seq' /\ durable_seq <= durable_seq'
  BY <1>2, <1>4
<1>6. \A s \in Starts, n \in Seqs : Holds(s, n)' => Holds(s, n)
  BY <1>2, KeepHolds
<1>7. \A r \in Starts : Pending(r)' => Pending(r)
  BY <1>2 DEF Pending
<1>8. Acks
  BY <1>2 DEF Acks
<1>9. QED
  BY <1>1, <1>2, <1>3, <1>5, <1>6, <1>7, <1>8, Zenon DEF Quiet

-----------------------------------------------------------------------------
(***************************************************************************)
(* The writer appends to a file: to the active end of the log, and never   *)
(* behind an incomplete frame.                                             *)
(***************************************************************************)

Repaired == \A s \in torn \cap torn' : file'[s] \subseteq file[s]

LEMMA NumberFacts ==
    /\ \A n \in Seqs : n \in Nat /\ n \in Int /\ n > 0
    /\ \A s \in Starts : s \in Nat /\ s \in Int /\ s > 0
<1>1. MaxSeq \in Nat
  BY IntFacts
<1>2. QED
  BY <1>1 DEF Seqs, Starts

\* What reaches the file, of the records after the written frontier.
LEMMA WriteFacts ==
    ASSUME Inv, JournalWrites \/ JournalWriteFails
    PROVE  /\ batch.phase = "collect" /\ error = "none" /\ batch.start \in Starts
           /\ batch.first = written_seq + 1 /\ batch.last \in Seqs /\ batch.first <= batch.last
           /\ batch'.start = batch.start /\ queue' = queue /\ batch'.phase # "idle"
           /\ UNCHANGED <<mode, checkpoint_seq, snapshot, snapshot_maybe, seeded, acked_written,
                          acked_durable, written_seq, durable_seq, error, disk, segment_start, tickets>>
           /\ present' \in {present, present \cup {batch.start}}
           /\ torn' = torn \/ (batch'.phase = "failed" /\ torn' \subseteq torn \cup {batch.start}
                                 /\ torn' \subseteq torn \cup present')
           /\ \E upto \in Int : /\ upto <= batch.last
                                /\ file' = [file EXCEPT ![batch.start] = @ \cup (batch.first..upto)]
<1>1. WriterStep /\ UNCHANGED otherStoreVars /\ (WriterWrite \/ WriterWriteFails)
  BY DEF JournalWrites, JournalWriteFails, WriterStep
<1>2. UNCHANGED <<mode, checkpoint_seq, snapshot, snapshot_maybe, seeded, acked_written, acked_durable>>
  BY <1>1 DEF otherStoreVars, memoryVars, snapVars, ackVars
<1>3. batch.phase = "collect" /\ error = "none"
      /\ UNCHANGED <<clientVars, tickets, queue, written_seq, durable_seq, error, disk>>
  BY <1>1 DEF WriterWrite, WriterWriteFails
<1>4. batch \in Batch /\ file \in [Starts -> SUBSET Seqs] /\ written_seq \in Nat
  <2>1. TypeOK
    BY LiveTypes
  <2>2. QED
    BY <2>1, IntFacts DEF TypeOK
<1>5. /\ batch.start \in Starts /\ batch.first <= batch.last /\ batch.first = written_seq + 1
      /\ batch.first \in Nat /\ batch.last \in Seqs
  <2>1. batch.start \in Starts /\ batch.first <= batch.last /\ batch.first = written_seq + 1
    BY <1>3, JFacts DEF Inv, StoreInv
  <2>2. batch.first \in Nat /\ batch.last \in 0..MaxSeq
    BY <1>4, IntFacts DEF Batch
  <2>3. QED
    BY <1>4, <2>1, <2>2, IntFacts DEF Seqs
<1>6. batch'.start = batch.start /\ batch'.phase # "idle"
  BY <1>1, <1>4 DEF WriterWrite, WriterWriteFails, Batch
<1>7. present' \in {present, present \cup {batch.start}}
  BY DEF JournalWrites, JournalWriteFails
<1>8. torn' = torn \/ (batch'.phase = "failed" /\ torn' \subseteq torn \cup {batch.start}
                           /\ torn' \subseteq torn \cup present')
  <2>1. CASE JournalWrites
    BY <2>1 DEF JournalWrites
  <2>2. CASE JournalWriteFails
    BY <1>4, <2>2 DEF JournalWriteFails, WriterWriteFails, Batch
  <2>3. QED
    BY <2>1, <2>2
<1>9. \E upto \in Int : /\ upto <= batch.last
                        /\ file' = [file EXCEPT ![batch.start] = @ \cup (batch.first..upto)]
  <2>1. CASE WriterWrite
    <3>1. batch.last \in Int /\ batch.last <= batch.last
      BY <1>5, NumberFacts
    <3>2. QED
      BY <2>1, <3>1 DEF WriterWrite
  <2>2. CASE file' = file
    <3>1. batch.first - 1 \in Int /\ batch.first - 1 <= batch.last /\ batch.first..(batch.first - 1) = {}
      BY <1>5, NumberFacts
    <3>2. file' = [file EXCEPT ![batch.start] = @ \cup (batch.first..(batch.first - 1))]
      BY <1>4, <2>2, <3>1
    <3>3. QED
      BY <3>1, <3>2
  <2>3. CASE WriterWriteFails /\ file' # file
    <3>1. PICK upto \in (batch.first - 1)..(batch.last - 1) :
              file' = [file EXCEPT ![batch.start] = @ \cup (batch.first..upto)]
      BY <2>3 DEF WriterWriteFails
    <3>2. upto \in Int /\ upto <= batch.last
      BY <1>5, <3>1, NumberFacts
    <3>3. QED
      BY <3>1, <3>2
  <2>4. QED
    BY <1>1, <2>1, <2>2, <2>3
<1>10. QED
  BY <1>2, <1>3, <1>5, <1>6, <1>7, <1>8, <1>9 DEF clientVars

LEMMA WriteLive ==
    ASSUME PowerAlone, Inv, Inv', LiveInv, JournalWrites \/ JournalWriteFails
    PROVE  LiveInv' /\ Repaired
<1>0. /\ NeverRefused /\ PowerInv /\ GapInv /\ ApartInv /\ TornInv /\ AckInv
  BY DEF LiveInv
<1>1. /\ batch.phase = "collect" /\ error = "none" /\ batch.start \in Starts
      /\ batch.first = written_seq + 1 /\ batch.last \in Seqs /\ batch.first <= batch.last
      /\ batch'.start = batch.start /\ queue' = queue /\ batch'.phase # "idle"
      /\ UNCHANGED <<mode, checkpoint_seq, snapshot, snapshot_maybe, seeded, acked_written,
                     acked_durable, written_seq, durable_seq, error, disk, segment_start, tickets>>
      /\ present' \in {present, present \cup {batch.start}}
      /\ torn' = torn \/ (batch'.phase = "failed" /\ torn' \subseteq torn \cup {batch.start}
                            /\ torn' \subseteq torn \cup present')
  BY WriteFacts
<1>2. PICK upto \in Int : /\ upto <= batch.last
                          /\ file' = [file EXCEPT ![batch.start] = @ \cup (batch.first..upto)]
  BY WriteFacts
<1>3. /\ file \in [Starts -> SUBSET Seqs] /\ written_seq \in Nat /\ MaxSeq \in Nat
      /\ batch.first \in Nat /\ batch.last \in Nat
      /\ \A m \in Snapshots : m \in Int
  <2>1. file \in [Starts -> SUBSET Seqs] /\ written_seq \in 0..MaxSeq /\ Snapshots \subseteq Int
        /\ MaxSeq \in Nat
    BY LiveTypes
  <2>2. QED
    BY <1>1, <2>1, NumberFacts
<1>4. \A n \in Seqs : Recorded(n)' <=> Recorded(n) \/ n \in batch.first..upto
  <2>1. \A s \in Starts : file'[s] = IF s = batch.start THEN file[s] \cup (batch.first..upto) ELSE file[s]
    BY <1>2, <1>3
  <2>2. QED
    BY <1>1, <2>1 DEF Recorded
<1>5. Up /\ Up' /\ mode # "down"
  <2>1. ~(handles = 0 /\ queue = <<>>)
    BY <1>1, JFacts DEF Inv, StoreInv
  <2>2. mode \in Modes /\ ~(mode \in {"closed", "down", "refused"})
    BY <2>1 DEF Inv, StoreInv, CoordInv, StoreTypeOK
  <2>3. QED
    BY <1>1, <2>2 DEF Up, Modes
<1>6. Snapshots' = Snapshots
  BY <1>1 DEF Snapshots
<1>7. \A s \in Starts, n \in Seqs : Holds(s, n)' => Holds(s, n)
  BY WriterHolds DEF Inv, StoreInv, WriterStep, JournalWrites, JournalWriteFails
<1>8. \A r \in Starts : (Pending(r)' => Pending(r)) /\ (Used(r)' => Used(r))
  <2>1. \A r \in Starts : Pending(r)' => Pending(r)
    BY WriterPending DEF Inv, StoreInv, WriterStep, JournalWrites, JournalWriteFails
  <2>2. Pending(batch.start)
    BY <1>1 DEF Pending
  <2>3. QED
    BY <1>1, <1>5, <2>1, <2>2 DEF Used
<1>9. NeverRefused' /\ PowerInv'
  <2>1. NeverRefused'
    BY <1>0, <1>1 DEF NeverRefused
  <2>2. \A n : OnMedium(n) => OnMedium(n)'
    BY <1>1 DEF OnMedium
  <2>3. PowerInv'
    BY <1>0, <1>1, <1>5, <2>2 DEF PowerInv
  <2>4. QED
    BY <2>1, <2>3
<1>10. GapInv'
  <2>1. ASSUME NEW m \in Snapshots
        PROVE  /\ checkpoint_seq <= m
               /\ \A n \in 1..written_seq : n <= m \/ Recorded(n)'
               /\ \A k, n \in Seqs : m < k /\ k <= n /\ Recorded(n)' => Recorded(k)'
               /\ \A k \in Seqs, s \in present' : m < k /\ k < s => Recorded(k)'
    <3>1. /\ checkpoint_seq <= m
          /\ \A n \in 1..written_seq : n <= m \/ Recorded(n)
          /\ \A k, n \in Seqs : m < k /\ k <= n /\ Recorded(n) => Recorded(k)
          /\ \A k \in Seqs, s \in present : m < k /\ k < s => Recorded(k)
      BY <1>0, <1>5, <2>1 DEF GapInv
    <3>2. \A n \in 1..written_seq : n \in Seqs
      <4>1. written_seq \in 0..MaxSeq
        BY LiveTypes
      <4>2. QED
        BY <1>3, <4>1 DEF Seqs
    <3>3. \A k \in Seqs : m < k /\ k < batch.first => Recorded(k)
      <4>1. SUFFICES ASSUME NEW k \in Seqs, m < k, k < batch.first PROVE Recorded(k)
        OBVIOUS
      <4>2. k \in 1..written_seq /\ ~(k <= m)
        BY <1>1, <1>3, <4>1, IntFacts, <2>1
      <4>3. QED
        BY <3>1, <4>2
    <3>4. ASSUME NEW k \in Seqs, NEW n \in Seqs, m < k, k <= n, Recorded(n)' PROVE Recorded(k)'
      <4>1. CASE Recorded(n)
        BY <1>4, <3>1, <3>4, <4>1
      <4>2. CASE n \in batch.first..upto
        <5>1. k < batch.first \/ k \in batch.first..upto
          BY <1>2, <1>3, <3>4, <4>2, IntFacts
        <5>2. QED
          BY <1>4, <3>3, <3>4, <5>1
      <4>3. QED
        BY <1>4, <3>4, <4>1, <4>2
    <3>5. ASSUME NEW k \in Seqs, NEW s \in present', m < k, k < s PROVE Recorded(k)'
      <4>1. CASE s \in present
        BY <1>4, <3>1, <3>5, <4>1
      <4>2. CASE s = batch.start
        <5>1. Holds(batch.start, batch.first)
          BY <1>1, <1>3, HoldsIs DEF InBatch
        <5>2. batch.first \in Seqs
          BY <1>1, <1>3, IntFacts DEF Seqs
        <5>3. batch.start <= batch.first
          BY <1>1, <5>1, <5>2 DEF Inv, StoreInv, CutInv
        <5>4. k < batch.first
          BY <1>1, <1>3, <3>5, <4>2, <5>3, NumberFacts
        <5>5. QED
          BY <1>4, <3>3, <3>5, <5>4
      <4>3. QED
        BY <1>1, <3>5, <4>1, <4>2
    <3>6. QED
      BY <1>4, <3>1, <3>2, <3>4, <3>5
  <2>2. QED
    BY <1>1, <1>6, <2>1 DEF GapInv
<1>11. ApartInv'
  BY <1>0, <1>1, <1>5, <1>7, <1>8 DEF ApartInv
<1>12. \A s \in torn : s < segment_start /\ ~Pending(s) /\ s \in Starts
  <2>1. torn \subseteq Starts /\ batch.phase # "failed"
    BY <1>1, LiveTypes
  <2>2. QED
    BY <1>0, <1>1, <1>5, <2>1 DEF TornInv
<1>13. TornInv'
  <2>1. torn' \subseteq present'
    <3>1. torn \subseteq present
      BY <1>0 DEF TornInv
    <3>2. QED
      BY <1>1, <3>1
  <2>2. ASSUME NEW s \in torn', batch'.phase # "failed" PROVE s < segment_start' /\ ~Pending(s)'
    BY <1>1, <1>8, <1>12, <2>2
  <2>3. QED
    BY <2>1, <2>2 DEF TornInv
<1>14. AckInv'
  BY <1>0, <1>1, <1>5 DEF AckInv
<1>15. Repaired
  <2>1. Pending(batch.start)
    BY <1>1 DEF Pending
  <2>2. ASSUME NEW s \in torn PROVE file'[s] = file[s]
    BY <1>2, <1>3, <1>12, <2>1, <2>2
  <2>3. QED
    BY <2>2 DEF Repaired
<1>16. QED
  BY <1>9, <1>10, <1>11, <1>13, <1>14, <1>15 DEF LiveInv

-----------------------------------------------------------------------------
(***************************************************************************)
(* The checkpoint: publication, sync and retirement.                       *)
(***************************************************************************)

\* A snapshot published beyond the others, or left as the only one.
LEMMA PublishLive ==
    ASSUME PowerAlone, Inv, LiveInv, CkptPublish \/ CkptSync
    PROVE  LiveInv' /\ Repaired
<1>0. /\ NeverRefused /\ PowerInv /\ GapInv /\ ApartInv /\ TornInv /\ AckInv
      /\ StoreTypeOK /\ MarkInv /\ FrontInv
  BY DEF LiveInv, Inv, StoreInv
<1>1. /\ UNCHANGED <<vars, mode, memoryVars, saver, dirVars, ackVars>>
      /\ \/ At("write") /\ snapshot' = ckpt.boundary
            /\ snapshot_maybe' = snapshot_maybe \cup {ckpt.boundary}
         \/ snapshot' = snapshot /\ snapshot_maybe' = {snapshot}
  BY DEF CkptPublish, CkptSync
<1>2. UNCHANGED <<mode, checkpoint_seq, present, torn, file, disk, batch, queue, segment_start, error,
                  tickets, written_seq, durable_seq, seeded, acked_written, acked_durable>>
  BY <1>1 DEF vars, memoryVars, dirVars, ackVars, clientVars, streamVars, fileVars
<1>3. /\ snapshot \in Int /\ ckpt.boundary \in Int /\ checkpoint_seq \in Int /\ snapshot_maybe \subseteq Int
      /\ snapshot \in snapshot_maybe /\ (\A m \in snapshot_maybe : m <= snapshot)
  BY <1>0, MarkTypes, IntFacts DEF MarkInv, StoreTypeOK
<1>4. Up /\ Up' /\ mode # "down" /\ (At("write") => snapshot <= ckpt.boundary)
  <2>1. mode \in {"open", "closing"}
    BY <1>0 DEF MarkInv, At, CkptPublish, CkptSync
  <2>2. At("write") => snapshot <= ckpt.boundary
    BY <1>0 DEF MarkInv, At, Captured
  <2>3. QED
    BY <1>2, <2>1, <2>2 DEF Up
<1>5. \A m \in Snapshots' : m \in Int /\ \E low \in Snapshots : low <= m /\ low \in Int
  <2>1. \A m \in Snapshots : m \in Int
    BY <1>3 DEF Snapshots
  <2>2. snapshot \in Snapshots
    BY <1>3 DEF Snapshots
  <2>3. \A m \in Snapshots' : m \in Snapshots \/ m = snapshot \/ (At("write") /\ m = ckpt.boundary)
    BY <1>1 DEF Snapshots
  <2>4. ASSUME NEW m \in Snapshots' PROVE m \in Int /\ \E low \in Snapshots : low <= m /\ low \in Int
    <3>1. CASE m \in Snapshots
      BY <2>1, <3>1
    <3>2. CASE m = snapshot
      BY <1>3, <2>2, <3>2
    <3>3. CASE At("write") /\ m = ckpt.boundary
      BY <1>3, <1>4, <2>2, <3>3
    <3>4. QED
      BY <2>3, <2>4, <3>1, <3>2, <3>3
  <2>5. QED
    BY <2>4
<1>6. \A n : /\ (Recorded(n)' <=> Recorded(n)) /\ (OnMedium(n)' <=> OnMedium(n))
             /\ (Pending(n)' <=> Pending(n)) /\ (Used(n)' <=> Used(n))
  BY <1>2, <1>4 DEF Recorded, OnMedium, Pending, Used
<1>7. NeverRefused' /\ TornInv'
  BY <1>0, <1>2, <1>4, <1>6 DEF NeverRefused, TornInv
<1>8. PowerInv'
  <2>1. ASSUME NEW n \in 1..seeded, \A m \in snapshot_maybe : n <= m
        PROVE  \A m \in snapshot_maybe' : n <= m
    <3>1. n <= snapshot /\ n \in Int
      BY <1>3, <2>1
    <3>2. At("write") => n <= ckpt.boundary
      BY <1>3, <1>4, <3>1
    <3>3. QED
      BY <1>1, <2>1, <3>1, <3>2
  <2>2. QED
    BY <1>0, <1>2, <1>4, <1>6, <2>1 DEF PowerInv
<1>9. GapInv'
  <2>1. ASSUME NEW m \in Snapshots'
        PROVE  /\ checkpoint_seq <= m
               /\ \A n \in 1..written_seq : n <= m \/ Recorded(n)
               /\ \A k, n \in Seqs : m < k /\ k <= n /\ Recorded(n) => Recorded(k)
               /\ \A k \in Seqs, s \in present : m < k /\ k < s => Recorded(k)
    <3>1. PICK low \in Snapshots : low <= m /\ low \in Int
      BY <1>5, <2>1
    <3>2. /\ checkpoint_seq <= low
          /\ \A n \in 1..written_seq : n <= low \/ Recorded(n)
          /\ \A k, n \in Seqs : low < k /\ k <= n /\ Recorded(n) => Recorded(k)
          /\ \A k \in Seqs, s \in present : low < k /\ k < s => Recorded(k)
      BY <1>0, <1>4 DEF GapInv
    <3>3. m \in Int
      BY <1>5, <2>1
    <3>4. \A k \in Seqs : m < k => low < k
      BY <3>1, <3>3, NumberFacts
    <3>5. \A n \in 1..written_seq : n <= low => n <= m
      BY <3>1, <3>3
    <3>6. checkpoint_seq <= m
      BY <1>3, <3>1, <3>2, <3>3
    <3>7. QED
      BY <3>2, <3>4, <3>5, <3>6
  <2>2. QED
    BY <1>2, <1>4, <1>6, <2>1 DEF GapInv
<1>10. ApartInv'
  <2>1. \A s \in Starts, n \in Seqs : Holds(s, n)' => Holds(s, n)
    BY <1>2, KeepHolds
  <2>2. QED
    BY <1>0, <1>2, <1>4, <1>6, <2>1 DEF ApartInv
<1>11. AckInv'
  BY <1>0, <1>2, <1>4 DEF AckInv
<1>12. Repaired
  BY <1>2 DEF Repaired
<1>13. QED
  BY <1>7, <1>8, <1>9, <1>10, <1>11, <1>12 DEF LiveInv

\* Segments that every snapshot covers are deleted.
LEMMA RetireLive ==
    ASSUME PowerAlone, Inv, LiveInv, Up, NEW m0 \in Marks, \A m \in Snapshots : m0 <= m,
           NEW covered, covered \subseteq {s \in present : s <= m0},
           NEW pending, Retire(covered, pending),
           UNCHANGED <<clientVars, tickets, queue, batch, streamVars, mode, checkpoint_seq,
                       snapVars, ackVars>>
    PROVE  LiveInv' /\ Repaired
<1>0. /\ NeverRefused /\ PowerInv /\ GapInv /\ ApartInv /\ TornInv /\ AckInv
      /\ StoreTypeOK /\ FileInv /\ CutInv
  BY DEF LiveInv, Inv, StoreInv
<1>1. PICK d \in Deletions(covered) :
          /\ present' = present \ d.gone /\ torn' = torn \ d.gone
          /\ file' = Without(file, d.gone) /\ disk' = Without(disk, d.gone)
  BY DEF Retire
<1>2. d.gone \subseteq {s \in present : s <= m0}
  <2>1. d.gone \subseteq covered
    BY DEF Deletions
  <2>2. QED
    BY <2>1
<1>3. UNCHANGED <<mode, checkpoint_seq, snapshot, snapshot_maybe, batch, queue, segment_start, error,
                  tickets, written_seq, durable_seq, seeded, acked_written, acked_durable>>
  BY DEF snapVars, ackVars, clientVars, streamVars
<1>4. Up' /\ mode # "down" /\ Snapshots' = Snapshots
  BY <1>3 DEF Up, Snapshots
<1>5. m0 \in Int /\ present \subseteq Starts /\ (\A m \in Snapshots : m \in Int)
  <2>1. Marks \subseteq Int
    BY <1>0, MarkTypes
  <2>2. Snapshots \subseteq Int /\ present \subseteq Starts
    BY LiveTypes
  <2>3. QED
    BY <2>1, <2>2
<1>6. \A s \in Starts : file'[s] = (IF s \in d.gone THEN {} ELSE file[s])
                        /\ disk'[s] = (IF s \in d.gone THEN {} ELSE disk[s])
  BY <1>1 DEF Without
<1>7. \A s \in d.gone : s \in Starts /\ \A n \in file[s] : n \in Seqs /\ n <= m0
  <2>1. ASSUME NEW s \in d.gone, NEW n \in file[s] PROVE n \in Seqs /\ n <= m0
    <3>1. s \in Starts /\ s <= m0
      BY <1>2, <1>5, <2>1
    <3>2. n \in Seqs /\ Holds(s, n)
      BY <1>0, <2>1, <3>1, HoldsIs DEF FileInv
    <3>3. QED
      BY <1>0, <3>1, <3>2 DEF CutInv
  <2>2. QED
    BY <1>2, <1>5, <2>1
<1>8. \A n \in Seqs : (Recorded(n)' => Recorded(n)) /\ (Recorded(n) => Recorded(n)' \/ n <= m0)
                      /\ (OnMedium(n) => OnMedium(n)' \/ n <= m0)
  <2>1. \A s \in Starts : disk[s] \subseteq file[s]
    BY <1>0 DEF FileInv
  <2>2. QED
    BY <1>6, <1>7, <2>1 DEF Recorded, OnMedium
<1>9. \A m \in Snapshots, n \in Seqs : Recorded(n) => Recorded(n)' \/ n <= m
  <2>1. \A m \in Snapshots, n \in Seqs : n <= m0 => n <= m
    BY <1>5, NumberFacts
  <2>2. QED
    BY <1>8, <2>1
<1>10. \A r \in Starts : (Pending(r)' => Pending(r)) /\ (Used(r)' => Used(r))
  BY <1>1, <1>3, <1>4 DEF Pending, Used
<1>11. NeverRefused' /\ AckInv'
  BY <1>0, <1>3, <1>4 DEF NeverRefused, AckInv
<1>12. PowerInv'
  <2>1. ASSUME "power" \in Faults, NEW n \in 1..seeded, OnMedium(n)
        PROVE  OnMedium(n)' \/ \A m \in snapshot_maybe : n <= m
    <3>1. n \in Seqs /\ Snapshots = snapshot_maybe
      <4>1. seeded \in 0..MaxSeq
        BY <1>0 DEF StoreTypeOK
      <4>2. QED
        BY <2>1, <4>1, IntFacts DEF Seqs, Snapshots
    <3>2. CASE n <= m0
      BY <1>5, <3>1, <3>2, NumberFacts
    <3>3. QED
      BY <1>8, <2>1, <3>1, <3>2
  <2>2. QED
    BY <1>0, <1>3, <1>4, <2>1 DEF PowerInv
<1>13. GapInv'
  <2>1. ASSUME NEW m \in Snapshots
        PROVE  /\ checkpoint_seq <= m
               /\ \A n \in 1..written_seq : n <= m \/ Recorded(n)'
               /\ \A k, n \in Seqs : m < k /\ k <= n /\ Recorded(n)' => Recorded(k)'
               /\ \A k \in Seqs, s \in present' : m < k /\ k < s => Recorded(k)'
    <3>1. /\ checkpoint_seq <= m
          /\ \A n \in 1..written_seq : n <= m \/ Recorded(n)
          /\ \A k, n \in Seqs : m < k /\ k <= n /\ Recorded(n) => Recorded(k)
          /\ \A k \in Seqs, s \in present : m < k /\ k < s => Recorded(k)
      BY <1>0 DEF GapInv
    <3>2. \A n \in 1..written_seq : n \in Seqs
      <4>1. written_seq \in 0..MaxSeq /\ MaxSeq \in Nat
        BY LiveTypes
      <4>2. QED
        BY <4>1 DEF Seqs
    <3>3. \A k \in Seqs : m < k => ~(k <= m)
      BY <1>5, NumberFacts
    <3>4. QED
      BY <1>1, <1>8, <1>9, <3>1, <3>2, <3>3
  <2>2. QED
    BY <1>3, <1>4, <2>1 DEF GapInv
<1>14. ApartInv'
  <2>1. ASSUME NEW s \in Starts, NEW n \in Seqs, Holds(s, n)' PROVE Holds(s, n)
    BY <1>3, <1>6, <2>1 DEF Holds
  <2>2. QED
    BY <1>0, <1>3, <1>4, <1>10, <2>1 DEF ApartInv
<1>15. TornInv'
  <2>1. torn \subseteq Starts
    BY LiveTypes
  <2>2. QED
    BY <1>0, <1>1, <1>3, <1>4, <1>10, <2>1 DEF TornInv
<1>16. Repaired
  <2>1. torn \subseteq Starts
    BY LiveTypes
  <2>2. QED
    BY <1>6, <2>1 DEF Repaired
<1>17. QED
  BY <1>11, <1>12, <1>13, <1>14, <1>15, <1>16 DEF LiveInv

LEMMA CkptRetireLive ==
    ASSUME PowerAlone, Inv, LiveInv, CkptRetire \/ CkptRetireOnly
    PROVE  LiveInv' /\ Repaired
<1>0. MarkInv /\ Up
  <2>1. MarkInv
    BY DEF Inv, StoreInv
  <2>2. mode \in {"open", "closing"}
    BY <2>1 DEF MarkInv, At, CkptRetire, CkptRetireOnly
  <2>3. QED
    BY <2>1, <2>2 DEF Up
<1>1. UNCHANGED <<clientVars, tickets, queue, batch, streamVars, mode, checkpoint_seq, snapVars, ackVars>>
  BY DEF CkptRetire, CkptRetireOnly, memoryVars
<1>2. CASE CkptRetire
  <2> DEFINE covered == {s \in present : s <= ckpt.boundary}
  <2>1. PICK pending \in BOOLEAN : Retire(covered, pending)
    BY <1>2, Zenon DEF CkptRetire
  <2>2. covered \subseteq {s \in present : s <= ckpt.boundary}
    OBVIOUS
  <2> HIDE DEF covered
  <2>3. At("retire") /\ snapshot_maybe = {ckpt.boundary} /\ ckpt.boundary \in Marks
    BY <1>0, <1>2 DEF CkptRetire, MarkInv, At, Marks, Captured
  <2>4. \A m \in Snapshots : ckpt.boundary <= m
    <3>1. \A m \in Snapshots : m \in snapshot_maybe /\ m \in Int
      BY LiveTypes
    <3>2. \A m \in Snapshots : m = ckpt.boundary
      BY <2>3, <3>1
    <3>3. QED
      BY <3>1, <3>2
  <2>5. QED
    BY <1>0, <1>1, <2>1, <2>2, <2>3, <2>4, RetireLive
<1>3. CASE CkptRetireOnly
  <2> DEFINE covered == {s \in present \ Protected : s <= checkpoint_seq}
  <2>1. PICK pending \in BOOLEAN : Retire(covered, pending)
    BY <1>3 DEF CkptRetireOnly
  <2>2. covered \subseteq {s \in present : s <= checkpoint_seq}
    OBVIOUS
  <2> HIDE DEF covered
  <2>3. checkpoint_seq \in Marks /\ \A m \in Snapshots : checkpoint_seq <= m
    BY <1>0 DEF Marks, LiveInv, GapInv
  <2>4. QED
    BY <1>0, <1>1, <2>1, <2>2, <2>3, RetireLive
<1>4. QED
  BY <1>2, <1>3

-----------------------------------------------------------------------------
(***************************************************************************)
(* The end of the process, by a crash or a loss of power.                  *)
(***************************************************************************)

\* What is left is what was written up to some point.
LEMMA DownLive ==
    ASSUME Inv, Inv', LiveInv, Up, ForgetMemory, NEW c \in Int,
           \A n \in Seqs : Recorded(n)' <=> Recorded(n) /\ n <= c,
           \A s \in Starts : file'[s] \subseteq file[s],
           present' \subseteq present, torn' \subseteq present',
           \A k \in Seqs, s \in present' :
               k < s => k <= c \/ \E n \in Seqs : k <= n /\ Recorded(n)',
           Snapshots' = {snapshot'}, snapshot' \in Snapshots,
           acked_durable' <= acked_written',
           \A n \in 1..acked_written' : n <= snapshot' \/ Recorded(n)',
           PowerInv'
    PROVE  LiveInv'
<1>1. /\ mode' = "down" /\ tickets' = {} /\ queue' = <<>> /\ batch'.phase = "idle"
      /\ written_seq' = 0
  BY BlankFacts DEF ForgetMemory
<1>2. ~Up' /\ NeverRefused'
  BY <1>1 DEF Up, NeverRefused
<1>3. /\ GapInv /\ ApartInv /\ present \subseteq Starts /\ \A m \in Snapshots : m \in Int
  <2>1. Snapshots \subseteq Int /\ present \subseteq Starts
    BY LiveTypes
  <2>2. QED
    BY <2>1 DEF LiveInv
<1>4. \A s \in Starts, n \in Seqs : Holds(s, n)' => Holds(s, n)
  <2>1. 1..Len(queue') = {}
    BY <1>1
  <2>2. QED
    BY <1>1, <2>1 DEF Holds
<1>5. \A r : Used(r)' => Used(r)
  <2>1. 1..Len(queue') = {}
    BY <1>1
  <2>2. QED
    BY <1>1, <1>2, <2>1 DEF Used, Pending
<1>6. ApartInv'
  BY <1>2, <1>3, <1>4, <1>5 DEF ApartInv
<1>7. TornInv' /\ AckInv'
  BY <1>1, <1>2 DEF TornInv, AckInv
<1>8. GapInv'
  <2>1. /\ \A k, n \in Seqs : snapshot' < k /\ k <= n /\ Recorded(n) => Recorded(k)
        /\ \A k \in Seqs, s \in present : snapshot' < k /\ k < s => Recorded(k)
    BY <1>3 DEF GapInv
  <2>2. ASSUME NEW k \in Seqs, NEW n \in Seqs, snapshot' < k, k <= n, Recorded(n)'
        PROVE  Recorded(k)'
    <3>1. Recorded(n) /\ n <= c /\ Recorded(k)
      BY <2>1, <2>2
    <3>2. k <= c
      BY <2>2, <3>1, NumberFacts
    <3>3. QED
      BY <3>1, <3>2
  <2>3. ASSUME NEW k \in Seqs, NEW s \in present', snapshot' < k, k < s PROVE Recorded(k)'
    <3>1. CASE k <= c
      <4>1. Recorded(k)
        BY <2>1, <2>3
      <4>2. QED
        BY <3>1, <4>1
    <3>2. CASE \E n \in Seqs : k <= n /\ Recorded(n)'
      BY <2>2, <2>3, <3>2
    <3>3. QED
      BY <2>3, <3>1, <3>2
  <2>4. 1..written_seq' = {}
    BY <1>1
  <2>5. QED
    BY <1>2, <2>2, <2>3, <2>4 DEF GapInv
<1>9. QED
  BY <1>2, <1>6, <1>7, <1>8 DEF LiveInv

LEMMA IsUp ==
    ASSUME Inv, mode \notin {"down", "refused"}
    PROVE  Up
BY DEF Inv, StoreInv, StoreTypeOK, Modes, Up

LEMMA CrashLive ==
    ASSUME PowerAlone, Inv, Inv', LiveInv, ProcessCrash
    PROVE  LiveInv' /\ Repaired
<1>1. /\ "power" \notin Faults /\ ForgetMemory
      /\ UNCHANGED <<file, disk, snapshot, snapshot_maybe, present, torn, acked_written, acked_durable>>
  BY DEF ProcessCrash, PowerAlone, fileVars, snapVars, dirVars
<1>2. Up
  BY IsUp DEF ProcessCrash
<1>3. /\ MaxSeq \in Int /\ \A n \in Seqs : n <= MaxSeq
      /\ \A n : Recorded(n)' <=> Recorded(n)
  BY <1>1, IntFacts DEF Seqs, Recorded
<1>4. \A k \in Seqs : k <= MaxSeq
  BY <1>3
<1>5. Snapshots' = {snapshot'} /\ snapshot' \in Snapshots
  BY <1>1 DEF Snapshots
<1>6. \A n \in 1..acked_written : n <= snapshot \/ Recorded(n)
  <2>1. acked_written <= written_seq /\ acked_written \in Int /\ written_seq \in Int
    <3>1. acked_written \in 0..MaxSeq /\ written_seq \in 0..MaxSeq
      BY LiveTypes
    <3>2. QED
      BY <1>2, <3>1 DEF LiveInv, AckInv
  <2>2. \A n \in 1..written_seq : n <= snapshot \/ Recorded(n)
    BY <1>1 DEF LiveInv, GapInv, Snapshots
  <2>3. QED
    BY <2>1, <2>2
<1>7. acked_durable <= acked_written /\ torn \subseteq present /\ PowerInv'
  BY <1>1 DEF LiveInv, AckInv, TornInv, PowerInv
<1>8. LiveInv'
  BY <1>1, <1>2, <1>3, <1>5, <1>6, <1>7, DownLive
<1>9. QED
  BY <1>1, <1>8 DEF Repaired

\* The records that a power loss keeps are those up to the cut.
LEMMA PowerLive ==
    ASSUME PowerAlone, Inv, Inv', LiveInv, PowerLoss
    PROVE  LiveInv' /\ Repaired
<1>0. /\ NeverRefused /\ PowerInv /\ GapInv /\ AckInv /\ FileInv /\ CutInv /\ MarkInv
      /\ "power" \in Faults /\ ~PerFileWriteback /\ Snapshots = snapshot_maybe /\ ForgetMemory
  BY DEF LiveInv, Inv, StoreInv, PowerLoss, PowerAlone, Snapshots
<1>1. Up
  BY IsUp DEF PowerLoss
<1>2. PICK cut \in Cuts :
          /\ file' = Survivors(cut) /\ disk' = Survivors(cut)
          /\ \E headers \in SUBSET {s \in present : Survivors(cut)[s] = {}
                                        /\ (PerFileWriteback \/ s <= cut[s] + 1)} :
                 present' = {s \in present : Survivors(cut)[s] # {}} \cup headers
          /\ \E t \in SUBSET {s \in present : Survivors(cut)[s] # file[s]} :
                 torn' = (torn \cup t) \cap present'
  BY DEF PowerLoss
<1>3. PICK c \in 0..MaxSeq : /\ cut = [s \in Starts |-> c]
                             /\ \A s \in Starts : \A n \in disk[s] : n <= c
  BY <1>0, <1>2 DEF Cuts
<1>4. file \in [Starts -> SUBSET Seqs] /\ present \subseteq Starts /\ c \in Int
      /\ (\A s \in Starts : disk[s] \subseteq file[s]) /\ (\A s \in Starts : file[s] # {} => s \in present)
  <2>1. present \subseteq Starts /\ MaxSeq \in Nat
    BY LiveTypes
  <2>2. QED
    BY <1>0, <1>3, <2>1 DEF FileInv
<1>5. \A s \in Starts : Survivors(cut)[s] = {n \in file[s] : n <= c}
  BY <1>3, <1>4 DEF Survivors
<1>6. \A s \in Starts : file'[s] = {n \in file[s] : n <= c}
  BY <1>2, <1>5
<1>7. \A n \in Seqs : Recorded(n)' <=> Recorded(n) /\ n <= c
  BY <1>6 DEF Recorded
<1>8. present' \subseteq present /\ torn' \subseteq present'
      /\ \A s \in present' : file'[s] # {} \/ s <= c + 1
  <2>1. PICK headers \in SUBSET {s \in present : Survivors(cut)[s] = {}
                                     /\ (PerFileWriteback \/ s <= cut[s] + 1)} :
                 present' = {s \in present : Survivors(cut)[s] # {}} \cup headers
    BY <1>2
  <2>2. \A s \in headers : s \in present /\ s <= c + 1
    BY <1>0, <1>3, <1>4, <2>1
  <2>3. torn' \subseteq present'
    BY <1>2
  <2>4. QED
    BY <1>2, <2>1, <2>2, <2>3
<1>9. ASSUME NEW k \in Seqs, NEW s \in present', k < s
      PROVE  k <= c \/ \E n \in Seqs : k <= n /\ Recorded(n)'
  <2>1. s \in Starts
    BY <1>4, <1>8, <1>9
  <2>2. CASE s <= c + 1
    BY <1>4, <1>9, <2>1, <2>2, NumberFacts
  <2>3. CASE file'[s] # {}
    <3>1. PICK n \in file[s] : n <= c
      BY <1>6, <2>1, <2>3
    <3>2. n \in Seqs /\ Holds(s, n)
      BY <1>4, <2>1, <3>1, HoldsIs
    <3>3. s <= n
      BY <1>0, <2>1, <3>2 DEF CutInv
    <3>4. k <= c
      BY <1>4, <1>9, <2>1, <3>1, <3>2, <3>3, NumberFacts
    <3>5. QED
      BY <3>4
  <2>4. QED
    BY <1>8, <1>9, <2>2, <2>3
<1>10. snapshot' \in snapshot_maybe /\ snapshot_maybe' = {snapshot'} /\ Snapshots' = {snapshot'}
  BY <1>0 DEF PowerLoss, Snapshots
<1>11. acked_written' = acked_durable /\ acked_durable' = acked_durable
       /\ acked_durable \in 0..MaxSeq /\ durable_seq \in 0..MaxSeq /\ seeded \in 0..MaxSeq
       /\ MaxSeq \in Nat
  <2>1. acked_durable \in 0..MaxSeq /\ durable_seq \in 0..MaxSeq /\ MaxSeq \in Nat /\ StoreTypeOK
    BY LiveTypes
  <2>2. QED
    BY <2>1 DEF PowerLoss, StoreTypeOK
<1>12. \A n \in 1..acked_durable : n <= snapshot' \/ Recorded(n)'
  <2>1. SUFFICES ASSUME NEW n \in 1..acked_durable PROVE n <= snapshot' \/ Recorded(n)'
    OBVIOUS
  <2>2. acked_durable <= durable_seq
    BY <1>0, <1>1 DEF AckInv
  <2>3. n \in 1..durable_seq /\ n \in Seqs
    BY <1>11, <2>1, <2>2 DEF Seqs
  <2>4. OnMedium(n) \/ \A m \in snapshot_maybe : n <= m
    <3>1. CASE n \in 1..seeded
      BY <1>0, <3>1 DEF PowerInv
    <3>2. CASE n \notin 1..seeded
      <4>1. n \in (seeded + 1)..durable_seq
        BY <1>11, <2>3, <3>2
      <4>2. QED
        BY <4>1, InvDurableSafe DEF DurableIsSafe
    <3>3. QED
      BY <3>1, <3>2
  <2>5. OnMedium(n) => Recorded(n)'
    BY <1>3, <1>4, <1>6 DEF OnMedium, Recorded
  <2>6. QED
    BY <1>10, <2>4, <2>5
<1>13. PowerInv'
  <2>1. mode' = "down" /\ seeded' = 0 /\ disk' = file'
    BY <1>0, <1>2 DEF ForgetMemory
  <2>2. 1..seeded' = {}
    BY <2>1
  <2>3. QED
    BY <1>10, <2>1, <2>2 DEF PowerInv
<1>14. \A s \in Starts : file'[s] \subseteq file[s]
  BY <1>6
<1>15. acked_durable' <= acked_written' /\ \A n \in 1..acked_written' : n <= snapshot' \/ Recorded(n)'
  BY <1>11, <1>12
<1>16. LiveInv'
  BY <1>0, <1>1, <1>4, <1>7, <1>8, <1>9, <1>10, <1>13, <1>14, <1>15, DownLive
<1>17. Repaired
  <2>1. torn \subseteq Starts
    BY LiveTypes
  <2>2. QED
    BY <1>14, <2>1 DEF Repaired
<1>18. QED
  BY <1>16, <1>17

-----------------------------------------------------------------------------
(***************************************************************************)
(* Load: replay meets no hole, and the journal resumes behind the last     *)
(* whole record.                                                           *)
(***************************************************************************)

LEMMA NoHole ==
    ASSUME Inv, GapInv, ApartInv
    PROVE  Contiguous
<1>0. /\ MaxSeq \in Nat /\ snapshot \in -1..MaxSeq /\ present \subseteq Starts
      /\ file \in [Starts -> SUBSET Seqs] /\ snapshot \in Snapshots
      /\ (\A s \in Starts : file[s] # {} => s \in present)
  <2>1. /\ MaxSeq \in Nat /\ present \subseteq Starts /\ StoreTypeOK
        /\ file \in [Starts -> SUBSET Seqs] /\ snapshot \in Snapshots
    BY LiveTypes
  <2>2. QED
    BY <2>1 DEF StoreTypeOK, Inv, StoreInv, FileInv
<1>1. Base \in Nat /\ \A n \in Seqs : n > Base <=> snapshot < n
  BY <1>0 DEF Base, MaxOf, Seqs
<1>2. \A n \in Seqs : n \in Replayed <=> n > Base /\ Recorded(n)
  BY <1>0 DEF Replayed, Recorded
<1>3. Replayed \subseteq Seqs
  BY DEF Replayed
<1>4. ASSUME NEW n \in Replayed, NEW k \in (Base + 1)..n PROVE k \in Replayed
  <2>1. n \in Seqs /\ Recorded(n)
    BY <1>2, <1>3
  <2>2. k \in Seqs /\ k > Base /\ k <= n
    BY <1>0, <1>1, <1>4, <2>1 DEF Seqs
  <2>3. Recorded(k)
    BY <1>0, <1>1, <2>1, <2>2 DEF GapInv
  <2>4. QED
    BY <1>2, <2>2, <2>3
<1>5. IsFiniteSet(Replayed)
  <2>1. IsFiniteSet(1..MaxSeq)
    BY <1>0, FS_Interval
  <2>2. QED
    BY <1>3, <2>1, FS_Subset DEF Seqs
<1>6. PICK c \in Nat : c = Cardinality(Replayed)
  BY <1>5, FS_CardinalityType
<1>7. ASSUME NEW n \in Replayed PROVE n \in (Base + 1)..(Base + c)
  <2>1. n \in Int /\ n > Base
    BY <1>2, <1>3, NumberFacts
  <2>2. (Base + 1)..n \subseteq Replayed
    BY <1>4
  <2>3. Cardinality((Base + 1)..n) <= c
    BY <1>5, <1>6, <2>2, FS_Subset
  <2>4. Cardinality((Base + 1)..n) = n - (Base + 1) + 1
    <3>1. PICK first \in Int : first = Base + 1 /\ ~(first > n)
      BY <1>1, <2>1
    <3>2. Cardinality(first..n) = IF first > n THEN 0 ELSE n - first + 1
      BY <2>1, FS_Interval
    <3>3. Cardinality(first..n) = n - first + 1
      BY <3>1, <3>2, Zenon
    <3>4. QED
      BY <3>1, <3>3, Zenon
  <2>5. QED
    BY <1>1, <2>1, <2>3, <2>4
<1>8. Replayed = (Base + 1)..(Base + c)
  <2> DEFINE I == (Base + 1)..(Base + c)
  <2>1. IsFiniteSet(I) /\ Cardinality(I) = c
    <3>1. PICK first \in Int, last \in Int : first = Base + 1 /\ last = Base + c
      BY <1>1
    <3>2. IsFiniteSet(first..last) /\ Cardinality(first..last) = IF first > last THEN 0 ELSE last - first + 1
      BY FS_Interval
    <3>3. (IF first > last THEN 0 ELSE last - first + 1) = c
      BY <1>1, <3>1
    <3>4. I = first..last
      BY <3>1, Zenon
    <3> HIDE DEF I
    <3>5. QED
      BY <3>2, <3>3, <3>4, Zenon
  <2>2. Replayed \subseteq I
    BY <1>7
  <2> HIDE DEF I
  <2>3. Replayed = I
    BY <1>6, <2>1, <2>2, FS_Subset
  <2>4. QED
    BY <2>3 DEF I
<1>9. ASSUME NEW s \in present, NEW r \in present, s < r,
             NEW n \in file[s] \cap Replayed, NEW k \in file[r] \cap Replayed
      PROVE  n < k
  <2>1. s \in Starts /\ r \in Starts /\ n \in Seqs /\ k \in Seqs
    BY <1>0, <1>3
  <2>2. Holds(s, n) /\ Holds(r, k) /\ Used(r)
    BY HoldsIs DEF Used
  <2>3. n < r
    BY <1>9, <2>1, <2>2 DEF ApartInv
  <2>4. r <= k
    BY <2>1, <2>2 DEF Inv, StoreInv, CutInv
  <2>5. QED
    BY <2>1, <2>3, <2>4, NumberFacts
<1>10. QED
  BY <1>6, <1>8, <1>9, Zenon DEF Contiguous

\* The records beyond the snapshot are the ones up to Recovered.
LEMMA RecoveredFacts ==
    ASSUME Inv, Contiguous
    PROVE  /\ Recovered \in 0..MaxSeq /\ Base \in 0..MaxSeq /\ snapshot <= Base /\ Base <= Recovered
           /\ \A n \in Seqs : n <= Base <=> n <= snapshot
           /\ \A n \in Seqs : Recorded(n) => n <= Recovered
           /\ \A n \in Seqs : n <= Recovered => n <= snapshot \/ Recorded(n)
           /\ \A s \in present, n \in Seqs : n \in file[s] /\ snapshot < n => n \in Replayed
<1>0. /\ StoreTypeOK /\ present \subseteq Starts /\ snapshot \in Int
      /\ (\A s \in Starts : file[s] # {} => s \in present)
  <2>1. StoreTypeOK /\ present \subseteq Starts /\ snapshot \in Int
    BY LiveTypes
  <2>2. QED
    BY <2>1 DEF Inv, StoreInv, FileInv
<1>1. /\ Recovered \in 0..MaxSeq /\ Base \in 0..MaxSeq /\ snapshot <= Base /\ Base <= Recovered
      /\ \A n \in Seqs : n <= snapshot <=> n <= Base
      /\ \A n \in Seqs : n \in Replayed <=> Base < n /\ n <= Recovered
  BY <1>0, LoadFacts
<1>2. Base \in Int /\ Recovered \in Int
  <2>1. MaxSeq \in Nat
    BY LiveTypes
  <2>2. QED
    BY <1>1, <2>1
<1>3. \A n \in Seqs : n <= Base \/ Base < n
  BY <1>2, NumberFacts
<1>4. \A s \in present, n \in Seqs : n \in file[s] /\ Base < n => n \in Replayed
  BY <1>2, NumberFacts DEF Replayed
<1>5. \A n \in Seqs : Recorded(n) => n <= Recovered
  <2>1. ASSUME NEW n \in Seqs, Recorded(n) PROVE n <= Recovered
    <3>1. PICK s \in present : n \in file[s]
      BY <1>0, <2>1 DEF Recorded
    <3>2. CASE Base < n
      BY <1>1, <1>4, <3>1, <3>2
    <3>3. CASE n <= Base
      BY <1>1, <1>2, <3>3, NumberFacts
    <3>4. QED
      BY <1>3, <3>2, <3>3
  <2>2. QED
    BY <2>1
<1>6. \A n \in Seqs : n <= Recovered => n <= snapshot \/ Recorded(n)
  <2>1. \A n \in Replayed : Recorded(n)
    BY <1>0 DEF Replayed, Recorded
  <2>2. QED
    BY <1>1, <1>3, <2>1
<1>7. \A n \in Seqs : snapshot < n => Base < n
  BY <1>0, <1>1, <1>3, NumberFacts
<1>8. QED
  BY <1>1, <1>4, <1>5, <1>6, <1>7

\* What load leaves of the directory, and where the journal goes on.
LEMMA LoadShape ==
    ASSUME Inv, GapInv, TornInv, Contiguous, LoadAccepted
    PROVE  /\ mode' = "open" /\ checkpoint_seq' = snapshot /\ seeded' = Recovered
           /\ written_seq' = Recovered /\ durable_seq' = Recovered
           /\ UNCHANGED <<queue, batch, snapshot, snapshot_maybe, acked_written, acked_durable>>
           /\ present' \subseteq present /\ torn' \subseteq torn \cap present'
           /\ \A s \in Starts : file'[s] \subseteq file[s]
           /\ \A s \in Starts : s > snapshot => file'[s] = file[s]
           /\ \A s \in Starts : disk[s] = file[s] => disk'[s] = file'[s]
           /\ segment_start' \in present \/ segment_start' = Recovered + 1
           /\ \A s \in present : s <= segment_start'
           /\ segment_start' \notin torn'
<1>0. /\ MaxSeq \in Nat /\ snapshot \in Int /\ present \subseteq Starts /\ torn \subseteq present
      /\ snapshot \in Snapshots /\ Inv
  <2>1. MaxSeq \in Nat /\ snapshot \in Int /\ present \subseteq Starts /\ snapshot \in Snapshots
    BY LiveTypes
  <2>2. QED
    BY <2>1 DEF TornInv
<1>1. \A c : \A e \in Deletions(c) : e.gone \subseteq c
  <2>1. SUFFICES ASSUME NEW c, NEW e \in Deletions(c) PROVE e.gone \subseteq c
    OBVIOUS
  <2>2. \/ e \in {x \in [gone : SUBSET c, pending : BOOLEAN] : x.gone # c => x.pending}
        \/ e = [gone |-> c, pending |-> FALSE]
    BY Zenon DEF Deletions
  <2>3. CASE e = [gone |-> c, pending |-> FALSE]
    BY <2>3, Zenon
  <2>4. CASE e \in {x \in [gone : SUBSET c, pending : BOOLEAN] : x.gone # c => x.pending}
    <3>1. e \in [gone : SUBSET c, pending : BOOLEAN]
      BY <2>4, Zenon
    <3>2. QED
      BY <3>1, SMT
  <2>5. QED
    BY <2>2, <2>3, <2>4
<1> DEFINE resume == {s \in Starts : Resumable(s)}
           start  == IF resume = {} THEN Recovered + 1 ELSE CHOOSE s \in resume : TRUE
           live   == [s \in Starts |-> IF s \in present
                                       THEN Cardinality(file[s] \cap Replayed) ELSE 0]
           covered == {s \in present : s <= Base /\ live[s] = 0 /\ s # start}
           synced  == [s \in Starts |-> IF s \in Truncated(resume) THEN file[s] ELSE disk[s]]
<1>2. PICK d \in Deletions(covered) :
          /\ present' = present \ d.gone
          /\ torn' = (torn \ d.gone) \ Truncated(resume)
          /\ file' = Without(file, d.gone)
          /\ disk' = Without(synced, d.gone)
  BY DEF LoadAccepted
<1>3. /\ mode' = "open" /\ checkpoint_seq' = snapshot /\ seeded' = Recovered
      /\ written_seq' = Recovered /\ durable_seq' = Recovered /\ segment_start' = start
      /\ UNCHANGED <<queue, batch, snapVars, acked_written, acked_durable>>
  BY DEF LoadAccepted
<1>4. /\ Recovered \in 0..MaxSeq /\ Base \in 0..MaxSeq /\ snapshot <= Base /\ Base <= Recovered
      /\ \A n \in Seqs : n <= Base <=> n <= snapshot
      /\ \A n \in Seqs : Recorded(n) => n <= Recovered
  BY <1>0, RecoveredFacts
<1>5. \A s \in d.gone : s \in present /\ s <= Base
  <2>1. d.gone \subseteq covered
    BY <1>1
  <2>2. QED
    BY <2>1
<1>6. \A s \in present : s <= Recovered + 1
  <2>1. ASSUME NEW s \in present, ~(s <= Recovered + 1) PROVE FALSE
    <3>1. s \in 1..(MaxSeq + 1)
      BY <1>0, NumberFacts DEF Starts
    <3>2. PICK k \in Seqs : k = Recovered + 1 /\ k < s /\ snapshot < k
      BY <1>0, <1>4, <2>1, <3>1 DEF Seqs
    <3>3. Recorded(k)
      BY <1>0, <2>1, <3>2 DEF GapInv
    <3>4. QED
      BY <1>4, <3>2, <3>3
  <2>2. QED
    BY <2>1
<1>7. ASSUME resume # {}
      PROVE  /\ start \in present \/ start = Recovered + 1
             /\ \A s \in present : s <= start
             /\ start \notin torn'
  <2>1. start \in resume
    BY <1>7
  <2>2. Resumable(start)
    BY <2>1
  <2> HIDE DEF start
  <2>2a. start \in present /\ \A s \in present : s <= start
    BY <2>2 DEF Resumable
  <2>3. start \notin torn'
    <3>1. start \in torn => start \in Truncated(resume)
      BY <2>1, Zenon DEF Truncated
    <3>2. QED
      BY <1>2, <3>1, Zenon
  <2>4. QED
    BY <2>2a, <2>3
<1>8. ASSUME resume = {}
      PROVE  /\ start \in present \/ start = Recovered + 1
             /\ \A s \in present : s <= start
             /\ start \notin torn'
  <2>1. start = Recovered + 1
    BY <1>8
  <2>2. \A s \in present : s <= start
    BY <1>6, <2>1
  <2>3. start \notin present
    <3>1. ASSUME start \in present PROVE FALSE
      <4>1. Resumable(start) /\ start \in Starts
        BY <1>0, <2>1, <2>2, <3>1, Zenon DEF Resumable
      <4>2. QED
        BY <1>8, <4>1
    <3>2. QED
      BY <3>1
  <2> HIDE DEF start, resume, covered, synced
  <2>4. start \notin torn'
    <3>1. torn' \subseteq torn
      BY <1>2
    <3>2. QED
      BY <1>0, <2>3, <3>1
  <2>5. QED
    BY <2>1, <2>2, <2>4
<1>9. /\ start \in present \/ start = Recovered + 1
      /\ \A s \in present : s <= start
      /\ start \notin torn'
  BY <1>7, <1>8
<1> HIDE DEF resume, start, live, covered
<1>10. \A s \in Starts : /\ file'[s] = (IF s \in d.gone THEN {} ELSE file[s])
                         /\ disk'[s] = (IF s \in d.gone THEN {} ELSE synced[s])
  BY <1>2 DEF Without
<1>11. \A s \in Starts : s > snapshot => s \notin d.gone
  <2>1. \A s \in Starts : s \in Int /\ s >= 1
    BY NumberFacts DEF Starts
  <2>2. snapshot \in Int /\ Base = (IF snapshot > 0 THEN snapshot ELSE 0) 
    BY <1>0 DEF Base, MaxOf
  <2>3. \A s \in Starts : s <= Base => s <= snapshot
    BY <2>1, <2>2
  <2>4. QED
    BY <1>0, <1>5, <2>1, <2>3
<1>12. \A s \in Starts : /\ file'[s] \subseteq file[s]
                         /\ s > snapshot => file'[s] = file[s]
                         /\ disk[s] = file[s] => disk'[s] = file'[s]
  BY <1>10, <1>11
<1>13. present' \subseteq present /\ torn' \subseteq torn \cap present'
  BY <1>0, <1>2
<1>14. QED
  BY <1>3, <1>9, <1>12, <1>13 DEF snapVars

LEMMA LoadLive ==
    ASSUME PowerAlone, Inv, Inv', LiveInv, Load
    PROVE  LiveInv' /\ Repaired
<1>0. /\ PowerInv /\ GapInv /\ ApartInv /\ TornInv /\ AckInv
      /\ mode \in {"down", "closed"}
      /\ CoordInv /\ (handles = 0 /\ queue = <<>> => batch.phase = "idle")
  BY JFacts DEF LiveInv, Load, Inv, StoreInv
<1>1. Contiguous /\ LoadAccepted
  <2>1. Contiguous
    BY <1>0, NoHole
  <2>2. QED
    BY <2>1 DEF Load
<1>2. /\ mode' = "open" /\ checkpoint_seq' = snapshot /\ seeded' = Recovered
      /\ written_seq' = Recovered /\ durable_seq' = Recovered
      /\ UNCHANGED <<queue, batch, snapshot, snapshot_maybe, acked_written, acked_durable>>
      /\ present' \subseteq present /\ torn' \subseteq torn \cap present'
      /\ \A s \in Starts : file'[s] \subseteq file[s]
      /\ \A s \in Starts : s > snapshot => file'[s] = file[s]
      /\ \A s \in Starts : disk[s] = file[s] => disk'[s] = file'[s]
      /\ segment_start' \in present \/ segment_start' = Recovered + 1
      /\ \A s \in present : s <= segment_start'
      /\ segment_start' \notin torn'
  BY <1>0, <1>1, LoadShape
<1>3. /\ Recovered \in 0..MaxSeq /\ snapshot <= Recovered
      /\ \A n \in Seqs : Recorded(n) => n <= Recovered
      /\ \A n \in Seqs : n <= Recovered => n <= snapshot \/ Recorded(n)
  <2>1. /\ Recovered \in 0..MaxSeq /\ Base \in 0..MaxSeq /\ snapshot <= Base /\ Base <= Recovered
        /\ \A n \in Seqs : Recorded(n) => n <= Recovered
        /\ \A n \in Seqs : n <= Recovered => n <= snapshot \/ Recorded(n)
    BY <1>1, RecoveredFacts
  <2>2. MaxSeq \in Nat /\ snapshot \in Int
    BY LiveTypes
  <2>3. QED
    BY <2>1, <2>2
<1>4. /\ present \subseteq Starts /\ torn \subseteq Starts /\ snapshot \in Int /\ MaxSeq \in Nat
      /\ segment_start' \in Starts /\ Up' /\ mode' # "down"
  <2>1. present \subseteq Starts /\ torn \subseteq Starts /\ snapshot \in Int /\ MaxSeq \in Nat
    BY LiveTypes
  <2>2. segment_start' \in Starts
    BY LiveTypesNext
  <2>3. QED
    BY <1>2, <2>1, <2>2 DEF Up
\* Before the load and after it, the snapshot is the only one that counts.
<1>5. snapshot_maybe = {snapshot} \/ "power" \notin Faults
  BY <1>0 DEF PowerAlone, PowerInv
<1>6. Snapshots = {snapshot} /\ Snapshots' = {snapshot}
  BY <1>2, <1>5, Zenon DEF Snapshots
<1>7. \A n \in Seqs : snapshot < n => (Recorded(n)' <=> Recorded(n))
  <2>1. ASSUME NEW n \in Seqs, snapshot < n, Recorded(n) PROVE Recorded(n)'
    <3>1. PICK s \in Starts : n \in file[s]
      BY <2>1 DEF Recorded
    <3>2. Holds(s, n) /\ snapshot \in Marks
      BY <3>1, HoldsIs DEF Marks
    <3>3. s <= snapshot => n <= snapshot
      BY <3>2 DEF Inv, StoreInv, CutInv
    <3>4. s > snapshot
      BY <1>4, <2>1, <3>3, NumberFacts
    <3>5. QED
      BY <1>2, <3>1, <3>4 DEF Recorded
  <2>2. \A n : Recorded(n)' => Recorded(n)
    BY <1>2 DEF Recorded
  <2>3. QED
    BY <2>1, <2>2
<1>8. \A r \in Starts : ~Pending(r)'
  <2>1. queue = <<>> /\ batch.phase = "idle"
    BY <1>0 DEF CoordInv
  <2>2. queue' = <<>> /\ batch'.phase = "idle"
    BY <1>2, <2>1
  <2>3. QED
    BY <2>2 DEF Pending
<1>9. \A s \in Starts, n \in Seqs : Holds(s, n)' => Holds(s, n) /\ Recorded(n)
  <2>1. ASSUME NEW s \in Starts, NEW n \in Seqs, Holds(s, n)' PROVE Holds(s, n) /\ Recorded(n)
    <3>1. queue' = <<>> /\ batch'.phase = "idle"
      BY <1>0, <1>2 DEF CoordInv
    <3>2. n \in file'[s]
      BY <2>1, <3>1 DEF Holds
    <3>3. QED
      BY <1>2, <3>2 DEF Holds, Recorded
  <2>2. QED
    BY <2>1
<1>10. NeverRefused' /\ Repaired
  BY <1>2, <1>4 DEF NeverRefused, Repaired
<1>11. PowerInv'
  <2>1. ASSUME "power" \in Faults, NEW n \in 1..seeded'
        PROVE  OnMedium(n)' \/ \A m \in snapshot_maybe' : n <= m
    <3>1. snapshot_maybe' = {snapshot} /\ disk = file
      BY <1>0, <1>2, <2>1 DEF PowerAlone, PowerInv
    <3>2. n \in Seqs /\ n <= Recovered
      BY <1>2, <1>3, <1>4, <2>1 DEF Seqs
    <3>3. CASE n <= snapshot
      BY <3>1, <3>3
    <3>4. CASE ~(n <= snapshot)
      <4>1. Recorded(n) /\ snapshot < n
        BY <1>3, <1>4, <3>2, <3>4, NumberFacts
      <4>2. PICK s \in Starts : n \in file'[s]
        BY <1>7, <3>2, <4>1 DEF Recorded
      <4>3. n \in disk'[s]
        BY <1>2, <3>1, <4>2
      <4>4. QED
        BY <4>3 DEF OnMedium
    <3>5. QED
      BY <3>3, <3>4
  <2>2. QED
    BY <1>2, <1>4, <2>1 DEF PowerInv
<1>12. GapInv'
  <2>1. checkpoint_seq' <= snapshot
    BY <1>2, <1>4
  <2>2. ASSUME NEW n \in 1..written_seq' PROVE n <= snapshot \/ Recorded(n)'
    <3>1. n \in Seqs /\ n <= Recovered
      BY <1>2, <1>3, <1>4, <2>2 DEF Seqs
    <3>2. n <= snapshot \/ (Recorded(n) /\ snapshot < n)
      BY <1>3, <1>4, <3>1, NumberFacts
    <3>3. QED
      BY <1>7, <3>1, <3>2
  <2>3. ASSUME NEW k \in Seqs, NEW n \in Seqs, snapshot < k, k <= n, Recorded(n)'
        PROVE  Recorded(k)'
    <3>1. snapshot < n
      BY <1>4, <2>3, NumberFacts
    <3>2. Recorded(n)
      BY <1>7, <2>3, <3>1
    <3>3. Recorded(k)
      BY <1>0, <1>6, <2>3, <3>2 DEF GapInv
    <3>4. QED
      BY <1>7, <2>3, <3>3
  <2>4. ASSUME NEW k \in Seqs, NEW s \in present', snapshot < k, k < s PROVE Recorded(k)'
    <3>1. Recorded(k)
      BY <1>0, <1>2, <1>6, <2>4 DEF GapInv
    <3>2. QED
      BY <1>7, <2>4, <3>1
  <2>5. QED
    BY <1>6, <2>1, <2>2, <2>3, <2>4 DEF GapInv
<1>13. \A r \in Starts : Used(r)' => r <= segment_start' /\ (r \in present \/ r = segment_start')
  <2>1. \A r \in Starts : Used(r)' => r \in present \/ r = segment_start'
    BY <1>2, <1>8 DEF Used
  <2>2. segment_start' <= segment_start'
    BY <1>4, NumberFacts
  <2>3. QED
    BY <1>2, <2>1, <2>2
<1>14. ApartInv'
  <2>1. ASSUME NEW s \in Starts, NEW r \in Starts, NEW n \in Seqs, Holds(s, n)', Used(r)', s < r
        PROVE  n < r
    <3>1. Holds(s, n) /\ n <= Recovered
      BY <1>3, <1>9, <2>1
    <3>2. CASE r \in present
      BY <1>0, <2>1, <3>1, <3>2 DEF ApartInv, Used
    <3>3. CASE r = Recovered + 1
      BY <1>3, <1>4, <3>1, <3>3, NumberFacts
    <3>4. QED
      BY <1>2, <1>13, <2>1, <3>2, <3>3
  <2>2. QED
    BY <1>13, <2>1 DEF ApartInv
<1>15. TornInv'
  <2>1. ASSUME NEW s \in torn' PROVE s < segment_start' /\ ~Pending(s)'
    <3>1. s \in Starts /\ s \in present /\ s # segment_start'
      BY <1>2, <1>4, <2>1
    <3>2. s <= segment_start'
      BY <1>2, <3>1
    <3>3. QED
      BY <1>4, <1>8, <3>1, <3>2, NumberFacts
  <2>2. torn' \subseteq present'
    BY <1>2
  <2>3. QED
    BY <2>1, <2>2 DEF TornInv
<1>16. AckInv'
  <2>1. /\ acked_written \in 0..MaxSeq /\ acked_durable \in 0..MaxSeq
        /\ written_seq \in 0..MaxSeq
    BY LiveTypes
  <2>2. acked_durable <= acked_written
    BY <1>0 DEF AckInv
  <2>3. acked_written <= Recovered
    <3>1. SUFFICES ASSUME acked_written # 0 PROVE acked_written <= Recovered
      BY <1>3, <1>4
    <3>2. acked_written \in Seqs /\ acked_written \in 1..acked_written
      BY <1>4, <2>1, <3>1 DEF Seqs
    <3>3. acked_written <= snapshot \/ Recorded(acked_written)
      <4>1. CASE mode = "down"
        BY <1>0, <3>2, <4>1 DEF AckInv
      <4>2. CASE mode = "closed"
        <5>1. acked_written <= written_seq
          BY <1>0, <4>2 DEF AckInv, Up
        <5>2. acked_written \in 1..written_seq
          BY <1>4, <2>1, <3>1, <5>1
        <5>3. QED
          BY <1>0, <1>6, <5>2 DEF GapInv
      <4>3. QED
        BY <1>0, <4>1, <4>2
    <3>4. QED
      BY <1>3, <1>4, <2>1, <3>2, <3>3
  <2>4. acked_durable <= Recovered
    BY <1>3, <1>4, <2>1, <2>2, <2>3
  <2>5. QED
    BY <1>2, <1>4, <2>2, <2>3, <2>4 DEF AckInv
<1>17. QED
  BY <1>10, <1>11, <1>12, <1>14, <1>15, <1>16 DEF LiveInv

-----------------------------------------------------------------------------
(***************************************************************************)
(* The stronger invariant of the store, and what it says.                  *)
(***************************************************************************)

LEMMA InitLive ==
    ASSUME StoreInit
    PROVE  LiveInv
<1>1. /\ Init /\ Seeds = {0} /\ batch.phase = "idle" /\ queue = <<>>
  BY StoreAssumption, BlankFacts DEF StoreInit, Init
<1>2. file = [s \in Starts |-> {}] /\ segment_start = 1 /\ written_seq = 0 /\ durable_seq = 0
      /\ tickets = {}
  <2>1. PICK seed \in Seeds :
          /\ segment_start \in {1, seed + 1}
          /\ written_seq = seed /\ durable_seq = seed
          /\ file = [s \in Starts |-> IF s = 1 THEN 1..seed ELSE {}]
    BY <1>1 DEF Init
  <2>2. seed = 0 /\ 1..0 = {}
    BY <1>1, <2>1
  <2>3. tickets = {}
    BY <1>1 DEF Init
  <2>4. QED
    BY <2>1, <2>2, <2>3
<1>3. /\ mode = "open" /\ checkpoint_seq = -1 /\ snapshot = -1 /\ snapshot_maybe = {-1}
      /\ present = {} /\ torn = {} /\ acked_written = 0 /\ acked_durable = 0 /\ seeded = 0
  BY DEF StoreInit
<1>4. /\ Snapshots = {-1} /\ Up /\ \A n : ~Recorded(n)
      /\ \A s \in Starts, n \in Seqs : ~Holds(s, n)
      /\ \A r \in Starts : Used(r) => r = 1
  <2>1. Snapshots = {-1} /\ Up
    BY <1>3, Zenon DEF Snapshots, Up
  <2>2. \A i \in 1..Len(queue) : FALSE
    BY <1>1
  <2>3. QED
    BY <1>1, <1>2, <1>3, <2>1, <2>2 DEF Recorded, Holds, Used, Pending
<1>5. NeverRefused /\ PowerInv
  <2>1. 1..seeded = {}
    BY <1>3
  <2>2. QED
    BY <1>3, <2>1 DEF NeverRefused, PowerInv
<1>6. GapInv
  <2>1. 1..written_seq = {}
    BY <1>2
  <2>2. QED
    BY <1>3, <1>4, <2>1 DEF GapInv
<1>7. ApartInv /\ TornInv /\ AckInv
  BY <1>2, <1>3, <1>4 DEF ApartInv, TornInv, AckInv
<1>8. QED
  BY <1>5, <1>6, <1>7 DEF LiveInv

\* Every step but those of the directory, the snapshot and the process.
QuietStep ==
    \/ Operations \/ OnWritten \/ Returns \/ SaveReturns
    \/ CkptBegin \/ CkptGivesUp \/ CkptSealed \/ CkptSealFails \/ CkptWriteFails
    \/ CkptFinish \/ CkptFail
    \/ CloseRelease \/ CloseReturns \/ JournalWriter \/ JournalSyncFails \/ JournalFlusher

LEMMA StepCases ==
    ASSUME StoreNext
    PROVE  \/ QuietStep
           \/ JournalWrites \/ JournalWriteFails
           \/ CkptPublish \/ CkptSync
           \/ CkptRetire \/ CkptRetireOnly
           \/ ProcessCrash \/ PowerLoss \/ Load
BY Zenon DEF StoreNext, QuietStep, Checkpoint, JournalThreads, Restart

LEMMA QuietSteps ==
    ASSUME Inv, LiveInv, QuietStep
    PROVE  Quiet
BY CommitQuiet, FlushQuiet, MemoryQuiet, WaitQuiet, BeginQuiet, FinishQuiet, ReleaseQuiet,
   WriterQuiet, FlusherQuiet, Zenon DEF QuietStep, Operations

LEMMA LiveNext ==
    ASSUME PowerAlone, Inv, Inv', LiveInv, [StoreNext]_allVars
    PROVE  LiveInv' /\ Repaired
<1>1. CASE QuietStep
  <2>1. Quiet /\ torn \subseteq Starts
    <3>1. torn \subseteq Starts
      BY LiveTypes
    <3>2. QED
      BY <1>1, <3>1, QuietSteps
  <2>2. LiveInv'
    BY <2>1, QuietLive
  <2>3. Repaired
    BY <2>1 DEF Quiet, Repaired
  <2>4. QED
    BY <2>2, <2>3
<1>2. CASE JournalWrites \/ JournalWriteFails
  BY <1>2, WriteLive
<1>3. CASE CkptPublish \/ CkptSync
  BY <1>3, PublishLive
<1>4. CASE CkptRetire \/ CkptRetireOnly
  BY <1>4, CkptRetireLive
<1>5. CASE ProcessCrash \/ PowerLoss \/ Load
  BY <1>5, CrashLive, PowerLive, LoadLive
<1>6. CASE UNCHANGED allVars
  <2>1. UNCHANGED <<vars, mode, memoryVars, ckpt, saver, snapVars, dirVars, ackVars>>
    BY <1>6 DEF allVars, storeVars
  <2>2. UNCHANGED <<file, present, torn, snapshot, snapshot_maybe, seeded, batch, queue,
                    segment_start, written_seq, checkpoint_seq, disk, durable_seq, tickets,
                    error, acked_written, acked_durable, mode>>
    BY <2>1 DEF vars, clientVars, streamVars, fileVars, memoryVars, snapVars, dirVars, ackVars
  <2>3. durable_seq <= durable_seq'
    <3>1. durable_seq \in 0..MaxSeq /\ MaxSeq \in Nat
      BY LiveTypes
    <3>2. QED
      BY <2>2, <3>1
  <2>4. Quiet
    BY <2>2, <2>3, StillQuiet DEF Acks
  <2>5. QED
    BY <2>2, <2>4, QuietLive DEF Repaired
<1>7. QED
  BY <1>1, <1>2, <1>3, <1>4, <1>5, <1>6, StepCases, Zenon

\* The invariant that the next theorems rest on: whatever the files look like
\* when the process dies, they have no hole beyond any snapshot.
THEOREM StoreLive ==
    ASSUME PowerAlone
    PROVE  StoreSpec => []LiveInv
<1>1. StoreInit => LiveInv
  BY InitLive
<1>2. Inv /\ Inv' /\ LiveInv /\ [StoreNext]_allVars => LiveInv'
  BY LiveNext
<1>3. QED
  BY <1>1, <1>2, StoreInvariant, PTL DEF StoreSpec

\* Whatever failed and whenever the process died, load meets no hole in the
\* sequence (replay_segment_file, "non-contiguous"): the store opens again.
THEOREM StoreNeverRefused ==
    ASSUME PowerAlone
    PROVE  StoreSpec => []NeverRefused
<1>1. LiveInv => NeverRefused
  BY DEF LiveInv
<1>2. QED
  BY <1>1, StoreLive, PTL

\* Behind an incomplete frame nothing is written: the writer stops at a failed
\* write, and load cuts the frame off before it resumes the segment.
THEOREM StoreNoAppendAfterTear ==
    ASSUME PowerAlone
    PROVE  StoreSpec => NoAppendAfterTear
<1>1. /\ Inv /\ Inv' /\ LiveInv /\ [StoreNext]_allVars
      => [\A s \in torn \cap torn' : file'[s] \subseteq file[s]]_allVars
  BY LiveNext DEF Repaired
<1>2. QED
  BY <1>1, StoreInvariant, StoreLive, PTL DEF StoreSpec, NoAppendAfterTear

-----------------------------------------------------------------------------
(***************************************************************************)
(* The store implements the abstract log.                                  *)
(***************************************************************************)

LengthInv ==
    /\ Length \in 0..MaxSeq /\ acked_written \in 0..MaxSeq /\ acked_durable \in 0..MaxSeq
    /\ acked_durable <= acked_written /\ acked_written <= Length
    /\ Up => Length = applied_seq
    /\ mode = "down" => Length = Recovered /\ \A n \in Seqs : n <= Length => n <= snapshot \/ Recorded(n)

LEMMA LengthIs ==
    ASSUME Inv, LiveInv
    PROVE  LengthInv
<1>0. /\ MaxSeq \in Nat /\ acked_written \in 0..MaxSeq /\ acked_durable \in 0..MaxSeq
      /\ written_seq \in 0..MaxSeq /\ written_seq < next_sequence /\ next_sequence \in Nat
      /\ StoreTypeOK /\ snapshot \in Int
  BY LiveTypes
<1>1. GapInv /\ ApartInv /\ AckInv /\ NeverRefused /\ CoordInv
  BY DEF LiveInv, Inv, StoreInv
<1>2. acked_durable <= acked_written
  BY <1>1 DEF AckInv
<1>3. ASSUME Up PROVE Length = applied_seq /\ applied_seq \in 0..MaxSeq /\ acked_written <= applied_seq
  <2>1. Length = applied_seq
    BY <1>3, Zenon DEF Up, Length
  <2>2. applied_seq \in 0..MaxSeq
    BY <1>0 DEF StoreTypeOK
  <2>3. acked_written <= written_seq /\ applied_seq = next_sequence - 1
    BY <1>1, <1>3 DEF AckInv, CoordInv
  <2>4. QED
    BY <1>0, <2>1, <2>2, <2>3
<1>4. ASSUME mode = "down"
      PROVE  /\ Length = Recovered /\ Recovered \in 0..MaxSeq /\ acked_written <= Recovered
             /\ \A n \in Seqs : n <= Length => n <= snapshot \/ Recorded(n)
  <2>1. Contiguous
    BY <1>1, NoHole
  <2>2. Length = Recovered
    BY <1>4, <2>1, Zenon DEF Length
  <2>3. /\ Recovered \in 0..MaxSeq /\ Base \in 0..MaxSeq /\ snapshot <= Base /\ Base <= Recovered
        /\ \A n \in Seqs : Recorded(n) => n <= Recovered
        /\ \A n \in Seqs : n <= Recovered => n <= snapshot \/ Recorded(n)
    BY <2>1, RecoveredFacts
  <2>4. CASE acked_written = 0
    BY <1>0, <2>2, <2>3, <2>4
  <2>5. CASE acked_written # 0
    <3>1. acked_written \in Seqs /\ acked_written \in 1..acked_written
      BY <1>0, <2>5 DEF Seqs
    <3>2. acked_written <= snapshot \/ Recorded(acked_written)
      BY <1>1, <1>4, <3>1 DEF AckInv
    <3>3. acked_written <= Recovered
      BY <1>0, <2>3, <3>1, <3>2
    <3>4. QED
      BY <2>2, <2>3, <3>3
  <2>6. QED
    BY <2>4, <2>5
<1>5. Up \/ mode = "down"
  BY <1>0, <1>1 DEF StoreTypeOK, Modes, NeverRefused, Up
<1>6. QED
  BY <1>0, <1>2, <1>3, <1>4, <1>5 DEF LengthInv, Up

LEMMA LengthNext == (Inv /\ LiveInv => LengthInv)'
<1>1. Inv /\ LiveInv => LengthInv
  BY LengthIs
<1>2. QED
  BY <1>1, PTL

\* What a step other than a commit and its return leaves to the log.
LEMMA StayFacts ==
    ASSUME QuietStep
    PROVE  \/ \E durable \in BOOLEAN : Commit(durable)
           \/ \E t \in tickets : CommitReturns(t) /\ UNCHANGED applied_seq
           \/ UNCHANGED <<applied_seq, acked_written, acked_durable>>
<1>1. ASSUME NEW t \in tickets, CommitReturns(t) PROVE UNCHANGED applied_seq
  BY <1>1 DEF CommitReturns, memoryVars
<1>2. ASSUME NEW t \in tickets, CommitFails(t) PROVE UNCHANGED <<applied_seq, acked_written, acked_durable>>
  BY <1>2 DEF CommitFails, ackVars
<1>3. ASSUME Flush \/ Save \/ Maintain \/ Close PROVE UNCHANGED <<applied_seq, acked_written, acked_durable>>
  BY <1>3 DEF Flush, Save, Maintain, Close, ackVars, memoryVars, storeVars
<1>4. ASSUME OnWritten \/ SaveReturns PROVE UNCHANGED <<applied_seq, acked_written, acked_durable>>
  BY <1>4 DEF OnWritten, SaveReturns, ackVars, memoryVars
<1>5. ASSUME CkptBegin \/ CkptGivesUp \/ CkptSealed \/ CkptSealFails \/ CkptWriteFails
             \/ CkptFinish \/ CkptFail
      PROVE  UNCHANGED <<applied_seq, acked_written, acked_durable>>
  BY <1>5, Zenon DEF CkptBegin, CkptGivesUp, CkptSealed, CkptSealFails, CkptWriteFails, CkptFinish,
     CkptFail, ackVars, memoryVars
<1>6. ASSUME CloseRelease \/ CloseReturns \/ JournalWriter \/ JournalSyncFails \/ JournalFlusher
      PROVE  UNCHANGED <<applied_seq, acked_written, acked_durable>>
  BY <1>6, Zenon DEF CloseRelease, CloseReturns, JournalWriter, JournalSyncFails, JournalFlusher,
     ackVars, memoryVars, storeVars
<1>7. QED
  BY <1>1, <1>2, <1>3, <1>4, <1>5, <1>6, Zenon DEF QuietStep, Operations, Returns

\* The steps of the threads that change the directory or the snapshot.
LEMMA ThreadStays ==
    ASSUME Inv,
           JournalWrites \/ JournalWriteFails \/ CkptPublish \/ CkptSync \/ CkptRetire \/ CkptRetireOnly
    PROVE  Up /\ UNCHANGED <<mode, applied_seq, acked_written, acked_durable>>
<1>1. UNCHANGED <<mode, applied_seq, acked_written, acked_durable>>
  BY Zenon DEF JournalWrites, JournalWriteFails, CkptPublish, CkptSync, CkptRetire, CkptRetireOnly,
     otherStoreVars, memoryVars, ackVars
<1>2. CASE JournalWrites \/ JournalWriteFails
  <2>1. batch.phase = "collect"
    BY <1>2, WriteFacts
  <2>2. /\ (handles = 0 /\ queue = <<>> => batch.phase = "idle") /\ CoordInv /\ StoreTypeOK
    BY JFacts DEF Inv, StoreInv
  <2>3. mode \notin {"down", "refused"}
    BY <2>1, <2>2 DEF CoordInv
  <2>4. QED
    BY <1>1, <2>3, IsUp
<1>3. CASE CkptPublish \/ CkptSync \/ CkptRetire \/ CkptRetireOnly
  <2>1. ~At("idle")
    BY <1>3 DEF CkptPublish, CkptSync, CkptRetire, CkptRetireOnly, At
  <2>2. MarkInv
    BY DEF Inv, StoreInv
  <2>3. QED
    BY <1>1, <2>1, <2>2 DEF MarkInv, Up
<1>4. QED
  BY <1>2, <1>3

LEMMA LengthStays ==
    ASSUME UNCHANGED applied_seq,
           (Up /\ Up') \/ UNCHANGED <<mode, snapshot, present, file>>
    PROVE  UNCHANGED Length
<1>1. CASE Up /\ Up'
  BY <1>1, Zenon DEF Up, Length
<1>2. CASE UNCHANGED <<mode, snapshot, present, file>>
  <2>1. UNCHANGED Replayed /\ UNCHANGED Base
    BY <1>2 DEF Replayed, Base
  <2>2. UNCHANGED Recovered /\ UNCHANGED Contiguous
    BY <1>2, <2>1 DEF Recovered, Contiguous
  <2>3. QED
    BY <1>2, <2>2 DEF Length
<1>3. QED
  BY <1>1, <1>2

\* What is left of the log is at most what was applied.
LEMMA LengthFalls ==
    ASSUME Inv, Up, LengthInv, LengthInv',
           \A n \in Seqs : n <= Length' => n <= snapshot \/ Recorded(n)
    PROVE  Length' <= Length
<1>0. /\ MaxSeq \in Nat /\ snapshot \in Int /\ durable_seq \in 0..MaxSeq /\ written_seq \in 0..MaxSeq
      /\ durable_seq <= written_seq /\ written_seq < next_sequence /\ next_sequence \in Nat
  BY LiveTypes
<1>1. CoordInv /\ CutInv /\ FrontInv
  BY DEF Inv, StoreInv
<1>2. Length = next_sequence - 1 /\ snapshot <= Length
  BY <1>0, <1>1 DEF LengthInv, CoordInv, FrontInv
<1>3. \A n \in Seqs : Recorded(n) => n <= Length
  <2>1. ASSUME NEW n \in Seqs, Recorded(n) PROVE n <= Length
    <3>1. PICK s \in Starts : n \in file[s]
      BY <2>1 DEF Recorded
    <3>2. n < next_sequence
      BY <1>1, <3>1 DEF CutInv, Holds
    <3>3. QED
      BY <1>0, <1>2, <3>2, NumberFacts
  <2>2. QED
    BY <2>1
<1>4. Length' \in 0..MaxSeq /\ Length \in 0..MaxSeq
  BY DEF LengthInv
<1>5. CASE Length' = 0
  BY <1>0, <1>4, <1>5
<1>6. CASE Length' # 0
  <2>1. Length' \in Seqs /\ Length' <= Length'
    BY <1>0, <1>4, <1>6 DEF Seqs
  <2>2. Length' <= snapshot \/ Length' <= Length
    BY <1>3, <2>1
  <2>3. QED
    BY <1>0, <1>2, <1>4, <2>2
<1>7. QED
  BY <1>5, <1>6

\* The process dies, by a crash or by power loss.
LEMMA DeathLength ==
    ASSUME Inv, Inv', LiveInv, LiveInv', ProcessCrash \/ PowerLoss
    PROVE  Length' <= Length
<1>1. LengthInv /\ LengthInv'
  BY LengthIs, LengthNext
<1>2. Up /\ mode' = "down"
  BY IsUp DEF ProcessCrash, PowerLoss, ForgetMemory
<1>3. MarkInv /\ FileInv
  BY DEF Inv, StoreInv
<1>4. \A n : Recorded(n)' => Recorded(n)
  <2>1. CASE ProcessCrash
    BY <2>1 DEF ProcessCrash, fileVars, Recorded
  <2>2. CASE PowerLoss
    <3>1. PICK cut \in Cuts : file' = Survivors(cut)
      BY <2>2 DEF PowerLoss
    <3>2. \A s \in Starts : file'[s] \subseteq file[s]
      BY <1>3, <3>1 DEF FileInv, Survivors
    <3>3. QED
      BY <3>2 DEF Recorded
  <2>3. QED
    BY <2>1, <2>2
<1>5. snapshot' <= snapshot /\ snapshot \in Int /\ snapshot' \in Int
  <2>1. snapshot \in Int /\ MaxSeq \in Nat
    BY LiveTypes
  <2>2. snapshot' \in snapshot_maybe \/ snapshot' = snapshot
    BY DEF ProcessCrash, PowerLoss, snapVars
  <2>3. StoreTypeOK'
    BY LiveTypesNext
  <2>4. QED
    BY <1>3, <2>1, <2>2, <2>3 DEF MarkInv, StoreTypeOK
<1>6. ASSUME NEW n \in Seqs, n <= Length' PROVE n <= snapshot \/ Recorded(n)
  <2>1. n <= snapshot' \/ Recorded(n)
    BY <1>1, <1>2, <1>4, <1>6 DEF LengthInv
  <2>2. QED
    BY <1>5, <2>1, NumberFacts
<1>7. QED
  BY <1>1, <1>2, <1>6, LengthFalls

\* Load opens what is there: all of it if the process died, and at most what
\* was applied if the store was closed.
LEMMA LoadLength ==
    ASSUME PowerAlone, Inv, Inv', LiveInv, LiveInv', Load
    PROVE  /\ UNCHANGED <<acked_written, acked_durable>>
           /\ Length' <= Length /\ (mode = "down" => Length' = Length)
<1>0. /\ GapInv /\ ApartInv /\ TornInv /\ mode \in {"down", "closed"}
      /\ LengthInv /\ LengthInv'
  BY LengthIs, LengthNext DEF LiveInv, Load
<1>1. Contiguous /\ LoadAccepted
  <2>1. Contiguous
    BY <1>0, NoHole
  <2>2. QED
    BY <2>1 DEF Load
<1>2. /\ mode' = "open" /\ applied_seq' = Recovered
      /\ UNCHANGED <<acked_written, acked_durable>>
  BY <1>1 DEF LoadAccepted
<1>3. Length' = Recovered
  BY <1>0, <1>2 DEF LengthInv, Up
<1>4. CASE mode = "down"
  <2>1. Length' = Length /\ Length \in 0..MaxSeq /\ MaxSeq \in Nat
    BY <1>0, <1>3, <1>4, IntFacts DEF LengthInv
  <2>2. QED
    BY <1>2, <2>1
<1>5. CASE mode = "closed"
  <2>1. \A n \in Seqs : n <= Recovered => n <= snapshot \/ Recorded(n)
    BY <1>1, RecoveredFacts
  <2>2. Up
    BY <1>5 DEF Up
  <2>3. Length' <= Length
    BY <1>0, <1>3, <2>1, <2>2, LengthFalls
  <2>4. QED
    BY <1>2, <1>5, <2>3
<1>6. QED
  BY <1>0, <1>4, <1>5

\* Each step of the store is a step of the log, or leaves the log alone.
LEMMA StepLog ==
    ASSUME PowerAlone, Inv, Inv', LiveInv, LiveInv', [StoreNext]_allVars
    PROVE  [Log!LogNext]_(Log!logVars)
<1>0. LengthInv /\ LengthInv' /\ MaxSeq \in Nat
  BY LengthIs, LengthNext, IntFacts
<1>1. /\ Length \in Int /\ Length' \in Int /\ acked_written \in Int /\ acked_durable \in Int
      /\ acked_written' \in Int /\ acked_durable' \in Int
      /\ acked_durable <= acked_written /\ acked_written <= Length
      /\ acked_durable' <= acked_written' /\ acked_written' <= Length'
  BY <1>0 DEF LengthInv
<1>2. ASSUME UNCHANGED <<Length, acked_written, acked_durable>>
      PROVE  [Log!LogNext]_(Log!logVars)
  BY <1>2 DEF Log!logVars
<1>3. ASSUME NEW durable \in BOOLEAN, Commit(durable) PROVE [Log!LogNext]_(Log!logVars)
  <2>1. /\ Up /\ Up' /\ applied_seq' = next_sequence
        /\ UNCHANGED <<acked_written, acked_durable>>
    BY <1>3 DEF Commit, ackVars, Up
  <2>2. CoordInv
    BY DEF Inv, StoreInv
  <2>3. next_sequence \in Int
    <3>1. next_sequence \in Nat
      BY LiveTypes
    <3>2. QED
      BY <3>1
  <2>4. Length' = Length + 1
    BY <1>0, <1>1, <2>1, <2>2, <2>3 DEF LengthInv, CoordInv
  <2>5. Length < MaxSeq
    BY <1>0, <1>1, <2>4 DEF LengthInv
  <2>6. Log!AppendOne
    BY <2>1, <2>4, <2>5 DEF Log!AppendOne
  <2>7. QED
    BY <2>6 DEF Log!LogNext
<1>4. ASSUME NEW t \in tickets, CommitReturns(t), UNCHANGED applied_seq
      PROVE  [Log!LogNext]_(Log!logVars)
  <2>1. /\ mode' = mode /\ mode # "down"
    <3>1. mode = "down" => tickets = {}
      BY DEF LiveInv, AckInv
    <3>2. QED
      BY <1>4, <3>1 DEF CommitReturns
  <2>2. Up /\ Up'
    BY <1>0, <2>1 DEF LiveInv, NeverRefused, Inv, StoreInv, StoreTypeOK, Modes, Up
  <2>3. Length' = Length
    BY <1>0, <1>4, <2>2 DEF LengthInv
  <2>4. acked_written <= acked_written' /\ acked_durable <= acked_durable'
    <3>1. CASE UNCHANGED ackVars
      BY <1>1, <3>1 DEF ackVars
    <3>2. CASE ~UNCHANGED ackVars
      <4>1. /\ acked_written' = MaxOf(acked_written, t.seq)
            /\ acked_durable' = IF t.goal = "durable" THEN MaxOf(acked_durable, t.seq) ELSE acked_durable
        BY <1>4, <3>2 DEF CommitReturns
      <4>2. acked_written' = acked_written \/ (acked_written' = t.seq /\ ~(acked_written >= t.seq))
        BY <4>1, Zenon DEF MaxOf
      <4>3. acked_durable' = acked_durable \/ (acked_durable' = t.seq /\ ~(acked_durable >= t.seq))
        BY <4>1, Zenon DEF MaxOf
      <4>4. QED
        BY <1>1, <4>2, <4>3
    <3>3. QED
      BY <3>1, <3>2
  <2>5. Log!Acknowledge
    BY <1>1, <2>3, <2>4 DEF Log!Acknowledge
  <2>6. QED
    BY <2>5 DEF Log!LogNext
<1>5. CASE QuietStep
  <2>1. Quiet
    BY <1>5, QuietSteps
  <2>2. (Up /\ Up') \/ UNCHANGED <<mode, snapshot, present, file>>
    BY <2>1 DEF Quiet
  <2>3. QED
    BY <1>2, <1>3, <1>4, <1>5, <2>2, StayFacts, LengthStays
<1>6. CASE JournalWrites \/ JournalWriteFails \/ CkptPublish \/ CkptSync \/ CkptRetire \/ CkptRetireOnly
  <2>1. Up /\ UNCHANGED <<mode, applied_seq, acked_written, acked_durable>>
    BY <1>6, ThreadStays
  <2>2. UNCHANGED Length
    BY <2>1, LengthStays DEF Up
  <2>3. QED
    BY <1>2, <2>1, <2>2
<1>7. CASE ProcessCrash
  <2>1. Length' <= Length /\ UNCHANGED <<acked_written, acked_durable>>
    BY <1>7, DeathLength DEF ProcessCrash
  <2>2. Log!LoseProcess
    BY <1>1, <2>1 DEF Log!LoseProcess
  <2>3. QED
    BY <2>2 DEF Log!LogNext
<1>8. CASE PowerLoss
  <2>1. Length' <= Length /\ acked_written' = acked_durable /\ acked_durable' = acked_durable
    BY <1>8, DeathLength DEF PowerLoss
  <2>2. Log!LosePower
    BY <1>1, <2>1 DEF Log!LosePower
  <2>3. QED
    BY <2>2 DEF Log!LogNext
<1>9. CASE Load
  <2>1. Length' <= Length /\ UNCHANGED <<acked_written, acked_durable>>
    BY <1>9, LoadLength
  <2>2. Log!LoseProcess
    BY <1>1, <2>1 DEF Log!LoseProcess
  <2>3. QED
    BY <2>2 DEF Log!LogNext
<1>10. CASE UNCHANGED allVars
  <2>1. UNCHANGED <<mode, snapshot, present, file, applied_seq, acked_written, acked_durable>>
    BY <1>10 DEF allVars, storeVars, vars, fileVars, memoryVars, snapVars, dirVars, ackVars
  <2>2. QED
    BY <1>2, <2>1, LengthStays
<1>11. QED
  BY <1>5, <1>6, <1>7, <1>8, <1>9, <1>10, StepCases, Zenon

\* Through checkpoints, faults, crashes, power losses and loads, the store
\* keeps what a commit promised (_commit_operations_locked, JournalTicket.wait):
\* a commit that returned survives the process, a durable one the power too.
THEOREM StoreImplementsLog ==
    ASSUME PowerAlone
    PROVE  StoreSpec => ImplementsDurableLog
<1>1. StoreInit => Log!LogInit
  BY DEF StoreInit, Log!LogInit, Length
<1>2. Inv /\ Inv' /\ LiveInv /\ LiveInv' /\ [StoreNext]_allVars => [Log!LogNext]_(Log!logVars)
  BY StepLog
<1>3. QED
  BY <1>1, <1>2, StoreInvariant, StoreLive, PTL DEF StoreSpec, ImplementsDurableLog, Log!LogSpec
=============================================================================
