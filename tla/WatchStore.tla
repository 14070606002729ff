----------------------------- MODULE WatchStore -----------------------------
(***************************************************************************)
(* The Watch state store (sunpack/runtime/watch/state.py) on top of the    *)
(* native journal: commits, the asynchronous checkpoint thread (seal,      *)
(* snapshot, publication, retirement of covered segments), close, death of *)
(* the process, power loss, and load with replay.                          *)
(*                                                                         *)
(* One store per path and process.  The store's contents are the           *)
(* transactions 1..applied_seq: a snapshot is the number it was captured   *)
(* at (-1: none).  A record counts one unit of journal bytes.               *)
(***************************************************************************)
EXTENDS WatchJournal

CONSTANTS
    CompactRecords,  \* compact_records (and compact_bytes, in records)
    HardRecords,     \* hard_compact_bytes, in records
    Faults,          \* the faults that may happen in this instance
    Calls,           \* the operations besides commit that are called in it
    MaxLoads,        \* bound: times the store is opened
    PerFileWriteback \* TRUE: the system may write back a later file first

ASSUME StoreAssumption ==
    /\ CompactRecords \in Nat \ {0}
    /\ HardRecords \in Nat /\ HardRecords >= CompactRecords
    /\ Faults \subseteq {"append", "flush", "snapshot", "sync", "unlink", "crash", "power"}
    /\ Calls \subseteq {"flush", "save", "maintain", "close"}
    /\ MaxLoads \in Nat \ {0}
    /\ PerFileWriteback \in BOOLEAN
    /\ Seeds = {0}     \* the directory is empty at first

VARIABLES
    mode,                \* life of the store object and its process
    applied_seq,
    checkpoint_seq,      \* -1: not _snapshot_exists
    seg_records, seg_bytes, journal_records, journal_bytes,
    notices,             \* appends whose on_written callback has not run
    ckpt,                \* the checkpoint thread
    checkpoint_requested, checkpoint_error, persistence_fault,
    retirement_pending,
    saver,               \* sequence a save() call waits for, -1: none
    snapshot,            \* the published snapshot, as the system shows it
    snapshot_maybe,      \* the snapshots a power loss may leave
    present,             \* segment files in the directory
    torn,                \* segment files that end in an incomplete frame
    acked_written, acked_durable,  \* history: what commits have promised
    seeded               \* history: the sequence load seeded the journal with

memoryVars == <<applied_seq, checkpoint_seq, seg_records, seg_bytes, journal_records,
                journal_bytes, notices, checkpoint_requested, checkpoint_error,
                persistence_fault, retirement_pending>>
snapVars   == <<snapshot, snapshot_maybe>>
dirVars    == <<present, torn>>
ackVars    == <<acked_written, acked_durable, seeded>>
storeVars  == <<mode, memoryVars, ckpt, saver, snapVars, dirVars, ackVars>>
allVars    == <<vars, storeVars>>

Modes == {"open", "closing", "releasing", "closed", "down", "refused"}
Phases == {"idle", "retire_only", "begin", "seal", "write", "sync", "retire",
           "finish", "fail"}

StoreTypeOK ==
    /\ mode \in Modes
    /\ applied_seq \in 0..MaxSeq /\ checkpoint_seq \in -1..MaxSeq
    /\ seg_records \in [Starts -> Nat] /\ seg_bytes \in [Starts -> Nat]
    /\ journal_records \in Nat /\ journal_bytes \in Nat
    /\ notices \subseteq Seqs \X Starts
    /\ ckpt \in [phase : Phases, boundary : 0..MaxSeq, pending : BOOLEAN]
    /\ checkpoint_requested \in BOOLEAN /\ checkpoint_error \in BOOLEAN
    /\ persistence_fault \in BOOLEAN /\ retirement_pending \in BOOLEAN
    /\ saver \in -1..MaxSeq
    /\ snapshot \in -1..MaxSeq /\ snapshot_maybe \subseteq -1..MaxSeq
    /\ present \subseteq Starts /\ torn \subseteq Starts
    /\ acked_written \in 0..MaxSeq /\ acked_durable \in 0..MaxSeq
    /\ seeded \in 0..MaxSeq

-----------------------------------------------------------------------------
Idle == [phase |-> "idle", boundary |-> 0, pending |-> FALSE]

\* _update_compaction_due_locked.
Due(records, bytes) == records >= CompactRecords \/ bytes >= CompactRecords

\* _request_checkpoint_locked, with `due' already recomputed.  A running
\* checkpoint only remembers the request; a retire-only run is started when a
\* covered segment could not be deleted earlier.
RequestCheckpoint(force, due) ==
    LET retire_only == ~force /\ ~due IN
    CASE ckpt.phase # "idle" ->
            /\ checkpoint_requested' = (checkpoint_requested \/ ~retire_only)
            /\ UNCHANGED <<ckpt, checkpoint_error>>
      [] ckpt.phase = "idle" /\ retire_only /\ ~retirement_pending ->
            UNCHANGED <<ckpt, checkpoint_requested, checkpoint_error>>
      [] ckpt.phase = "idle" /\ retire_only /\ retirement_pending ->
            /\ ckpt' = [Idle EXCEPT !.phase = "retire_only"]
            /\ checkpoint_requested' = FALSE
            /\ UNCHANGED checkpoint_error
      [] ckpt.phase = "idle" /\ ~retire_only ->
            /\ ckpt' = [Idle EXCEPT !.phase = "begin"]
            /\ checkpoint_requested' = FALSE
            /\ checkpoint_error' = FALSE

\* The request made while the store is open only; _closing refuses it.
RequestIfDue(records, bytes) ==
    IF mode = "open" /\ Due(records, bytes)
    THEN RequestCheckpoint(FALSE, TRUE)
    ELSE UNCHANGED <<ckpt, checkpoint_requested, checkpoint_error>>

-----------------------------------------------------------------------------
(***************************************************************************)
(* Operations of the store.                                                *)
(***************************************************************************)

\* _commit_operations_locked up to the release of the state lock.
Commit(durable) ==
    /\ mode = "open"
    /\ ~persistence_fault
    /\ SubmitAppend(durable)
    /\ notices' = notices \cup {<<next_sequence, segment_start>>}
    /\ applied_seq' = next_sequence
    /\ seg_records' = [seg_records EXCEPT ![segment_start] = @ + 1]
    /\ journal_records' = journal_records + 1
    /\ RequestIfDue(journal_records + 1, journal_bytes)
    /\ UNCHANGED <<mode, checkpoint_seq, seg_bytes, journal_bytes, persistence_fault,
                   retirement_pending, saver, snapVars, dirVars, ackVars>>

\* JournalTicket.wait, first half: the bytes are written and the callback
\* _on_journal_written accounts for them.
OnWritten ==
    \E notice \in notices :
    /\ error = "none"
    /\ written_seq >= notice[1]
    /\ notices' = notices \ {notice}
    /\ seg_bytes' = [seg_bytes EXCEPT ![notice[2]] = @ + 1]
    /\ journal_bytes' = journal_bytes + 1
    /\ RequestIfDue(journal_records, journal_bytes + 1)
    /\ persistence_fault' = (persistence_fault \/
                             (checkpoint_error' /\ journal_bytes + 1 >= HardRecords))
    /\ UNCHANGED <<vars, mode, applied_seq, checkpoint_seq, seg_records, journal_records,
                   retirement_pending, saver, snapVars, dirVars, ackVars>>

\* A flush ticket next to an ordinary commit's has no callback of its own.
Noticed(t) ==
    \/ \A notice \in notices : notice[1] # t.seq
    \/ t.goal = "durable" /\ [seq |-> t.seq, goal |-> "written"] \in tickets

\* Second half: the wait for the ticket's own goal.  The commit returns to its
\* caller unless the store has a persistence fault by then.
CommitReturns(t) ==
    /\ t.goal # "sealed"
    /\ mode # "releasing"
    /\ Noticed(t)
    /\ TicketOk(t)
    /\ IF persistence_fault
       THEN UNCHANGED ackVars
       ELSE /\ acked_written' = MaxOf(acked_written, t.seq)
            /\ acked_durable' = IF t.goal = "durable" THEN MaxOf(acked_durable, t.seq)
                                                      ELSE acked_durable
            /\ UNCHANGED seeded
    /\ UNCHANGED <<mode, memoryVars, ckpt, saver, snapVars, dirVars>>

\* A failed wait reports the error (_on_journal_error) and raises.
CommitFails(t) ==
    /\ t.goal # "sealed"
    /\ mode # "releasing"
    /\ TicketErr(t)
    /\ notices' = {notice \in notices : notice[1] # t.seq}
    /\ persistence_fault' = TRUE
    /\ UNCHANGED <<mode, applied_seq, checkpoint_seq, seg_records, seg_bytes,
                   journal_records, journal_bytes, checkpoint_requested,
                   checkpoint_error, retirement_pending, ckpt, saver, snapVars,
                   dirVars, ackVars>>

\* flush(): its ticket has no written callback.
Flush ==
    /\ "flush" \in Calls
    /\ mode = "open"
    /\ ~persistence_fault
    /\ [seq |-> applied_seq, goal |-> "durable"] \notin tickets
    /\ RequestFlush
    /\ UNCHANGED storeVars

\* save(): force a checkpoint, then wait for it.
Save ==
    /\ "save" \in Calls
    /\ mode = "open"
    /\ ~persistence_fault
    /\ saver = -1
    /\ saver' = applied_seq
    /\ RequestCheckpoint(TRUE, Due(journal_records, journal_bytes))
    /\ UNCHANGED <<vars, mode, applied_seq, checkpoint_seq, seg_records, seg_bytes,
                   journal_records, journal_bytes, notices, persistence_fault,
                   retirement_pending, snapVars, dirVars, ackVars>>

SaveReturns ==
    /\ saver # -1
    /\ checkpoint_seq >= saver \/ checkpoint_error \/ persistence_fault
    /\ saver' = -1
    /\ UNCHANGED <<vars, mode, memoryVars, ckpt, snapVars, dirVars, ackVars>>

\* compact_if_needed() from the idle scheduler.
Maintain ==
    /\ "maintain" \in Calls
    /\ mode = "open"
    /\ Due(journal_records, journal_bytes) \/ retirement_pending
    /\ RequestCheckpoint(FALSE, Due(journal_records, journal_bytes))
    /\ UNCHANGED <<vars, mode, applied_seq, checkpoint_seq, seg_records, seg_bytes,
                   journal_records, journal_bytes, notices, persistence_fault,
                   retirement_pending, saver, snapVars, dirVars, ackVars>>

-----------------------------------------------------------------------------
(***************************************************************************)
(* The checkpoint thread.                                                  *)
(***************************************************************************)

At(phase) == ckpt.phase = phase
GoTo(phase) == ckpt' = [ckpt EXCEPT !.phase = phase]

\* _protected_journal_starts_locked.
Protected == {s \in Starts : seg_records[s] > 0} \cup {segment_start}

\* _retire_segments_through: delete the files in `covered'.  A deletion, of a
\* segment or of a stale temporary snapshot, may fail and be left for later.
Deletions(covered) ==
    IF "unlink" \in Faults
    THEN {d \in [gone : SUBSET covered, pending : BOOLEAN] : d.gone # covered => d.pending}
    ELSE {[gone |-> covered, pending |-> FALSE]}

Without(files, gone) == [s \in Starts |-> IF s \in gone THEN {} ELSE files[s]]

Retire(covered, pending) ==
    \E d \in Deletions(covered) :
        /\ pending = d.pending
        /\ present' = present \ d.gone
        /\ torn' = torn \ d.gone
        /\ file' = Without(file, d.gone)
        /\ disk' = Without(disk, d.gone)

\* The retire-only branch of _checkpoint_loop.
CkptRetireOnly ==
    /\ At("retire_only")
    /\ \E pending \in BOOLEAN :
          /\ Retire({s \in present \ Protected : s <= checkpoint_seq}, pending)
          /\ retirement_pending' = pending
    /\ ckpt' = IF mode # "open" \/ ~(checkpoint_requested \/ Due(journal_records, journal_bytes))
               THEN Idle ELSE [Idle EXCEPT !.phase = "begin"]
    /\ UNCHANGED <<clientVars, tickets, queue, batch, streamVars, flush, mode, applied_seq,
                   checkpoint_seq, seg_records, seg_bytes, journal_records,
                   journal_bytes, notices, checkpoint_requested, checkpoint_error,
                   persistence_fault, saver, snapVars, ackVars>>

\* Mutant: the boundary is the next sequence number.
CkptBegin_NextSequence ==
    /\ At("begin")
    /\ ~persistence_fault
    /\ IF segment_start <= applied_seq
       THEN SubmitSeal /\ ckpt' = [Idle EXCEPT !.phase = "seal", !.boundary = next_sequence]
       ELSE UNCHANGED vars /\ ckpt' = [Idle EXCEPT !.phase = "write", !.boundary = next_sequence]
    /\ checkpoint_requested' = FALSE
    /\ UNCHANGED <<mode, applied_seq, checkpoint_seq, seg_records, seg_bytes,
                   journal_records, journal_bytes, notices, checkpoint_error,
                   persistence_fault, retirement_pending, saver, snapVars, dirVars, ackVars>>

\* Mutant: the snapshot is written without waiting for the seal.
CkptBegin_NoSealWait ==
    /\ At("begin")
    /\ ~persistence_fault
    /\ IF segment_start <= applied_seq THEN SubmitSeal ELSE UNCHANGED vars
    /\ ckpt' = [Idle EXCEPT !.phase = "write", !.boundary = applied_seq]
    /\ checkpoint_requested' = FALSE
    /\ UNCHANGED <<mode, applied_seq, checkpoint_seq, seg_records, seg_bytes,
                   journal_records, journal_bytes, notices, checkpoint_error,
                   persistence_fault, retirement_pending, saver, snapVars, dirVars, ackVars>>

\* Under the lock: capture the view at applied_seq and rotate the journal, so
\* that the captured prefix is exactly the sealed segments.
CkptBegin ==
    /\ At("begin")
    /\ ~persistence_fault
    /\ IF segment_start <= applied_seq
       THEN SubmitSeal /\ ckpt' = [Idle EXCEPT !.phase = "seal", !.boundary = applied_seq]
       ELSE UNCHANGED vars /\ ckpt' = [Idle EXCEPT !.phase = "write", !.boundary = applied_seq]
    /\ checkpoint_requested' = FALSE
    /\ UNCHANGED <<mode, applied_seq, checkpoint_seq, seg_records, seg_bytes,
                   journal_records, journal_bytes, notices, checkpoint_error,
                   persistence_fault, retirement_pending, saver, snapVars, dirVars, ackVars>>

CkptGivesUp ==
    /\ At("begin")
    /\ persistence_fault
    /\ ckpt' = Idle
    /\ UNCHANGED <<vars, mode, memoryVars, saver, snapVars, dirVars, ackVars>>

SealTicket == [seq |-> ckpt.boundary, goal |-> "sealed"]

\* Mutant: the segments are deleted before the snapshot is published.
CkptSealed_RetireFirst ==
    /\ At("seal")
    /\ TicketOk(SealTicket)
    /\ GoTo("retire")
    /\ UNCHANGED <<mode, memoryVars, saver, snapVars, dirVars, ackVars>>

CkptSealed ==
    /\ At("seal")
    /\ TicketOk(SealTicket)
    /\ GoTo("write")
    /\ UNCHANGED <<mode, memoryVars, saver, snapVars, dirVars, ackVars>>

CkptSealFails ==
    /\ At("seal")
    /\ TicketErr(SealTicket)
    /\ persistence_fault' = TRUE
    /\ GoTo("fail")
    /\ UNCHANGED <<mode, applied_seq, checkpoint_seq, seg_records, seg_bytes,
                   journal_records, journal_bytes, notices, checkpoint_requested,
                   checkpoint_error, retirement_pending, saver, snapVars, dirVars, ackVars>>

\* Mutant: the publication is not synced before the segments are deleted.
CkptPublish_NoSync ==
    /\ At("write")
    /\ snapshot' = ckpt.boundary
    /\ snapshot_maybe' = snapshot_maybe \cup {ckpt.boundary}
    /\ GoTo("retire")
    /\ UNCHANGED <<vars, mode, memoryVars, saver, dirVars, ackVars>>

\* A synced temporary file replaces the snapshot.
CkptPublish ==
    /\ At("write")
    /\ snapshot' = ckpt.boundary
    /\ snapshot_maybe' = snapshot_maybe \cup {ckpt.boundary}
    /\ GoTo("sync")
    /\ UNCHANGED <<vars, mode, memoryVars, saver, dirVars, ackVars>>

CkptSync ==
    /\ At("sync")
    /\ snapshot_maybe' = {snapshot}
    /\ GoTo("retire")
    /\ UNCHANGED <<vars, mode, memoryVars, saver, snapshot, dirVars, ackVars>>

CkptWriteFails ==
    /\ ckpt.phase \in (IF "snapshot" \in Faults THEN {"write"} ELSE {})
                       \cup (IF "sync" \in Faults THEN {"sync"} ELSE {})
    /\ GoTo("fail")
    /\ UNCHANGED <<vars, mode, memoryVars, saver, snapVars, dirVars, ackVars>>

\* Mutant: the segment that starts after the boundary is deleted too.
CkptRetire_OffByOne ==
    /\ At("retire")
    /\ \E pending \in BOOLEAN :
          /\ Retire({s \in present : s <= ckpt.boundary + 1}, pending)
          /\ ckpt' = [ckpt EXCEPT !.phase = "finish", !.pending = pending]
    /\ UNCHANGED <<clientVars, tickets, queue, batch, streamVars, flush, mode,
                   memoryVars, saver, snapVars, ackVars>>

CkptRetire ==
    /\ At("retire")
    /\ \E pending \in BOOLEAN :
          /\ Retire({s \in present : s <= ckpt.boundary}, pending)
          /\ ckpt' = [ckpt EXCEPT !.phase = "finish", !.pending = pending]
    /\ UNCHANGED <<clientVars, tickets, queue, batch, streamVars, flush, mode,
                   memoryVars, saver, snapVars, ackVars>>

\* The sum of count[s], as the number of pairs of a segment and a unit in it.
Total(count, starts) == Cardinality(UNION {{s} \X (1..count[s]) : s \in starts})

\* Success, under the lock: forget the covered segments' counts, and go round
\* again if more was requested meanwhile.
CkptFinish ==
    LET covered == {s \in Starts : s <= ckpt.boundary /\ seg_records[s] > 0}
        records == MaxOf(0, journal_records - Total(seg_records, covered))
        bytes   == MaxOf(0, journal_bytes - Total(seg_bytes, covered))
    IN
    /\ At("finish")
    /\ retirement_pending' = ckpt.pending
    /\ checkpoint_seq' = MaxOf(checkpoint_seq, ckpt.boundary)
    /\ seg_records' = [s \in Starts |-> IF s \in covered THEN 0 ELSE seg_records[s]]
    /\ seg_bytes' = [s \in Starts |-> IF s \in covered THEN 0 ELSE seg_bytes[s]]
    /\ journal_records' = records
    /\ journal_bytes' = bytes
    /\ checkpoint_error' = FALSE
    /\ ckpt' = IF /\ mode = "open"
                  /\ applied_seq > ckpt.boundary
                  /\ checkpoint_requested \/ Due(records, bytes)
               THEN [Idle EXCEPT !.phase = "begin"] ELSE Idle
    /\ UNCHANGED <<vars, mode, applied_seq, notices, checkpoint_requested,
                   persistence_fault, saver, snapVars, dirVars, ackVars>>

CkptFail ==
    /\ At("fail")
    /\ checkpoint_error' = TRUE
    /\ persistence_fault' = (persistence_fault \/ journal_bytes >= HardRecords)
    /\ ckpt' = Idle
    /\ UNCHANGED <<vars, mode, applied_seq, checkpoint_seq, seg_records, seg_bytes,
                   journal_records, journal_bytes, notices, checkpoint_requested,
                   retirement_pending, saver, snapVars, dirVars, ackVars>>

-----------------------------------------------------------------------------
(***************************************************************************)
(* Close.                                                                  *)
(***************************************************************************)

Close ==
    /\ "close" \in Calls
    /\ mode = "open"
    /\ mode' = "closing"
    /\ UNCHANGED <<vars, memoryVars, ckpt, saver, snapVars, dirVars, ackVars>>

\* The checkpoint and every journal waiter have finished: give up the stream.
CloseRelease ==
    /\ mode = "closing"
    /\ At("idle")
    /\ tickets = {}
    /\ SubmitRelease
    /\ mode' = "releasing"
    /\ UNCHANGED <<memoryVars, ckpt, saver, snapVars, dirVars, ackVars>>

CloseReturns ==
    /\ mode = "releasing"
    /\ \E t \in tickets : TicketOk(t) \/ TicketErr(t)
    /\ mode' = "closed"
    /\ UNCHANGED <<memoryVars, ckpt, saver, snapVars, dirVars, ackVars>>

-----------------------------------------------------------------------------
(***************************************************************************)
(* Death of the process, power loss, and load.                             *)
(***************************************************************************)

\* Everything in memory is gone: the journal's state and the store's.
ForgetMemory ==
    /\ mode' = "down"
    /\ tickets' = {} /\ queue' = <<>> /\ batch' = NoBatch /\ flush' = NoFlush
    /\ registered' = FALSE /\ owners' = 0 /\ closing' = FALSE
    /\ written_seq' = 0 /\ durable_seq' = 0 /\ requested_seq' = 0 /\ sealed_seq' = 0
    /\ segments' = [s \in Starts |-> NoSegment] /\ error' = "none"
    /\ next_sequence' = 1 /\ segment_start' = 1 /\ handles' = 0
    /\ applied_seq' = 0 /\ checkpoint_seq' = -1
    /\ seg_records' = [s \in Starts |-> 0] /\ seg_bytes' = [s \in Starts |-> 0]
    /\ journal_records' = 0 /\ journal_bytes' = 0 /\ notices' = {}
    /\ checkpoint_requested' = FALSE /\ checkpoint_error' = FALSE
    /\ persistence_fault' = FALSE /\ retirement_pending' = FALSE
    /\ ckpt' = Idle /\ saver' = -1 /\ seeded' = 0
    /\ UNCHANGED incarnation

ProcessCrash ==
    /\ "crash" \in Faults
    /\ mode \notin {"down", "refused"}
    /\ incarnation < MaxLoads
    /\ ForgetMemory
    /\ UNCHANGED <<fileVars, snapVars, dirVars, acked_written, acked_durable>>

\* What power loss leaves of the segment files: at least what was synced, at
\* most what was written, and a prefix of it.  With ordered writeback the
\* files together keep a prefix of all writes; otherwise each file on its own.
Survivors(cut) ==
    [s \in Starts |-> disk[s] \cup {n \in file[s] : n <= cut[s]}]

Cuts ==
    IF PerFileWriteback
    THEN [Starts -> 0..MaxSeq]
    ELSE {[s \in Starts |-> m] : m \in {k \in 0..MaxSeq : \A s \in Starts : \A n \in disk[s] : n <= k}}

PowerLoss ==
    /\ "power" \in Faults
    /\ mode \notin {"down", "refused"}
    /\ incarnation < MaxLoads
    /\ ForgetMemory
    /\ \E cut \in Cuts :
          LET left  == Survivors(cut)
              bare  == {s \in present : left[s] = {} /\ (PerFileWriteback \/ s <= cut[s] + 1)}
              short == {s \in present : left[s] # file[s]}
          IN /\ file' = left
             /\ disk' = left
             /\ \E headers \in SUBSET bare :
                   /\ present' = {s \in present : left[s] # {}} \cup headers
                   /\ torn' \in {(torn \cup t) \cap present' : t \in SUBSET short}
    /\ snapshot' \in snapshot_maybe
    /\ snapshot_maybe' = {snapshot'}
    /\ acked_written' = acked_durable
    /\ UNCHANGED acked_durable

\* Replay starts after the snapshot, or at 1 without one.
Base == MaxOf(snapshot, 0)

\* The records replay sees after the snapshot.
Replayed == {n \in Seqs : n > Base /\ \E s \in present : n \in file[s]}

\* replay_segment_file over the segments in start order never meets a
\* sequence number other than the expected one.
Contiguous ==
    /\ Replayed = (Base + 1)..(Base + Cardinality(Replayed))
    /\ \A s, r \in present : s < r =>
          \A n \in file[s] \cap Replayed, k \in file[r] \cap Replayed : n < k

Recovered == Base + Cardinality(Replayed)

\* The last segment is resumed if it holds live records or would be the next
\* one to create; a segment covered by the snapshot is not.
Resumable(s) ==
    /\ s \in present
    /\ \A other \in present : other <= s
    /\ file[s] \cap Replayed # {} \/ s = Recovered + 1

\* Mutant: an incomplete last frame is left in place.
Truncated_Never(resume) == {}

\* truncate_journal_tail: the resumed segment loses its incomplete frame.
Truncated(resume) == torn \cap resume

\* __init__: open the stream, load, seed.  The resumed segment's torn tail is
\* cut off and synced, covered segments are retired.
LoadAccepted ==
    LET resume == {s \in Starts : Resumable(s)}
        start  == IF resume = {} THEN Recovered + 1 ELSE CHOOSE s \in resume : TRUE
        live   == [s \in Starts |-> IF s \in present
                                    THEN Cardinality(file[s] \cap Replayed) ELSE 0]
        covered == {s \in present : s <= Base /\ live[s] = 0 /\ s # start}
    IN
    /\ mode' = "open"
    /\ incarnation' = incarnation + 1
    /\ registered' = TRUE /\ owners' = 1 /\ closing' = FALSE /\ handles' = 1
    /\ applied_seq' = Recovered /\ checkpoint_seq' = snapshot
    /\ next_sequence' = Recovered + 1 /\ segment_start' = start
    /\ written_seq' = Recovered /\ durable_seq' = Recovered /\ requested_seq' = Recovered
    /\ sealed_seq' = 0 /\ segments' = [s \in Starts |-> NoSegment] /\ error' = "none"
    /\ seg_records' = live /\ seg_bytes' = live
    /\ journal_records' = Total(live, Starts) /\ journal_bytes' = Total(live, Starts)
    /\ notices' = {} /\ checkpoint_requested' = FALSE /\ checkpoint_error' = FALSE
    /\ persistence_fault' = FALSE /\ ckpt' = Idle /\ saver' = -1
    /\ seeded' = Recovered
    /\ \E d \in Deletions(covered) :
          /\ retirement_pending' = d.pending
          /\ present' = present \ d.gone
          /\ torn' = (torn \ d.gone) \ Truncated(resume)
          /\ file' = Without(file, d.gone)
          /\ disk' = Without([s \in Starts |-> IF s \in Truncated(resume) THEN file[s]
                                                                         ELSE disk[s]], d.gone)
    /\ UNCHANGED <<tickets, queue, batch, flush, snapVars, acked_written, acked_durable>>

\* A hole in the sequence: WatchStateJournalError, the store does not open.
LoadRefused ==
    /\ mode' = "refused"
    /\ UNCHANGED <<vars, memoryVars, ckpt, saver, snapVars, dirVars, ackVars>>

Load ==
    /\ mode \in {"down", "closed"}
    /\ incarnation < MaxLoads
    /\ IF Contiguous THEN LoadAccepted ELSE LoadRefused

-----------------------------------------------------------------------------
(***************************************************************************)
(* The composition: the journal's threads work on the store's directory.   *)
(***************************************************************************)

otherStoreVars == <<mode, memoryVars, ckpt, saver, snapVars, ackVars>>

\* open_segment creates the file; a failed write may leave part of a frame.
JournalWrites ==
    /\ WriterWrite
    /\ present' = present \cup {batch.start}
    /\ UNCHANGED <<torn, otherStoreVars>>

JournalWriteFails ==
    /\ "append" \in Faults
    /\ WriterWriteFails
    /\ present' \in {present, present \cup {batch.start}}
    /\ segments'[batch.start].state = "open" => batch.start \in present'
    /\ torn' \in {torn, torn \cup ({batch.start} \cap present')}
    /\ ~Monotonic => UNCHANGED dirVars
    /\ UNCHANGED otherStoreVars

JournalSyncFails ==
    /\ "flush" \in Faults
    /\ FlushSyncFails
    /\ UNCHANGED storeVars

JournalWriter ==
    /\ \/ WriterCollect \/ WriterExtend \/ WriterSkip \/ WriterPublish
       \/ WriterFail \/ WriterSeal \/ WriterRelease
    /\ UNCHANGED storeVars

JournalFlusher ==
    /\ \/ NextFlushWork \/ FlushDone \/ FlushFailed
       \/ \E s \in Starts : FlushSync(s)
    /\ UNCHANGED storeVars

StoreInit ==
    /\ Init
    /\ mode = "open"
    /\ applied_seq = 0 /\ checkpoint_seq = -1
    /\ seg_records = [s \in Starts |-> 0] /\ seg_bytes = [s \in Starts |-> 0]
    /\ journal_records = 0 /\ journal_bytes = 0 /\ notices = {}
    /\ ckpt = Idle
    /\ checkpoint_requested = FALSE /\ checkpoint_error = FALSE
    /\ persistence_fault = FALSE /\ retirement_pending = FALSE
    /\ saver = -1
    /\ snapshot = -1 /\ snapshot_maybe = {-1}
    /\ present = {} /\ torn = {}
    /\ acked_written = 0 /\ acked_durable = 0 /\ seeded = 0

Returns == \E t \in tickets : CommitReturns(t) \/ CommitFails(t)

Operations ==
    \/ \E durable \in BOOLEAN : Commit(durable)
    \/ Flush \/ Save \/ Maintain \/ Close

Checkpoint ==
    \/ CkptRetireOnly \/ CkptBegin \/ CkptGivesUp \/ CkptSealed \/ CkptSealFails
    \/ CkptPublish \/ CkptSync \/ CkptWriteFails \/ CkptRetire
    \/ CkptFinish \/ CkptFail

JournalThreads ==
    \/ JournalWrites \/ JournalWriteFails \/ JournalWriter
    \/ JournalSyncFails \/ JournalFlusher

Restart == ProcessCrash \/ PowerLoss \/ Load

StoreNext ==
    \/ Operations \/ OnWritten \/ Returns \/ SaveReturns \/ Checkpoint
    \/ CloseRelease \/ CloseReturns \/ JournalThreads \/ Restart

StoreSpec == StoreInit /\ [][StoreNext]_allVars

\* Every thread that can proceed does: the writer, the flusher, the checkpoint
\* thread, the waiters and the caller of close.
FairStoreSpec ==
    /\ StoreSpec
    /\ WF_allVars(JournalWrites \/ JournalWriteFails \/ JournalWriter)
    /\ WF_allVars(JournalSyncFails \/ JournalFlusher)
    /\ WF_allVars(Checkpoint)
    /\ WF_allVars(OnWritten)
    /\ WF_allVars(Returns)
    /\ WF_allVars(SaveReturns)
    /\ WF_allVars(CloseRelease \/ CloseReturns)

-----------------------------------------------------------------------------
(***************************************************************************)
(* Properties.                                                             *)
(***************************************************************************)

\* Whatever the store went through, it opens again: no crash leaves a hole
\* that replay refuses (replay_segment_file, "non-contiguous").
NeverRefused == mode # "refused"

\* At every instant, between any two steps of a checkpoint, everything the
\* journal reports as written is in the snapshot or in a segment that is
\* still there: no segment is deleted before a snapshot covers it.
WrittenIsRecoverable ==
    \A n \in 1..written_seq : n <= snapshot \/ \E s \in present : n \in file[s]

\* A published snapshot never runs ahead of the durable journal: the seal is
\* awaited between capture and publication (_checkpoint_under_gate).
SnapshotIsDurable == mode = "open" => snapshot <= durable_seq

\* A record the journal reports as durable stays where no power loss can take
\* it, through checkpoint and retirement: synced in a segment file, or within
\* every snapshot that a power loss may leave.  Load vouches for the rest: it
\* seeds as durable what it has read.
DurableIsSafe ==
    \A n \in (seeded + 1)..durable_seq :
        OnMedium(n) \/ \A m \in snapshot_maybe : n <= m

\* No record is appended behind an incomplete frame, where the next replay
\* would take it for part of that frame: load repairs the segment it resumes.
NoAppendAfterTear ==
    [][\A s \in torn \cap torn' : file'[s] \subseteq file[s]]_allVars

\* The transactions the store holds, or would hold if it were opened now.
Length == CASE mode \in {"open", "closing", "releasing", "closed"} -> applied_seq
            [] mode = "down" /\ Contiguous -> Recovered
            [] OTHER -> 0

Log == INSTANCE DurableLog WITH
    Limit   <- MaxSeq,
    length  <- Length,
    safe    <- acked_written,
    durable <- acked_durable

\* The store implements the abstract durable log: what a commit acknowledged
\* is never lost, through checkpoints, faults, crashes and reopening.
ImplementsDurableLog == Log!LogSpec

\* A store being closed ends closed, whatever it was doing.
CloseTerminates == mode \in {"closing", "releasing"} ~> mode \in {"closed", "down"}

\* "Force one checkpoint and wait until it covers the current sequence":
\* a save() call returns.
SaveTerminates == saver # -1 ~> saver = -1
=============================================================================
