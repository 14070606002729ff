---------------------------- MODULE OutputWriter ----------------------------
(***************************************************************************)
(* The asynchronous output writer of one volume (class AsyncFileWriter):   *)
(* decoder threads copy file data into pooled buffers; writer threads take *)
(* packets from an I/O completion port, open files lazily, submit          *)
(* overlapped writes, and close a file after its last buffer.  A write     *)
(* that runs out of space is parked in the retry queue under the volume's  *)
(* gate and comes back, at its confirmed prefix, when the gate posts a     *)
(* retry packet.                                                           *)
(*                                                                         *)
(* A step is one critical section of mutex_, one of the gate's, or one     *)
(* file system call.  The notification that follows a change of the gate   *)
(* is part of that step: a later one only posts the same packet later.     *)
(* Data is counted in units; BufferSize of them fill a buffer.  The        *)
(* monitor is reduced to its effect on the gate (SpaceGate has the rest),  *)
(* and nobody reads the episode here.                                      *)
(***************************************************************************)
EXTENDS VolumeGate, Integers, Sequences, FiniteSetsExt, SequencesExt

CONSTANTS
    Jobs, Files,
    JobOf,          \* the job each file belongs to
    Size,           \* units of data the decoder has for each file
    Buffers,        \* the pool, buffer_count_ of them
    Workers,        \* writer threads
    None,
    BufferSize,     \* kBufferSize
    JobBudget,      \* max_inflight_bytes of a job
    FileBudget,     \* kDefaultFileInFlightBytes
    QueueLimit,     \* queue_limit_
    MaxEvents       \* bound: volume changes, stray query failures, cancellations

ASSUME WriterAssumption ==
    /\ IsFiniteSet(Files) /\ IsFiniteSet(Buffers)
    /\ JobOf \in [Files -> Jobs]
    /\ Size \in [Files -> Nat]
    /\ BufferSize \in Nat \ {0}
    /\ JobBudget \in Nat \ {0}
    /\ FileBudget \in Nat \ {0}
    /\ QueueLimit \in Nat \ {0}
    /\ MaxEvents \in Nat
    /\ NoToken \notin (Buffers \cup Files)
    /\ Buffers \cap Files = {}
    /\ None \notin (Buffers \cup Files)

VARIABLES
    gate, vol, events,
    token,      \* jobs whose external cancel_token is set
    waking,     \* jobs whose canceller has not yet called wake_waiters
    err,        \* jobs with first_error or cancelled: terminal_requested
    pending,    \* pending_jobs of each job
    inflight,   \* inflight_bytes of each job
    prod,       \* each job's decoder thread
    file,       \* each FileState
    buf,        \* each Buffer
    lease,      \* buffers and closing files that hold a ProbeLease
    workQ,      \* work_queue_, with one packet in the port per item
    retryQ,     \* retry_queue_
    posted,     \* posted_ of CompletionWake
    packet,     \* its packet is in the port
    wk,         \* each writer thread
    disk,       \* how often the system has confirmed each unit of a file
    meter       \* accepted, written, discarded and pending bytes

envVars == <<vol, events>>
jobVars == <<token, waking, err, pending, inflight, prod>>
ioVars  == <<buf, file, workQ>>
wakeVars == <<posted, packet>>
vars == <<gate, envVars, jobVars, ioVars, lease, retryQ, wakeVars, wk, disk, meter>>

Units(f) == 0 .. (Size[f] - 1)

NewFile == [stage |-> None, next |-> 0, inflight |-> 0, outstanding |-> 0,
            active |-> 0, accepted |-> 0, handle |-> FALSE, tried |-> FALSE,
            created |-> FALSE, failed |-> FALSE, closing |-> FALSE,
            queued |-> FALSE, closed |-> FALSE]

FreeBuffer == [at |-> "free", file |-> None, size |-> 0, offset |-> 0, done |-> 0]

(* A decoder thread: the file it is on, the data left of it, the chunk it  *)
(* has reserved, and whether it took the staging buffer for that chunk.    *)
Decoder(pc, f, left, chunk, fresh) ==
    [pc |-> pc, file |-> f, left |-> left, chunk |-> chunk, fresh |-> fresh]

(* A writer thread: what it works on, the AttemptResult so far, and        *)
(* whether dispatch_space_retries called it, which then looks again.       *)
Thread(pc, item, result, again) ==
    [pc |-> pc, item |-> item, result |-> result, again |-> again]

Resting(again) == Thread(IF again THEN "scan" ELSE "idle", None, "ok", FALSE)

Init ==
    /\ gate = NewGate
    /\ vol = "full" /\ events = 0
    /\ token = {} /\ waking = {} /\ err = {}
    /\ pending = [j \in Jobs |-> 0] /\ inflight = [j \in Jobs |-> 0]
    /\ prod = [j \in Jobs |-> Decoder("next", None, 0, 0, FALSE)]
    /\ file = [f \in Files |-> NewFile]
    /\ buf = [b \in Buffers |-> FreeBuffer]
    /\ lease = {}
    /\ workQ = <<>> /\ retryQ = <<>>
    /\ posted = FALSE /\ packet = FALSE
    /\ wk = [w \in Workers |-> Resting(FALSE)]
    /\ disk = [f \in Files |-> [u \in Units(f) |-> 0]]
    /\ meter = [accepted |-> 0, written |-> 0, discarded |-> 0, pending |-> 0]

-----------------------------------------------------------------------------
(* Shared parts of the operations.                                         *)

(* CompletionWake::wake: one packet at a time.                             *)
WakeIf(c) == posted' = (posted \/ c) /\ packet' = (packet \/ (c /\ ~posted))

(* synchronize_cancellation_locked on the jobs of J.                       *)
Synchronized(J) == err \cup (J \cap token)

(* writer_terminal_predicate.                                              *)
Terminal(j) == j \in err \/ j \in token

Accepted(m, n)  == [m EXCEPT !.accepted = @ + n, !.pending = @ + n]
Written(m, n)   == [m EXCEPT !.written = @ + n, !.pending = @ - n]
Discarded(m, n) == [m EXCEPT !.discarded = @ + n, !.pending = @ - n]

(* can_accept_locked, for a file that is not closing: a staging buffer is  *)
(* filled up by no write that goes on (see Commit), so its clause for a    *)
(* full one never applies.                                                 *)
CanAccept(j, f) ==
    /\ inflight[j] < JobBudget
    /\ file[f].inflight < FileBudget
    /\ IF file[f].stage # None THEN buf[file[f].stage].size < BufferSize
       ELSE \E b \in Buffers : buf[b].at = "free"

(* Mutant: the write offset of the file is not advanced.                   *)
QueueStage_SameOffset(fl, bs) ==
    [file |-> [fl EXCEPT !.stage = None],
     buf  |-> [bs EXCEPT ![fl.stage].at = "queue", ![fl.stage].offset = fl.next]]

(* enqueue_staging_locked: the buffer gets its place in the file here.     *)
QueueStage(fl, bs) ==
    LET b == fl.stage IN
    [file |-> [fl EXCEPT !.stage = None, !.next = @ + bs[b].size],
     buf  |-> [bs EXCEPT ![b].at = "queue", ![b].offset = fl.next]]

(* Mutant: the close does not wait for the buffers.                        *)
WantsClose_Early(fl) == fl.closing /\ ~fl.queued /\ ~fl.closed

(* enqueue_close_locked: once, and only after the last buffer.             *)
WantsClose(fl) ==
    fl.closing /\ ~fl.queued /\ ~fl.closed /\ fl.outstanding = 0

QueueClose(fl) == [fl EXCEPT !.queued = @ \/ WantsClose(fl)]
CloseItem(f, fl) == IF WantsClose(fl) THEN <<f>> ELSE <<>>

-----------------------------------------------------------------------------
(* The environment: the volume, the monitor's two effects, cancellation.   *)

VolumeChanges ==
    /\ events < MaxEvents
    /\ \E v \in {"free", "full", "gone"} \ {vol} : vol' = v
    /\ events' = events + 1
    /\ UNCHANGED <<gate, jobVars, ioVars, lease, retryQ, wakeVars, wk, disk, meter>>

MonitorPolls ==
    /\ vol # "gone" /\ gate.phase = "blocked"
    /\ gate' = Poll(gate, TRUE)
    /\ WakeIf(TRUE)
    /\ UNCHANGED <<envVars, jobVars, ioVars, lease, retryQ, wk, disk, meter>>

MonitorQueryFails ==
    /\ vol = "gone" \/ events < MaxEvents
    /\ gate.phase = "probing"
    /\ events' = IF vol = "gone" THEN events ELSE events + 1
    /\ gate' = RecordQueryFailure(gate)
    /\ WakeIf(TRUE)
    /\ UNCHANGED <<vol, jobVars, ioVars, lease, retryQ, wk, disk, meter>>

(* NativeJobExecutor::cancel sets the token, then wakes the writer.        *)
Cancel(j) ==
    /\ j \notin token /\ prod[j].pc # "done"
    /\ vol = "gone" \/ events < MaxEvents
    /\ events' = IF vol = "gone" THEN events ELSE events + 1
    /\ token' = token \cup {j}
    /\ waking' = waking \cup {j}
    /\ UNCHANGED <<gate, vol, err, pending, inflight, prod, ioVars, lease,
                   retryQ, wakeVars, wk, disk, meter>>

WakeWaiters(j) ==
    /\ j \in waking
    /\ waking' = waking \ {j}
    /\ err' = Synchronized({k \in Jobs : prod[k].pc # "done"})
    /\ WakeIf(TRUE)
    /\ UNCHANGED <<gate, envVars, token, pending, inflight, prod, ioVars,
                   lease, retryQ, wk, disk, meter>>

-----------------------------------------------------------------------------
(* A decoder thread.                                                       *)

(* GetStream makes the next file of the job; a decoder whose job is        *)
(* cancelled, or that has none left, goes on to finish_job.                *)
MakeFile(j) ==
    /\ prod[j].pc = "next"
    /\ \E f \in Files :
          /\ JobOf[f] = j /\ ~file[f].closing /\ ~Terminal(j)
          /\ prod' = [prod EXCEPT ![j] =
                 Decoder(IF Size[f] > 0 THEN "reserve" ELSE "close", f, Size[f], 0, FALSE)]
    /\ UNCHANGED <<gate, envVars, token, waking, err, pending, inflight,
                   ioVars, lease, retryQ, wakeVars, wk, disk, meter>>

(* The first critical section of write(): wait for room, take a buffer,    *)
(* reserve a chunk of both budgets.  Free buffers are interchangeable.     *)
Reserve(j) ==
    LET f == prod[j].file IN
    /\ prod[j].pc = "reserve"
    /\ IF j \in err
       THEN /\ prod' = [prod EXCEPT ![j].pc = "close"]
            /\ UNCHANGED <<inflight, ioVars>>
       ELSE /\ CanAccept(j, f)
            /\ LET b == IF file[f].stage # None THEN file[f].stage
                        ELSE CHOOSE x \in Buffers : buf[x].at = "free"
                   chunk == Min({prod[j].left, BufferSize - buf[b].size,
                                   JobBudget - inflight[j],
                                   FileBudget - file[f].inflight})
                 IN /\ prod' = [prod EXCEPT ![j] =
                          Decoder("commit", f, @.left, chunk, file[f].stage = None)]
                    /\ buf' = [buf EXCEPT ![b].at = "stage", ![b].file = f]
                    /\ file' = [file EXCEPT ![f].stage = b, ![f].inflight = @ + chunk]
                    /\ inflight' = [inflight EXCEPT ![j] = @ + chunk]
            /\ UNCHANGED workQ
    /\ UNCHANGED <<gate, envVars, token, waking, err, pending, lease, retryQ,
                   wakeVars, wk, disk, meter>>

(* The second one, after the copy, when the job has failed meanwhile: the  *)
(* reservation is undone, and so is the buffer if it was taken for it.     *)
CommitAborts(j) ==
    LET f == prod[j].file
        b == file[f].stage
        n == prod[j].chunk IN
    /\ prod[j].pc = "commit" /\ j \in err
    /\ prod' = [prod EXCEPT ![j] = Decoder("close", f, @.left, 0, FALSE)]
    /\ inflight' = [inflight EXCEPT ![j] = @ - n]
    /\ file' = [file EXCEPT ![f].inflight = @ - n,
                            ![f].stage = IF prod[j].fresh THEN None ELSE @]
    /\ buf' = [buf EXCEPT ![b] = IF prod[j].fresh THEN FreeBuffer ELSE @]
    /\ UNCHANGED <<gate, envVars, token, waking, err, pending, workQ, lease,
                   retryQ, wakeVars, wk, disk, meter>>

(* The second critical section otherwise: the chunk is accepted, and a     *)
(* full buffer queued.  If the queue is at its limit the write fails with  *)
(* the buffer still staged, although the job has no error.                 *)
Commit(j) ==
    LET f     == prod[j].file
        b     == file[f].stage
        n     == prod[j].chunk
        size  == buf[b].size + n
        first == IF buf[b].size = 0 THEN 1 ELSE 0
        bs    == [buf EXCEPT ![b].size = size]
        fl    == [file[f] EXCEPT !.accepted = @ + n, !.outstanding = @ + first]
        full  == size = BufferSize
        room  == Len(workQ) < QueueLimit
        left  == prod[j].left - n
    IN
    /\ prod[j].pc = "commit" /\ j \notin err
    /\ pending' = [pending EXCEPT ![j] = @ + first]
    /\ meter' = Accepted(meter, n)
    /\ IF full /\ room
       THEN /\ buf' = QueueStage(fl, bs).buf
            /\ file' = [file EXCEPT ![f] = QueueStage(fl, bs).file]
            /\ workQ' = Append(workQ, b)
       ELSE /\ buf' = bs
            /\ file' = [file EXCEPT ![f] = fl]
            /\ UNCHANGED workQ
    /\ prod' = [prod EXCEPT ![j] =
          Decoder(IF left = 0 \/ (full /\ ~room) THEN "close" ELSE "reserve",
                  f, left, 0, FALSE)]
    /\ UNCHANGED <<gate, envVars, token, waking, err, inflight, lease, retryQ,
                   wakeVars, wk, disk>>

(* close_file, from the stream's destructor: staged data is queued, or     *)
(* dropped if the job has failed (discard_staging_locked).  A write that   *)
(* failed ends the job's decoding.                                         *)
CloseFile(j) ==
    LET f    == prod[j].file
        b    == file[f].stage
        fl   == [file[f] EXCEPT !.closing = TRUE]
        drop == [fl EXCEPT !.stage = None, !.inflight = @ - buf[b].size,
                           !.outstanding = @ - 1]
        last == IF b = None THEN fl
                ELSE IF j \in err' THEN drop ELSE QueueStage(fl, buf).file
    IN
    /\ prod[j].pc = "close"
    /\ err' = Synchronized({j})
    /\ file' = [file EXCEPT ![f] = QueueClose(last)]
    /\ buf' = IF b = None THEN buf
              ELSE IF j \in err' THEN [buf EXCEPT ![b] = FreeBuffer]
              ELSE QueueStage(fl, buf).buf
    /\ workQ' = workQ \o (IF b = None \/ j \in err' THEN <<>> ELSE <<b>>)
                      \o CloseItem(f, last)
    /\ LET dropped == IF b # None /\ j \in err' THEN buf[b].size ELSE 0
       IN /\ inflight' = [inflight EXCEPT ![j] = @ - dropped]
          /\ pending' = [pending EXCEPT ![j] = @ + (IF dropped > 0 THEN 0 ELSE 1)]
          /\ meter' = Discarded(meter, dropped)
    /\ prod' = [prod EXCEPT ![j] =
          Decoder(IF prod[j].left = 0 THEN "next" ELSE "finish", None, 0, 0, FALSE)]
    /\ UNCHANGED <<gate, envVars, token, waking, lease, retryQ, wakeVars, wk, disk>>

(* finish_job up to its wait: every stream of the job is closed by then.   *)
FinishJob(j) ==
    /\ \/ prod[j].pc = "finish"
       \/ /\ prod[j].pc = "next"
          /\ Terminal(j) \/ \A f \in Files : JobOf[f] = j => file[f].closing
    /\ err' = Synchronized({j})
    /\ WakeIf(retryQ # <<>> \/ j \in err')
    /\ prod' = [prod EXCEPT ![j].pc = "wait"]
    /\ UNCHANGED <<gate, envVars, token, waking, pending, inflight, ioVars,
                   lease, retryQ, wk, disk, meter>>

FinishReturns(j) ==
    /\ prod[j].pc = "wait" /\ pending[j] = 0
    /\ prod' = [prod EXCEPT ![j].pc = "done"]
    /\ UNCHANGED <<gate, envVars, token, waking, err, pending, inflight,
                   ioVars, lease, retryQ, wakeVars, wk, disk, meter>>

DecoderStep(j) ==
    \/ MakeFile(j) \/ Reserve(j) \/ Commit(j) \/ CommitAborts(j)
    \/ CloseFile(j) \/ FinishJob(j) \/ FinishReturns(j)

-----------------------------------------------------------------------------
(* A writer thread.  Any thread that waits at the port may get a packet;   *)
(* waiting threads are alike, so one of them stands for all.               *)

Waiting(w) ==
    /\ wk[w].pc = "idle"
    /\ w = CHOOSE x \in Workers : wk[x].pc = "idle"

FileOf(item) == IF item \in Files THEN item ELSE buf[item].file
Owner(item) == JobOf[FileOf(item)]

(* writer_loop on a work packet.                                           *)
TakeWork(w) ==
    /\ Waiting(w) /\ workQ # <<>>
    /\ workQ' = Tail(workQ)
    /\ LET item == Head(workQ) IN
       IF item \in Files
       THEN /\ wk' = [wk EXCEPT ![w] = Thread("copen", item, "ok", FALSE)]
            /\ UNCHANGED buf
       ELSE /\ wk' = [wk EXCEPT ![w] = Thread("open", item, "ok", FALSE)]
            /\ buf' = [buf EXCEPT ![item].at = "held", ![item].done = 0]
    /\ UNCHANGED <<gate, envVars, jobVars, file, lease, retryQ, wakeVars, disk, meter>>

(* writer_loop on the retry packet: it is acknowledged before the queue is *)
(* searched, so that a change of the gate during the search posts another. *)
TakeRetry(w) ==
    /\ Waiting(w) /\ packet
    /\ packet' = FALSE
    /\ wk' = [wk EXCEPT ![w].pc = "ack"]
    /\ UNCHANGED <<gate, envVars, jobVars, ioVars, lease, retryQ, posted, disk, meter>>

Ack(w) ==
    /\ wk[w].pc = "ack"
    /\ posted' = FALSE
    /\ wk' = [wk EXCEPT ![w].pc = "scan"]
    /\ UNCHANGED <<gate, envVars, jobVars, ioVars, lease, retryQ, packet, disk, meter>>

(* What the gate says to the item parked at place i.                       *)
Ruling(i) == Decision(gate, Terminal(Owner(retryQ[i])))

(* dispatch_space_retries: the first item the gate does not keep waiting,  *)
(* with the probe if it was granted one.                                   *)
Scan(w) ==
    /\ wk[w].pc = "scan"
    /\ \/ /\ \A i \in DOMAIN retryQ : Ruling(i) = "pending"
          /\ err' = Synchronized({Owner(retryQ[i]) : i \in DOMAIN retryQ})
          /\ wk' = [wk EXCEPT ![w] = Resting(FALSE)]
          /\ UNCHANGED <<gate, lease, buf, retryQ>>
       \/ \E stop \in DOMAIN retryQ :
             LET item   == retryQ[stop]
                 probes == Ruling(stop) = "probe"
             IN
             /\ Ruling(stop) # "pending"
             /\ \A i \in 1 .. (stop - 1) : Ruling(i) = "pending"
             /\ err' = Synchronized({Owner(retryQ[i]) : i \in 1 .. stop})
             /\ retryQ' = RemoveAt(retryQ, stop)
             /\ gate' = IF probes THEN ClaimProbe(gate, item) ELSE gate
             /\ lease' = IF probes THEN lease \cup {item} ELSE lease
             /\ IF item \in Files
                THEN /\ wk' = [wk EXCEPT ![w] = Thread("copen", item, "ok", TRUE)]
                     /\ UNCHANGED buf
                ELSE /\ wk' = [wk EXCEPT ![w] = Thread("open", item, "ok", TRUE)]
                     /\ buf' = [buf EXCEPT ![item].at = "held"]
    /\ UNCHANGED <<envVars, token, waking, pending, inflight, prod, file, workQ,
                   wakeVars, disk, meter>>

(* try_open_file: a file that has failed stays failed; running out of      *)
(* space leaves the file untried, any other failure fails file and job.    *)
(* On a full volume a call may run out of space or still find room.        *)
OpenResults(f) ==
    IF file[f].failed THEN {"permanent"}
    ELSE IF file[f].handle THEN {"ok"}
    ELSE IF file[f].tried THEN {"permanent"}
    ELSE CASE vol = "free" -> {"ok"}
           [] vol = "full" -> {"ok", "space"}
           [] vol = "gone" -> {"permanent"}

Opened(fl, result) ==
    CASE result = "ok" -> [fl EXCEPT !.handle = TRUE, !.tried = TRUE, !.created = TRUE]
      [] result = "space" -> fl
      [] result = "permanent" -> [fl EXCEPT !.tried = TRUE, !.failed = TRUE]

(* attempt_data_write up to the handle.                                    *)
Open(w) ==
    LET f == FileOf(wk[w].item)
        j == JobOf[f]
    IN
    /\ wk[w].pc = "open"
    /\ IF Terminal(j)
       THEN /\ err' = err \cup {j}
            /\ file' = [file EXCEPT ![f].failed = TRUE]
            /\ WakeIf(TRUE)
            /\ wk' = [wk EXCEPT ![w].pc = "settle", ![w].result = "terminal"]
       ELSE \E result \in OpenResults(f) :
            /\ err' = IF result = "permanent" THEN err \cup {j} ELSE err
            /\ file' = [file EXCEPT ![f] = Opened(@, result)]
            /\ wk' = [wk EXCEPT ![w].pc = IF result = "ok" THEN "submit" ELSE "settle",
                                ![w].result = result]
            /\ UNCHANGED wakeVars
    /\ UNCHANGED <<gate, envVars, token, waking, pending, inflight, prod, buf,
                   workQ, lease, retryQ, disk, meter>>

(* begin_data_write and WriteFile: from here the completion owns the       *)
(* buffer.                                                                 *)
Submit(w) ==
    LET b == wk[w].item
        f == FileOf(b)
    IN
    /\ wk[w].pc = "submit"
    /\ IF file[f].failed \/ JobOf[f] \in err
       THEN /\ wk' = [wk EXCEPT ![w].pc = "settle", ![w].result = "terminal"]
            /\ UNCHANGED <<buf, file>>
       ELSE /\ wk' = [wk EXCEPT ![w] = Resting(@.again)]
            /\ buf' = [buf EXCEPT ![b].at = "io"]
            /\ file' = [file EXCEPT ![f].active = @ + 1]
    /\ UNCHANGED <<gate, envVars, jobVars, workQ, lease, retryQ, wakeVars, disk, meter>>

(* complete_data_write on a completion without error: n units from the     *)
(* confirmed prefix on have reached the file.  A short write goes on.      *)
CompleteOk(w, b, n) ==
    LET f    == buf[b].file
        from == buf[b].offset + buf[b].done
    IN
    /\ disk' = [disk EXCEPT ![f] = [u \in Units(f) |->
                   @[u] + (IF from <= u /\ u < from + n THEN 1 ELSE 0)]]
    /\ meter' = Written(meter, n)
    /\ buf' = [buf EXCEPT ![b].at = "held", ![b].done = @ + n]
    /\ file' = [file EXCEPT ![f].active = @ - 1]
    /\ wk' = [wk EXCEPT ![w] = Thread(IF buf'[b].done < buf[b].size THEN "open" ELSE "settle",
                                      b, "ok", FALSE)]
    /\ UNCHANGED <<err, wakeVars>>

(* Mutant: a failed write stays counted as active.                         *)
CompleteFails_StaysActive(w, b, result) ==
    LET f == buf[b].file IN
    /\ buf' = [buf EXCEPT ![b].at = "held"]
    /\ file' = [file EXCEPT ![f].failed = @ \/ result = "permanent"]
    /\ err' = IF result = "permanent" THEN err \cup {JobOf[f]} ELSE err
    /\ WakeIf(result = "permanent")
    /\ wk' = [wk EXCEPT ![w] = Thread("settle", b, result, FALSE)]
    /\ UNCHANGED <<disk, meter>>

(* classify_data_failure: only a permanent failure is recorded.            *)
CompleteFails(w, b, result) ==
    LET f == buf[b].file IN
    /\ buf' = [buf EXCEPT ![b].at = "held"]
    /\ file' = [file EXCEPT ![f].active = @ - 1, ![f].failed = @ \/ result = "permanent"]
    /\ err' = IF result = "permanent" THEN err \cup {JobOf[f]} ELSE err
    /\ WakeIf(result = "permanent")
    /\ wk' = [wk EXCEPT ![w] = Thread("settle", b, result, FALSE)]
    /\ UNCHANGED <<disk, meter>>

Complete(w, b) ==
    LET rest == buf[b].size - buf[b].done IN
    /\ Waiting(w) /\ buf[b].at = "io"
    /\ \/ vol # "gone" /\ \E n \in 1 .. rest : CompleteOk(w, b, n)
       \/ vol = "full" /\ CompleteFails(w, b, "space")
       \/ vol = "gone" /\ CompleteFails(w, b, "permanent")
    /\ UNCHANGED <<gate, envVars, token, waking, pending, inflight, prod, workQ,
                   lease, retryQ>>

(* The gate hears of the attempt: through the lease if the item has one,   *)
(* else only of a space failure.                                           *)
SettleGate(item, result) ==
    /\ gate' = [(IF item \in lease THEN SettleAttempt(gate, item, result)
                 ELSE IF result = "space" THEN ReportSpaceFailure(gate)
                 ELSE gate) EXCEPT !.episode = 0]
    /\ lease' = lease \ {item}

Notifies(item, result) ==
    IF item \in lease THEN OwnsProbe(gate, item) ELSE result = "space"

(* Mutant: the confirmed prefix is given up as well.                       *)
GivenUp_Whole(b, result) == IF result = "ok" THEN 0 ELSE buf[b].size

(* What a failed attempt leaves unwritten.                                 *)
GivenUp(b, result) == IF result = "ok" THEN 0 ELSE buf[b].size - buf[b].done

(* finish_data_attempt, and release_buffer unless the item is to be tried  *)
(* again: what was not written is given up, and the last buffer of a       *)
(* closing file queues the close.                                          *)
Settle(w) ==
    LET b == wk[w].item
        f == buf[b].file
        j == JobOf[f]
        result == wk[w].result
        fl == [file[f] EXCEPT !.inflight = @ - buf[b].size, !.outstanding = @ - 1]
    IN
    /\ wk[w].pc = "settle"
    /\ SettleGate(b, result)
    /\ WakeIf(Notifies(b, result))
    /\ IF result = "space"
       THEN /\ wk' = [wk EXCEPT ![w].pc = "defer"]
            /\ UNCHANGED <<ioVars, inflight, pending, meter>>
       ELSE /\ wk' = [wk EXCEPT ![w] = Resting(@.again)]
            /\ meter' = Discarded(meter, GivenUp(b, result))
            /\ file' = [file EXCEPT ![f] = QueueClose(fl)]
            /\ workQ' = workQ \o CloseItem(f, fl)
            /\ inflight' = [inflight EXCEPT ![j] = @ - buf[b].size]
            /\ pending' = [pending EXCEPT ![j] = @ - 1]
            /\ buf' = [buf EXCEPT ![b] = FreeBuffer]
    /\ UNCHANGED <<envVars, token, waking, err, prod, retryQ, disk>>

(* Mutant: the item is parked without posting the packet.                  *)
Defer_Silent(w) ==
    LET item == wk[w].item IN
    /\ wk[w].pc = "defer"
    /\ retryQ' = Append(retryQ, item)
    /\ buf' = IF item \in Files THEN buf ELSE [buf EXCEPT ![item].at = "retry"]
    /\ wk' = [wk EXCEPT ![w] = Resting(@.again)]
    /\ UNCHANGED <<gate, envVars, jobVars, file, workQ, lease, wakeVars, disk, meter>>

(* defer_space_work: the item is in the queue before the packet is posted. *)
Defer(w) ==
    LET item == wk[w].item IN
    /\ wk[w].pc = "defer"
    /\ retryQ' = Append(retryQ, item)
    /\ buf' = IF item \in Files THEN buf ELSE [buf EXCEPT ![item].at = "retry"]
    /\ WakeIf(TRUE)
    /\ wk' = [wk EXCEPT ![w] = Resting(@.again)]
    /\ UNCHANGED <<gate, envVars, jobVars, file, workQ, lease, disk, meter>>

(* process_close, first part: a file nothing was written to is created.    *)
CloseOpen(w) ==
    LET f == wk[w].item
        j == JobOf[f]
        fl == file[f]
        opens == ~fl.failed /\ ~fl.handle /\ ~fl.tried
    IN
    /\ wk[w].pc = "copen"
    /\ IF Terminal(j)
       THEN /\ err' = err \cup {j}
            /\ file' = [file EXCEPT ![f].failed = TRUE]
            /\ WakeIf(TRUE)
            /\ wk' = [wk EXCEPT ![w].pc = "csettle"]
       ELSE \E result \in (IF opens THEN OpenResults(f) ELSE {"ok"}) :
            /\ err' = IF result = "permanent" THEN err \cup {j} ELSE err
            /\ file' = [file EXCEPT ![f] = IF opens THEN Opened(@, result) ELSE @]
            /\ wk' = [wk EXCEPT ![w].pc = "csettle", ![w].result = result]
            /\ UNCHANGED wakeVars
    /\ UNCHANGED <<gate, envVars, token, waking, pending, inflight, prod, buf,
                   workQ, lease, retryQ, disk, meter>>

(* Second part: a job that has failed by now proves nothing to the gate.   *)
(* Unless the file is to be tried again, its handle is closed and the job  *)
(* has one thing less to do.                                               *)
CloseSettle(w) ==
    LET f == wk[w].item
        j == JobOf[f]
        result == IF Terminal(j) THEN "terminal" ELSE wk[w].result
        bad == result = "permanent"
    IN
    /\ wk[w].pc = "csettle"
    /\ SettleGate(f, result)
    /\ WakeIf(Notifies(f, result) \/ bad)
    /\ err' = Synchronized({j}) \cup (IF bad THEN {j} ELSE {})
    /\ IF result = "space"
       THEN /\ wk' = [wk EXCEPT ![w].pc = "defer"]
            /\ UNCHANGED <<file, pending>>
       ELSE /\ wk' = [wk EXCEPT ![w] = Resting(@.again)]
            /\ file' = [file EXCEPT ![f].handle = FALSE, ![f].closed = TRUE,
                                    ![f].failed = @ \/ bad]
            /\ pending' = [pending EXCEPT ![j] = @ - 1]
    /\ UNCHANGED <<envVars, token, waking, inflight, prod, buf, workQ, retryQ,
                   disk, meter>>

WorkerStep(w) ==
    \/ Ack(w) \/ Scan(w) \/ Open(w) \/ Submit(w) \/ Settle(w) \/ Defer(w)
    \/ CloseOpen(w) \/ CloseSettle(w)

AllDone ==
    /\ \A j \in Jobs : prod[j].pc = "done"
    /\ UNCHANGED vars

Next ==
    \/ VolumeChanges \/ MonitorPolls \/ MonitorQueryFails
    \/ \E j \in Jobs : Cancel(j) \/ WakeWaiters(j) \/ DecoderStep(j)
    \/ \E w \in Workers :
          \/ TakeWork(w) \/ TakeRetry(w) \/ WorkerStep(w)
          \/ \E b \in Buffers : Complete(w, b)
    \/ AllDone

Spec == Init /\ [][Next]_vars

-----------------------------------------------------------------------------
(* Properties.                                                             *)

(* Every variable has its type, no budget is exceeded and no count goes    *)
(* below zero: the code's unsigned subtractions never wrap.                *)
WriterTypeOK ==
    /\ gate.phase \in {"ready", "blocked", "probing"}
    /\ vol \in {"free", "full", "gone"} /\ events \in 0 .. MaxEvents
    /\ token \subseteq Jobs /\ waking \subseteq token /\ err \subseteq Jobs
    /\ pending \in [Jobs -> 0 .. (Cardinality(Files) + Cardinality(Buffers))]
    /\ inflight \in [Jobs -> 0 .. JobBudget]
    /\ \A f \in Files :
          /\ file[f].inflight \in 0 .. FileBudget
          /\ file[f].outstanding \in 0 .. Cardinality(Buffers)
          /\ file[f].active \in 0 .. file[f].outstanding
          /\ file[f].accepted \in 0 .. Size[f]
    /\ \A b \in Buffers :
          /\ buf[b].at \in {"free", "stage", "queue", "held", "io", "retry"}
          /\ buf[b].size \in 0 .. BufferSize /\ buf[b].done \in 0 .. buf[b].size
    /\ lease \subseteq Buffers \cup Files
    /\ \A c \in DOMAIN meter : meter[c] \in Nat

Serving(item) == {w \in Workers : wk[w].item = item}

(* The accepted bytes of the buffers that are not written yet.             *)
Owed == {p \in Buffers \X (1 .. BufferSize) : p[2] <= buf[p[1]].size - buf[p[1]].done}

(* The pending meter is at any time exactly the bytes that are staged,     *)
(* queued, parked or in flight: every accepted byte is counted out once,   *)
(* as written or as discarded, over short writes, space retries and        *)
(* cancellation (the code asserts "pending gauge over-released").          *)
BytesAccounted ==
    meter.pending = Cardinality(Owed)

(* The close of a file starts after its last buffer has come back, and     *)
(* nothing touches a file that is being closed or is closed: no write is   *)
(* submitted on, or completes for, a handle that is gone.                  *)
CloseIsLast ==
    \A f \in Files :
        (file[f].closed \/ f \in Range(workQ) \cup Range(retryQ) \/ Serving(f) # {}) =>
            /\ \A b \in Buffers : buf[b].file # f
            /\ file[f].active = 0 /\ file[f].outstanding = 0 /\ file[f].inflight = 0
            /\ file[f].closed => ~file[f].handle /\ Serving(f) = {}
            /\ Cardinality(Serving(f)) <= 1

(* No unit of a file is ever written twice, and a job that finish_job      *)
(* reports as successful has created and closed every file it made, with   *)
(* each accepted unit at its place exactly once, whatever order the        *)
(* buffers completed in and however often they ran out of space.           *)
WholeOnSuccess ==
    /\ \A f \in Files : \A u \in Units(f) : disk[f][u] <= 1
    /\ \A f \in Files :
          (prod[JobOf[f]].pc = "done" /\ JobOf[f] \notin err /\ file[f].closing) =>
              /\ file[f].closed /\ file[f].created /\ ~file[f].failed
              /\ \A u \in Units(f) : disk[f][u] = (IF u < file[f].accepted THEN 1 ELSE 0)

(* No parked item is forgotten: when the gate would let one go, or its job *)
(* is cancelled, a retry packet is in the port, or a thread is about to    *)
(* search the queue or to post the packet ("a transition cannot be lost    *)
(* between testing Pending and leaving the item in this queue").           *)
NoLostWake ==
    (\E i \in DOMAIN retryQ : Decision(gate, Owner(retryQ[i]) \in token) # "pending") =>
        \/ packet \/ waking # {}
        \/ \E w \in Workers : wk[w].pc \in {"ack", "scan", "defer"} \/ wk[w].again

=============================================================================
