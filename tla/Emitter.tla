------------------------------ MODULE Emitter ------------------------------
(***************************************************************************)
(* FirehoseEmitter (app/internal/pipeline/firehose.go): HTTP handlers hand *)
(* over events without ever blocking, one worker goroutine batches them    *)
(* onto the delivery stream, and Close asks the worker to drain.           *)
(*                                                                         *)
(* An event is [id, size]: id numbers the calls of Emit, size is the       *)
(* length encode gives its JSON line.  An event that cannot be marshalled  *)
(* is one whose size is over the record limit: encode rejects both.        *)
(* Sizes are the encoded lengths to explore, MaxEmits bounds the calls.    *)
(***************************************************************************)
EXTENDS Integers, Sequences, SequencesExt

CONSTANTS BufferSize, MaxRecordsPerBatch, MaxBatchBytes, MaxRecordBytes,
          Sizes, MaxEmits

ASSUME EmitterAssumption ==
  /\ BufferSize \in Nat \ {0}
  /\ MaxRecordsPerBatch \in Nat \ {0}
  /\ MaxBatchBytes \in Nat
  /\ MaxRecordBytes \in Nat /\ MaxRecordBytes <= MaxBatchBytes
  /\ Sizes \subseteq Nat \ {0}
  /\ MaxEmits \in Nat

VARIABLES
  events,        \* the buffered channel
  done,          \* TRUE once the done channel is closed
  worker,        \* where run() is: its select, its drain loop, the call, gone
  resume,        \* where run() goes on after the flush it is in
  held,          \* the encoded record waiting for that flush (at most one)
  pending,       \* the batch being built, or in flight
  pendingBytes,
  dropped, delivered, failed,  \* the counters
  closer,        \* progress of the one call of Close
  logged,        \* the counters as last written to the log, <<>> before that
  emitted,       \* history: how many times Emit was called
  sent,          \* history: everything passed to PutRecordBatch, in order
  landed         \* ids the delivery stream really took

worker_vars == <<worker, resume, held, pending, pendingBytes>>
counters    == <<dropped, delivered, failed>>
close_vars  == <<closer, logged>>
vars == <<events, done, worker_vars, counters, close_vars, emitted, sent, landed>>

Event == [id : 1..MaxEmits, size : Sizes]

Ids(s) == {s[i].id : i \in DOMAIN s}

-----------------------------------------------------------------------------
(* encode, and the limit check both loops of run() make before appending.  *)
Encodable(event) == event.size <= MaxRecordBytes

(* Mutant: the limit is tested without the record about to be added.       *)
MustFlushFirst_WithoutRecord(event) ==
  \/ Len(pending) >= MaxRecordsPerBatch
  \/ pendingBytes >= MaxBatchBytes

MustFlushFirst(event) ==
  \/ Len(pending) >= MaxRecordsPerBatch
  \/ pendingBytes + event.size > MaxBatchBytes

Init ==
  /\ events = <<>> /\ done = FALSE
  /\ worker = "select" /\ resume = "select"
  /\ held = <<>> /\ pending = <<>> /\ pendingBytes = 0
  /\ dropped = 0 /\ delivered = 0 /\ failed = 0
  /\ closer = "none" /\ logged = <<>>
  /\ emitted = 0 /\ sent = <<>> /\ landed = {}

-----------------------------------------------------------------------------
(* Mutant: the buffer takes one event more than it has room for.           *)
Emit_OneTooMany(size) ==
  /\ emitted < MaxEmits
  /\ emitted' = emitted + 1
  /\ IF Len(events) <= BufferSize
     THEN /\ events' = Append(events, [id |-> emitted + 1, size |-> size])
          /\ UNCHANGED dropped
     ELSE /\ dropped' = dropped + 1
          /\ UNCHANGED events
  /\ UNCHANGED <<done, worker_vars, delivered, failed, close_vars, sent, landed>>

(* A handler calls Emit.  Note that done is not consulted.                 *)
Emit(size) ==
  /\ emitted < MaxEmits
  /\ emitted' = emitted + 1
  /\ IF Len(events) < BufferSize
     THEN /\ events' = Append(events, [id |-> emitted + 1, size |-> size])
          /\ UNCHANGED dropped
     ELSE /\ dropped' = dropped + 1
          /\ UNCHANGED events
  /\ UNCHANGED <<done, worker_vars, delivered, failed, close_vars, sent, landed>>

(* flush() on a non-empty batch reaches PutRecordBatch, which blocks; `h`  *)
(* is appended and run() goes on at `next` when it returns.                *)
StartPut(h, next) ==
  /\ worker' = "put" /\ resume' = next /\ held' = h
  /\ sent' = sent \o pending
  /\ UNCHANGED <<pending, pendingBytes>>

(* case event := <-e.events, in the select loop and in the drain loop.     *)
Receive ==
  /\ worker \in {"select", "drain"}
  /\ events # <<>>
  /\ events' = Tail(events)
  /\ LET event == Head(events) IN
       \/ /\ ~Encodable(event)
          /\ dropped' = dropped + 1
          /\ UNCHANGED <<worker_vars, sent>>
       \/ /\ Encodable(event) /\ MustFlushFirst(event) /\ pending # <<>>
          /\ StartPut(<<event>>, worker)
          /\ UNCHANGED dropped
       \/ /\ Encodable(event) /\ (MustFlushFirst(event) => pending = <<>>)
          /\ pending' = Append(pending, event)
          /\ pendingBytes' = pendingBytes + event.size
          /\ UNCHANGED <<worker, resume, held, dropped, sent>>
  /\ UNCHANGED <<done, delivered, failed, close_vars, emitted, landed>>

(* case <-ticker.C: an empty batch is left alone.                          *)
Tick ==
  /\ worker = "select"
  /\ pending # <<>>
  /\ StartPut(<<>>, "select")
  /\ UNCHANGED <<events, done, counters, close_vars, emitted, landed>>

(* case <-e.done                                                           *)
SeeDone ==
  /\ worker = "select" /\ done
  /\ worker' = "drain"
  /\ UNCHANGED <<events, done, resume, held, pending, pendingBytes, counters,
                 close_vars, emitted, sent, landed>>

(* Mutant: the worker returns on done without looking at the channel.      *)
Drained_WithoutLooking ==
  /\ worker = "drain"
  /\ IF pending # <<>>
     THEN StartPut(<<>>, "exited")
     ELSE /\ worker' = "exited"
          /\ UNCHANGED <<resume, held, pending, pendingBytes, sent>>
  /\ UNCHANGED <<events, done, counters, close_vars, emitted, landed>>

(* Mutant: `break` in the drain loop leaves the inner select only.         *)
Drained_BreakOnly ==
  /\ worker = "drain" /\ events = <<>>
  /\ IF pending # <<>>
     THEN StartPut(<<>>, "select")
     ELSE /\ worker' = "select"
          /\ UNCHANGED <<resume, held, pending, pendingBytes, sent>>
  /\ UNCHANGED <<events, done, counters, close_vars, emitted, landed>>

(* The drain loop finds the channel empty: flush, then return.             *)
Drained ==
  /\ worker = "drain" /\ events = <<>>
  /\ IF pending # <<>>
     THEN StartPut(<<>>, "exited")
     ELSE /\ worker' = "exited"
          /\ UNCHANGED <<resume, held, pending, pendingBytes, sent>>
  /\ UNCHANGED <<events, done, counters, close_vars, emitted, landed>>

(* Mutant: the record that forced the flush is forgotten.                  *)
AfterPut_LosesHeld ==
  /\ pending' = <<>> /\ pendingBytes' = 0
  /\ held' = <<>>
  /\ worker' = resume
  /\ UNCHANGED <<events, done, resume, dropped, close_vars, emitted, sent>>

(* Mutant: the batch is kept, to be sent again with the next flush.        *)
AfterPut_KeepsBatch ==
  /\ pending' = pending \o held
  /\ pendingBytes' = pendingBytes + (IF held = <<>> THEN 0 ELSE held[1].size)
  /\ held' = <<>>
  /\ worker' = resume
  /\ UNCHANGED <<events, done, resume, dropped, close_vars, emitted, sent>>

(* The tail of flush() and of the case it was called from: the batch is    *)
(* reset whatever became of it, the held record appended.                  *)
AfterPut ==
  /\ pending' = held
  /\ pendingBytes' = IF held = <<>> THEN 0 ELSE held[1].size
  /\ held' = <<>>
  /\ worker' = resume
  /\ UNCHANGED <<events, done, resume, dropped, close_vars, emitted, sent>>

(* Mutant: no error means everything was taken; FailedPutCount is ignored. *)
PutAnswered_IgnoresRejected ==
  /\ worker = "put"
  /\ \E rejected \in SUBSET Ids(pending) :
       /\ landed' = landed \cup (Ids(pending) \ rejected)
       /\ UNCHANGED failed
       /\ delivered' = delivered + Len(pending)
  /\ AfterPut

(* PutRecordBatch answers: it took all records but the rejected ones, and  *)
(* says how many those are.                                                *)
PutAnswered ==
  /\ worker = "put"
  /\ \E rejected \in SUBSET Ids(pending) :
       /\ landed' = landed \cup (Ids(pending) \ rejected)
       /\ failed' = failed + Cardinality(rejected)
       /\ delivered' = delivered + (Len(pending) - Cardinality(rejected))
  /\ AfterPut

(* PutRecordBatch fails or runs into its 15 seconds.  What the stream took *)
(* of the batch before that is not known, and nothing is sent again.       *)
PutFailed ==
  /\ worker = "put"
  /\ \E taken \in SUBSET Ids(pending) : landed' = landed \cup taken
  /\ failed' = failed + Len(pending)
  /\ UNCHANGED delivered
  /\ AfterPut

-----------------------------------------------------------------------------
(* Close: close(done), then wait for the worker or for the context.        *)
Close ==
  /\ closer = "none"
  /\ done' = TRUE /\ closer' = "waiting"
  /\ UNCHANGED <<events, logged, worker_vars, counters, emitted, sent, landed>>

CloseFinished ==
  /\ closer = "waiting" /\ worker = "exited"
  /\ closer' = "clean" /\ logged' = counters
  /\ UNCHANGED <<events, done, worker_vars, counters, emitted, sent, landed>>

CloseExpired ==
  /\ closer = "waiting"
  /\ closer' = "expired"
  /\ UNCHANGED <<events, logged, done, worker_vars, counters, emitted, sent, landed>>

-----------------------------------------------------------------------------
Put    == PutAnswered \/ PutFailed
Worker == Receive \/ Tick \/ SeeDone \/ Drained \/ Put

(* After Close there is nothing left to do once the worker has returned.   *)
Stopped == worker = "exited" /\ closer \in {"clean", "expired"} /\ UNCHANGED vars

(* Any goroutine may call Emit at any time, and Close is called once.      *)
Next == \/ \E size \in Sizes : Emit(size)
        \/ Worker
        \/ Close \/ CloseFinished \/ CloseExpired
        \/ Stopped

(* The scheduler runs the worker, a select picks among its ready cases at  *)
(* random, the call of PutRecordBatch has a deadline of its own.           *)
WorkerFairness == /\ WF_vars(Put) /\ WF_vars(Drained) /\ WF_vars(Receive)
                  /\ SF_vars(Tick) /\ SF_vars(SeeDone)

Fairness == WorkerFairness /\ WF_vars(CloseFinished)

Spec     == Init /\ [][Next]_vars
FairSpec == Spec /\ Fairness

-----------------------------------------------------------------------------
SequenceTypes ==
  /\ events \in Seq(Event) /\ Len(events) <= BufferSize
  /\ held \in Seq(Event) /\ Len(held) <= 1
  /\ pending \in Seq(Event)
  /\ sent \in Seq(Event)

CounterTypes ==
  /\ pendingBytes \in Nat
  /\ dropped \in Nat /\ delivered \in Nat /\ failed \in Nat
  /\ emitted \in 0..MaxEmits
  /\ landed \subseteq 1..MaxEmits
  /\ logged \in Seq(Nat)

ControlTypes ==
  /\ done \in BOOLEAN
  /\ worker \in {"select", "drain", "put", "exited"}
  /\ resume \in {"select", "drain", "exited"}
  /\ closer \in {"none", "waiting", "clean", "expired"}

EmitterTypeOK == SequenceTypes /\ CounterTypes /\ ControlTypes

(* What run() has taken on but not passed to PutRecordBatch yet.           *)
unsent == IF worker = "put" THEN held ELSE pending

(* Every call of Emit ends up in exactly one place: the channel, the       *)
(* worker's hands, or one of the three counters.  Nothing is forgotten by  *)
(* a flush, by the two receive loops or by Close, and nothing is counted   *)
(* twice.                                                                  *)
Conservation ==
  emitted = Len(events) + Len(held) + Len(pending) + dropped + delivered + failed

(* Every batch handed to PutRecordBatch is inside the service's limits,    *)
(* by its real length and by the sum of its real sizes, which the worker   *)
(* only knows through a running total it resets by hand (firehose.go:17).  *)
BatchBytes(batch) ==
  LET upTo[n \in 0..Len(batch)] == IF n = 0 THEN 0 ELSE upTo[n - 1] + batch[n].size
  IN  upTo[Len(batch)]

BatchWithinLimits ==
  worker = "put" => /\ Len(pending) \in 1..MaxRecordsPerBatch
                    /\ BatchBytes(pending) <= MaxBatchBytes

(* The stream is offered each accepted event at most once and in the order *)
(* the events were accepted in, however flushes, held records and the      *)
(* drain loop interleave with new calls of Emit.                           *)
InOrder(s) == \A i, j \in DOMAIN s : i < j => s[i].id < s[j].id

SentInOrderOnce == InOrder(sent \o unsent \o events)

(* The counters bound what the stream took: everything counted delivered   *)
(* is in the lake, and what is there beyond that was counted as failed (a  *)
(* call that timed out after the stream had taken the batch).              *)
CountersBoundTheLake ==
  /\ delivered <= Cardinality(landed)
  /\ Cardinality(landed) <= delivered + failed
  /\ landed \subseteq Ids(sent)

(* The drain loop is over: the last flush is running, or run() returned.   *)
PastDraining == worker = "exited" \/ (worker = "put" /\ resume = "exited")

(* An event that is in the channel before the drain loop is over leaves    *)
(* the emitter: the ticker, the size limit or the drain loop gets it out,  *)
(* also when Close races with the call of Emit that queued it.  (One that  *)
(* comes during the last flush, which may take 15 seconds, stays behind.)  *)
QueuedEventLeaves ==
  \A n \in 1..MaxEmits :
    n \in Ids(events) /\ ~PastDraining
      ~> n \notin Ids(events \o held \o pending)

(* Once the producers have stopped (here: after MaxEmits calls; in the     *)
(* process: see Server's NoEmitAfterClose) the worker finds its way out of *)
(* its two loops, and Close need not wait for its deadline.                *)
DrainFinishes == done ~> worker = "exited"

=============================================================================
