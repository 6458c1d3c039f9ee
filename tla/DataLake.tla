------------------------------ MODULE DataLake ------------------------------
(***************************************************************************)
(* From the delivery stream to the table queries read: Firehose puts the   *)
(* records it took into objects under raw/, at least once; a nightly Glue  *)
(* job (infrastructure/modules/glue/etl/transactions_etl.py) folds the     *)
(* objects its bookmark has not passed into curated/; raw/ expires after   *)
(* some days.  The database is part of another stack, destroyed and made   *)
(* anew while the lake stays, and then its ids start over.                 *)
(*                                                                         *)
(* An event is [db, id]: which database it is from and the id it has       *)
(* there; the other fields go through unchanged.  Time is in days.         *)
(***************************************************************************)
EXTENDS Integers, Sequences, FiniteSets

CONSTANTS Retention,                        \* raw_retention_days
          MaxEvents, MaxDbs, MaxObjects, MaxDays  \* bounds

ASSUME LakeAssumption ==
  /\ Retention \in Nat \ {0}
  /\ MaxEvents \in Nat /\ MaxDbs \in Nat \ {0}
  /\ MaxObjects \in Nat /\ MaxDays \in Nat \ {0}

VARIABLES
  db, lastId,   \* the database in use and the last id it gave out
  taken,        \* how many events the stream ever took
  stream,       \* what Firehose has taken and still has to deliver
  raw,          \* the objects ever put under raw/: [events, landed, expired]
  passed,       \* the objects a committed run has read, each with its night
  curated,      \* the rows of curated/: [event, object, night]
  day,
  night,        \* what has become of the run of the day
  job,          \* the run: where it is, and the objects it reads
  failedNights  \* history

app_vars == <<db, lastId, taken>>
job_vars == <<passed, curated, night, job, failedNights>>
vars == <<app_vars, stream, raw, day, job_vars>>

Event == [db : 1..MaxDbs, id : 1..MaxEvents]

(* What Glue keeps; the nights are history.                                *)
bookmark == DOMAIN passed

NoJob == [pc |-> "none", input |-> {}]

Init ==
  /\ db = 1 /\ lastId = 0 /\ taken = 0
  /\ stream = {} /\ raw = <<>>
  /\ passed = [o \in {} |-> 0] /\ curated = {}
  /\ day = 1 /\ night = "due" /\ job = NoJob /\ failedNights = {}

-----------------------------------------------------------------------------
(* A transaction is committed and the stream takes its event, once: the    *)
(* emitter never sends an event again (Emitter's SentInOrderOnce).         *)
Accept ==
  /\ taken < MaxEvents
  /\ lastId' = lastId + 1 /\ taken' = taken + 1
  /\ stream' = stream \cup {[db |-> db, id |-> lastId']}
  /\ UNCHANGED <<db, raw, day, job_vars>>

(* terraform destroy and apply of the compute stack: a new, empty database *)
(* beside the same stream and the same lake.                               *)
Redeploy ==
  /\ db < MaxDbs
  /\ db' = db + 1 /\ lastId' = 0
  /\ UNCHANGED <<taken, stream, raw, day, job_vars>>

(* Firehose flushes a buffer into an object.  If it is not sure of that it *)
(* keeps what it put, and puts it again.                                   *)
Deliver ==
  /\ Len(raw) < MaxObjects
  /\ \E batch \in SUBSET stream \ {{}} :
       /\ raw' = Append(raw, [events |-> batch, landed |-> day, expired |-> FALSE])
       /\ \/ stream' = stream \ batch
          \/ UNCHANGED stream
  /\ UNCHANGED <<app_vars, day, job_vars>>

(* It has exhausted its retries: the records go to errors/, which the job  *)
(* does not read.                                                          *)
GiveUp ==
  /\ \E batch \in SUBSET stream \ {{}} : stream' = stream \ batch
  /\ UNCHANGED <<app_vars, raw, day, job_vars>>

-----------------------------------------------------------------------------
(* The lines of these objects.                                             *)
RecordsIn(objects) ==
  UNION {{[event |-> e, object |-> o] : e \in raw[o].events} : o \in objects}

At(pc) == job.pc = pc

(* Mutant: only what came since the run before is read, as the description *)
(* of the schedule ("the previous day's raw transactions") would have it.  *)
Unread_OfLastDay ==
  {o \in DOMAIN raw : raw[o].landed >= day - 1 /\ ~raw[o].expired} \ bookmark

(* Mutant: the read carries no transformation_ctx.                         *)
Unread_WithoutContext == {o \in DOMAIN raw : ~raw[o].expired}

(* The objects a bookmarked read comes back with.                          *)
Unread == {o \in DOMAIN raw : ~raw[o].expired} \ bookmark

(* job.init and the bookmarked read, which fixes the objects of the run.   *)
(* With nothing to read the run goes straight to its commit.               *)
StartRun ==
  /\ night = "due" /\ At("none")
  /\ night' = "running"
  /\ job' = [job EXCEPT !.pc = IF Unread = {} THEN "commit" ELSE "write",
                        !.input = Unread]
  /\ UNCHANGED <<app_vars, stream, raw, day, passed, curated, failedNights>>

(* dropDuplicates(["id"]): one record of each id, whichever.               *)
KeptOf(records) ==
  {kept \in SUBSET records :
     /\ {r.event.id : r \in kept} = {r.event.id : r \in records}
     /\ \A r, s \in kept : r.event.id = s.event.id => r = s}

(* The run appends these records to curated/.                              *)
Write(records) ==
  curated' = curated \cup {[event |-> r.event, object |-> r.object, night |-> day] :
                             r \in records}

WriteAll ==
  /\ At("write")
  /\ \E kept \in KeptOf(RecordsIn(job.input)) : Write(kept)
  /\ job' = [job EXCEPT !.pc = "commit"]
  /\ UNCHANGED <<app_vars, stream, raw, day, passed, night, failedNights>>

Pass(objects) ==
  passed' = [o \in bookmark \cup objects |-> IF o \in objects THEN day ELSE passed[o]]

(* job.commit(): the bookmark passes what the run has read.                *)
Commit ==
  /\ At("commit")
  /\ Pass(job.input)
  /\ job' = NoJob /\ night' = "succeeded"
  /\ UNCHANGED <<app_vars, stream, raw, day, curated, failedNights>>

(* Mutant: the script commits on its way out whatever happened.            *)
FailRun_Commits ==
  /\ job.pc \in {"write", "commit"}
  /\ \/ UNCHANGED curated
     \/ At("write") /\ \E kept \in KeptOf(RecordsIn(job.input)) :
                        \E done \in SUBSET kept : Write(done)
  /\ Pass(job.input)
  /\ job' = NoJob /\ night' = "failed" /\ failedNights' = failedNights \cup {day}
  /\ UNCHANGED <<app_vars, stream, raw, day>>

(* The run fails or is stopped by its timeout.  There is a file for every  *)
(* date and category; any of them may be there already.  The job is not    *)
(* tried again before the next night.                                      *)
FailRun ==
  /\ job.pc \in {"write", "commit"}
  /\ \/ UNCHANGED curated
     \/ At("write") /\ \E kept \in KeptOf(RecordsIn(job.input)) :
                        \E done \in SUBSET kept : Write(done)
  /\ job' = NoJob /\ night' = "failed" /\ failedNights' = failedNights \cup {day}
  /\ UNCHANGED <<app_vars, stream, raw, day, passed>>

(* The scheduler cannot start the job, neither at once nor on its retry.   *)
MissRun ==
  /\ night = "due"
  /\ night' = "failed" /\ failedNights' = failedNights \cup {day}
  /\ UNCHANGED <<app_vars, stream, raw, day, passed, curated, job>>

(* Mutant: the job has no timeout, and a run is still on the next night.   *)
NextDay_WhileRunning ==
  /\ day < MaxDays /\ night # "due"
  /\ day' = day + 1 /\ night' = "due"
  /\ raw' = [o \in DOMAIN raw |->
       [raw[o] EXCEPT !.expired = @ \/ day' - raw[o].landed >= Retention]]
  /\ UNCHANGED <<app_vars, stream, passed, curated, job, failedNights>>

(* The night's run is over long before the next one.  Objects go when they *)
(* are Retention days old, read or not.                                    *)
NextDay ==
  /\ day < MaxDays /\ night \in {"succeeded", "failed"}
  /\ day' = day + 1 /\ night' = "due"
  /\ raw' = [o \in DOMAIN raw |->
       [raw[o] EXCEPT !.expired = @ \/ day' - raw[o].landed >= Retention]]
  /\ UNCHANGED <<app_vars, stream, passed, curated, job, failedNights>>

(* The days the model follows are over.                                    *)
Over == day = MaxDays /\ night \in {"succeeded", "failed"} /\ UNCHANGED vars

Next ==
  \/ Accept \/ Redeploy
  \/ Deliver \/ GiveUp
  \/ StartRun \/ WriteAll \/ Commit \/ FailRun \/ MissRun
  \/ NextDay \/ Over

Spec == Init /\ [][Next]_vars

-----------------------------------------------------------------------------
TypeOK ==
  /\ db \in 1..MaxDbs /\ lastId \in 0..taken /\ taken \in 0..MaxEvents
  /\ stream \subseteq Event
  /\ raw \in Seq([events : SUBSET Event, landed : 1..MaxDays, expired : BOOLEAN])
  /\ Len(raw) <= MaxObjects
  /\ bookmark \subseteq DOMAIN raw /\ passed \in [bookmark -> 1..day]
  /\ job.input \subseteq DOMAIN raw
  /\ job.pc \in {"none", "write", "commit"} /\ (At("none") <=> night # "running")
  /\ curated \subseteq [event : Event, object : DOMAIN raw, night : 1..day]
  /\ day \in 1..MaxDays /\ failedNights \subseteq 1..day
  /\ night \in {"due", "running", "succeeded", "failed"}

(* What the bookmark has passed is in the table, through failed runs and   *)
(* half-written ones, by the very run that passed it.  That run leaves a   *)
(* record out only for another of its id, from another database, which it  *)
(* wrote itself.                                                           *)
PassedIsInTable ==
  \A o \in bookmark : \A e \in raw[o].events :
    \E row \in curated :
      /\ row.night = passed[o]
      /\ row.event = e \/ (row.event.id = e.id /\ row.event.db # e.db)

(* transactions_etl.py:8 - the bookmark is what keeps runs from adding the *)
(* same rows again: a transaction has no more rows than Firehose delivered *)
(* objects with it, plus one for every run that failed after it had        *)
(* written that transaction.                                               *)
CopiesAreExplained ==
  \A e \in UNION {raw[o].events : o \in DOMAIN raw} :
    Cardinality({row \in curated : row.event = e})
      <= Cardinality({o \in DOMAIN raw : e \in raw[o].events})
         + Cardinality({d \in failedNights :
                          \E row \in curated : row.event = e /\ row.night = d})

(* transactions_etl.py:89 - "curated/ is meant to be one row per           *)
(* transaction": no transaction is left out of what the bookmark passed.   *)
NoTransactionIsDropped ==
  \A o \in bookmark : \A e \in raw[o].events : \E row \in curated : row.event = e

(* iam.tf:134 - "bookmarks mean nothing is lost by waiting": an object     *)
(* expires unread only if every nightly run since the one of the day it    *)
(* landed has failed.                                                      *)
NothingIsLostByWaiting ==
  \A o \in DOMAIN raw :
    raw[o].expired /\ o \notin bookmark =>
      raw[o].landed + 1 .. raw[o].landed + Retention - 1 \subseteq failedNights

=============================================================================
