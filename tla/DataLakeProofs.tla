--------------------------- MODULE DataLakeProofs ---------------------------
(***************************************************************************)
(* Proofs about DataLake for any retention and any number of events,       *)
(* databases, objects and nights.                                          *)
(***************************************************************************)
EXTENDS DataLake, FiniteSetTheorems, SequenceTheorems, TLAPS

(* The bookmark is the domain of passed in everything below.              *)
USE DEF bookmark

Object == [events : SUBSET Event, landed : 1..MaxDays, expired : BOOLEAN]

Types ==
  /\ TypeOK
  /\ job \in [pc : {"none", "write", "commit"}, input : SUBSET DOMAIN raw]

(* What is known of the day's run.                                         *)
Nightly ==
  /\ day \in failedNights <=> night = "failed"
  /\ night = "due" \/ At("write") => \A row \in curated : row.night < day
  /\ job.input \cap bookmark = {}

(* A row is a line of an object.  Unless its run failed, the bookmark has  *)
(* passed that object, or is going to with the run that is on.             *)
Origin ==
  \A row \in curated :
    /\ row.event \in raw[row.object].events
    /\ row.night \notin failedNights =>
         \/ row.object \in bookmark
         \/ night = "running" /\ row.night = day /\ row.object \in job.input

(* A run writes an event once, and no two runs that did not fail write it  *)
(* from one object.                                                        *)
Unrepeated ==
  \A r, s \in curated :
    /\ r.event = s.event /\ r.night = s.night => r = s
    /\ r.event = s.event /\ r.object = s.object
       /\ r.night \notin failedNights /\ s.night \notin failedNights => r = s

(* The row stands for the event.                                           *)
StandsFor(row, e) == row.event = e \/ (row.event.id = e.id /\ row.event.db # e.db)

(* What was passed was written by the run that passed it, what is about   *)
(* to be passed by the run that is on.                                     *)
Passed ==
  /\ \A o \in bookmark : \A e \in raw[o].events : \E row \in curated :
       StandsFor(row, e) /\ row.night = passed[o]
  /\ At("commit") =>
       \A o \in job.input : \A e \in raw[o].events : \E row \in curated :
         StandsFor(row, e) /\ row.night = day

(* An object that was not passed: every run it was there for has failed,   *)
(* as long as it was there, and the one that is on has it.                 *)
Waiting ==
  \A o \in DOMAIN raw :
    /\ raw[o].landed <= day
    /\ raw[o].expired <=> day - raw[o].landed >= Retention
    /\ o \notin bookmark =>
         \A d \in raw[o].landed + 1 .. raw[o].landed + Retention - 1 :
           /\ d < day => d \in failedNights
           /\ d = day /\ night = "running" => o \in job.input
           /\ d = day => night # "succeeded"

IInv == Types /\ Nightly /\ Origin /\ Unrepeated /\ Passed /\ Waiting

-----------------------------------------------------------------------------
(* Init.                                                                   *)
LEMMA InitIInv == Init => IInv
<1>. SUFFICES ASSUME Init PROVE IInv
  OBVIOUS
<1>. USE LakeAssumption, EmptySeq
<1>1. Types
  BY DEF Init, Types, TypeOK, NoJob, At
<1>2. Nightly /\ Origin /\ Unrepeated /\ Passed /\ Waiting
  BY DEF Init, Nightly, Origin, Unrepeated, Passed, Waiting, NoJob, At
<1>. QED  BY <1>1, <1>2 DEF IInv

LEMMA ObjectTypes ==
  ASSUME Types
  PROVE  /\ raw \in Seq(Object) /\ Len(raw) \in Nat /\ DOMAIN raw = 1..Len(raw)
         /\ \A o \in DOMAIN raw : raw[o] \in Object /\ raw[o].landed \in Nat
                               /\ raw[o].events \subseteq Event
         /\ day \in Nat
<1>1. raw \in Seq(Object)
  BY DEF Types, TypeOK, Object
<1>2. Len(raw) \in Nat /\ DOMAIN raw = 1..Len(raw) /\ \A o \in DOMAIN raw : raw[o] \in Object
  BY <1>1, LenProperties, ElementOfSeq
<1>. QED  BY <1>1, <1>2 DEF Types, TypeOK, Object

(* Steps of the application and of the stream that touch no object.        *)
LEMMA StreamStep ==
  ASSUME IInv, Accept \/ Redeploy \/ GiveUp
  PROVE  IInv'
<1>1. UNCHANGED <<raw, day>> /\ UNCHANGED <<passed, curated, night, job, failedNights>>
  BY DEF Accept, Redeploy, GiveUp, job_vars
<1>2. /\ db' \in 1..MaxDbs /\ lastId' \in 0..taken' /\ taken' \in 0..MaxEvents
      /\ stream' \subseteq Event
  <2>1. CASE Accept
    <3>1. lastId' \in 1..MaxEvents /\ lastId' <= taken' /\ taken' \in 0..MaxEvents
      BY <2>1, LakeAssumption DEF Accept, IInv, Types, TypeOK
    <3>2. [db |-> db, id |-> lastId'] \in Event
      BY <3>1, LakeAssumption DEF Event, IInv, Types, TypeOK
    <3>3. stream' \subseteq Event
      BY <2>1, <3>2 DEF Accept, IInv, Types, TypeOK
    <3>. QED  BY <2>1, <3>1, <3>3 DEF Accept, IInv, Types, TypeOK
  <2>2. CASE Redeploy
    <3>1. db' \in 1..MaxDbs /\ lastId' = 0 /\ taken' = taken /\ stream' = stream
      BY <2>2, LakeAssumption DEF Redeploy, IInv, Types, TypeOK
    <3>. QED  BY <3>1 DEF IInv, Types, TypeOK
  <2>3. CASE GiveUp
    BY <2>3 DEF GiveUp, IInv, Types, TypeOK, app_vars
  <2>. QED  BY <2>1, <2>2, <2>3
<1>3. Types'
  BY <1>1, <1>2 DEF IInv, Types, TypeOK, At
<1>. QED
  BY <1>1, <1>3 DEF IInv, Nightly, Origin, Unrepeated, Passed, Waiting, At, StandsFor

(* A delivery adds an object that no run has seen.                         *)
LEMMA DeliverStep ==
  ASSUME IInv, Deliver
  PROVE  IInv'
<1>. USE LakeAssumption
<1>1. PICK batch \in SUBSET stream \ {{}} :
        /\ raw' = Append(raw, [events |-> batch, landed |-> day, expired |-> FALSE])
        /\ stream' \in {stream \ batch, stream}
  BY DEF Deliver
<1>. DEFINE new == [events |-> batch, landed |-> day, expired |-> FALSE]
            n   == Len(raw) + 1
<1>2. UNCHANGED <<app_vars, day, passed, curated, night, job, failedNights>>
      /\ Len(raw) < MaxObjects
  BY DEF Deliver, job_vars
<1>3. raw \in Seq(Object) /\ new \in Object
  BY <1>1 DEF IInv, Types, TypeOK, Object
<1>. HIDE DEF new
<1>4. /\ raw' \in Seq(Object) /\ Len(raw) \in Nat /\ DOMAIN raw = 1..Len(raw)
      /\ Len(raw') = n /\ DOMAIN raw' = 1..n
      /\ \A o \in DOMAIN raw : raw'[o] = raw[o]
      /\ raw'[n] = new
  BY <1>1, <1>3, AppendProperties, LenProperties DEF new
<1>5. new.landed = day /\ new.expired = FALSE
  BY DEF new
<1>6. Types'
  BY <1>1, <1>2, <1>4, SMTT(30) DEF IInv, Types, TypeOK, Object, app_vars, At
<1>7. DOMAIN raw \subseteq DOMAIN raw' /\ \A o \in DOMAIN raw' : o \in DOMAIN raw \/ o = n
  BY <1>4
<1>8. n \notin DOMAIN raw /\ bookmark \subseteq DOMAIN raw /\ job.input \subseteq DOMAIN raw
      /\ \A row \in curated : row.object \in DOMAIN raw
  BY <1>4 DEF IInv, Types, TypeOK
<1>9. Nightly' /\ Unrepeated'
  BY <1>2 DEF IInv, Nightly, Unrepeated, At
<1>10. Origin' /\ Passed'
  BY <1>2, <1>4, <1>8 DEF IInv, Origin, Passed, At, StandsFor
<1>11. Waiting'
  <2>1. day \in Nat
    BY DEF IInv, Types, TypeOK
  <2>2. ASSUME NEW o \in DOMAIN raw
        PROVE  /\ raw'[o].landed <= day
               /\ raw'[o].expired <=> day - raw'[o].landed >= Retention
               /\ o \notin bookmark =>
                    \A d \in raw'[o].landed + 1 .. raw'[o].landed + Retention - 1 :
                      /\ d < day => d \in failedNights
                      /\ d = day /\ night = "running" => o \in job.input
                      /\ d = day => night # "succeeded"
    BY <1>4 DEF IInv, Waiting
  <2>3. /\ raw'[n].landed <= day
        /\ raw'[n].expired <=> day - raw'[n].landed >= Retention
        /\ \A d \in raw'[n].landed + 1 .. raw'[n].landed + Retention - 1 : ~(d <= day)
    BY <1>4, <1>5, <2>1
  <2>. QED  BY <1>2, <1>7, <2>1, <2>2, <2>3 DEF Waiting
<1>. QED  BY <1>6, <1>9, <1>10, <1>11 DEF IInv

(* The run of the day begins and takes every object that is there unread.  *)
LEMMA StartRunStep ==
  ASSUME IInv, StartRun
  PROVE  IInv'
<1>1. /\ night = "due" /\ night' = "running" /\ job.pc = "none"
      /\ job' = [job EXCEPT !.pc = IF Unread = {} THEN "commit" ELSE "write",
                            !.input = Unread]
      /\ UNCHANGED <<app_vars, stream, raw, day, passed, curated, failedNights>>
  BY DEF StartRun, At
<1>2. Unread \subseteq DOMAIN raw /\ Unread \cap bookmark = {}
  BY DEF Unread
<1>3. /\ job' \in [pc : {"none", "write", "commit"}, input : SUBSET DOMAIN raw]
      /\ job'.input = Unread /\ job'.pc = IF Unread = {} THEN "commit" ELSE "write"
  <2>. DEFINE x == IF Unread = {} THEN "commit" ELSE "write"
              p == [job EXCEPT !.pc = x]
  <2>1. job \in [pc : {"none", "write", "commit"}, input : SUBSET DOMAIN raw]
        /\ x \in {"write", "commit"}
    BY DEF IInv, Types
  <2>. HIDE DEF x
  <2>2. p \in [pc : {"none", "write", "commit"}, input : SUBSET DOMAIN raw] /\ p.pc = x
    BY <2>1
  <2>3. job' = [p EXCEPT !.input = Unread]
    BY <1>1 DEF x
  <2>. HIDE DEF p
  <2>. QED  BY <1>2, <2>2, <2>3 DEF x
<1>4. Types'
  BY <1>1, <1>2, <1>3 DEF IInv, Types, TypeOK, app_vars, At
<1>5. Nightly'
  BY <1>1, <1>2, <1>3 DEF IInv, Nightly, At
<1>6. Origin' /\ Unrepeated'
  BY <1>1 DEF IInv, Origin, Unrepeated
<1>7. Passed'
  <2>1. job'.pc = "commit" => job'.input = {}
    BY <1>3
  <2>2. night # "succeeded"
    BY <1>1
  <2>. QED  BY <1>1, <2>1, <2>2 DEF IInv, Passed, At, StandsFor
<1>8. Waiting'
  <2>1. ASSUME NEW o \in DOMAIN raw, o \notin bookmark,
               NEW d \in raw[o].landed + 1 .. raw[o].landed + Retention - 1, d = day
        PROVE  o \in Unread
    <3>1. ~raw[o].expired
      <4>1. raw[o].landed \in Nat /\ day \in Nat
        BY ObjectTypes DEF IInv
      <4>. QED  BY <2>1, <4>1, LakeAssumption DEF IInv, Waiting
    <3>. QED  BY <2>1, <3>1 DEF Unread
  <2>. QED  BY <1>1, <1>3, <2>1 DEF IInv, Waiting
<1>. QED  BY <1>4, <1>5, <1>6, <1>7, <1>8 DEF IInv

-----------------------------------------------------------------------------
(* What a run adds to the table, all of it or a part.  It stems from the   *)
(* objects of the run, and has an event once.                              *)
LEMMA WriteAdds ==
  ASSUME IInv, At("write"), NEW kept \in KeptOf(RecordsIn(job.input)),
         NEW part \in SUBSET kept, Write(part)
  PROVE  /\ curated \subseteq curated'
         /\ \A row \in curated' \ curated :
              /\ row \in [event : Event, object : DOMAIN raw, night : 1..day]
              /\ row.night = day /\ row.object \in job.input
              /\ row.event \in raw[row.object].events
         /\ \A r, s \in curated' \ curated : r.event = s.event => r = s
         /\ \A r \in part : \E row \in curated' : row.event = r.event /\ row.night = day
<1>. DEFINE RowFor(r) == [event |-> r.event, object |-> r.object, night |-> day]
<1>1. curated' = curated \cup {RowFor(r) : r \in part}
  BY DEF Write
<1>2. kept \subseteq RecordsIn(job.input) /\ \A r, s \in kept : r.event.id = s.event.id => r = s
  BY DEF KeptOf
<1>3. ASSUME NEW r \in part
      PROVE  r.object \in job.input /\ r.event \in raw[r.object].events
  BY <1>2 DEF RecordsIn
<1>4. job.input \subseteq DOMAIN raw /\ day \in 1..day
  BY ObjectTypes DEF IInv, Types, TypeOK
<1>5. \A r \in part : r.event \in Event
  BY <1>3, <1>4, ObjectTypes DEF IInv
<1>6. \A r \in part : RowFor(r).event = r.event /\ RowFor(r).object = r.object
                      /\ RowFor(r).night = day
  OBVIOUS
<1>7. \A r \in part : RowFor(r) \in [event : Event, object : DOMAIN raw, night : 1..day]
  BY <1>3, <1>4, <1>5
<1>. HIDE DEF RowFor
<1>8. \A row \in curated' \ curated : \E r \in part : row = RowFor(r)
  BY <1>1
<1>9. \A r, s \in curated' \ curated : r.event = s.event => r = s
  <2>1. SUFFICES ASSUME NEW p \in part, NEW q \in part, RowFor(p).event = RowFor(q).event
                 PROVE  RowFor(p) = RowFor(q)
    BY <1>8
  <2>2. p = q
    BY <1>2, <1>6, <2>1
  <2>. QED  BY <2>2
<1>10. \A row \in curated' \ curated :
         /\ row \in [event : Event, object : DOMAIN raw, night : 1..day]
         /\ row.night = day /\ row.object \in job.input
         /\ row.event \in raw[row.object].events
  BY <1>3, <1>6, <1>7, <1>8
<1>. QED  BY <1>1, <1>6, <1>9, <1>10

(* It repeats nothing that a run has written which did not fail: what such *)
(* a run read has been passed.                                             *)
LEMMA WriteRepeatsNothing ==
  ASSUME IInv, At("write"), NEW kept \in KeptOf(RecordsIn(job.input)),
         NEW part \in SUBSET kept, Write(part), failedNights \subseteq failedNights'
  PROVE  Unrepeated'
<1>1. SUFFICES ASSUME NEW r \in curated', NEW s \in curated', r.event = s.event,
                      \/ r.night = s.night
                      \/ r.object = s.object /\ r.night \notin failedNights
                         /\ s.night \notin failedNights
               PROVE  r = s
  BY DEF Unrepeated
<1>2. CASE r \in curated /\ s \in curated
  BY <1>1, <1>2 DEF IInv, Unrepeated
<1>3. CASE r \notin curated /\ s \notin curated
  BY <1>1, <1>3, WriteAdds
<1>4. ASSUME NEW old \in curated, NEW new \in curated' \ curated
      PROVE  /\ old.night # new.night
             /\ old.night \notin failedNights => old.object # new.object
  <2>1. new.night = day /\ new.object \in job.input
    BY WriteAdds
  <2>2. old.night < day /\ old.night \in 1..day
    BY DEF IInv, Nightly, Types, TypeOK
  <2>3. old.night # day
    BY <2>2, ObjectTypes DEF IInv
  <2>4. old.night \notin failedNights => old.object \in bookmark
    BY <2>3 DEF IInv, Origin
  <2>. QED  BY <2>1, <2>3, <2>4 DEF IInv, Nightly
<1>. QED  BY <1>1, <1>2, <1>3, <1>4

LEMMA WriteAllStep ==
  ASSUME IInv, WriteAll
  PROVE  IInv'
<1>1. PICK kept \in KeptOf(RecordsIn(job.input)) : Write(kept)
  BY DEF WriteAll
<1>2. /\ At("write") /\ job' = [job EXCEPT !.pc = "commit"] /\ night = "running"
      /\ UNCHANGED <<app_vars, stream, raw, day, passed, night, failedNights>>
  BY DEF WriteAll, IInv, Types, TypeOK, At
<1>3. /\ job' \in [pc : {"none", "write", "commit"}, input : SUBSET DOMAIN raw]
      /\ job'.pc = "commit" /\ job'.input = job.input
  BY <1>2 DEF IInv, Types
<1>4. /\ curated \subseteq curated'
      /\ \A row \in curated' \ curated :
           /\ row \in [event : Event, object : DOMAIN raw, night : 1..day]
           /\ row.night = day /\ row.object \in job.input
           /\ row.event \in raw[row.object].events
      /\ \A r \in kept : \E row \in curated' : row.event = r.event /\ row.night = day
  BY <1>1, <1>2, WriteAdds
<1>5. Unrepeated'
  BY <1>1, <1>2, WriteRepeatsNothing
<1>6. Types'
  BY <1>2, <1>3, <1>4 DEF IInv, Types, TypeOK, app_vars, At
<1>7. Nightly'
  BY <1>2, <1>3 DEF IInv, Nightly, At
<1>8. Origin'
  BY <1>2, <1>3, <1>4 DEF IInv, Origin
<1>9. Passed'
  <2>1. ASSUME NEW o \in job.input, NEW e \in raw[o].events
        PROVE  \E row \in curated' : StandsFor(row, e) /\ row.night = day
    <3>1. [event |-> e, object |-> o] \in RecordsIn(job.input)
      BY DEF RecordsIn
    <3>2. PICK r \in kept : r.event.id = e.id
      BY <3>1 DEF KeptOf
    <3>3. PICK row \in curated' : row.event = r.event /\ row.night = day
      BY <1>4
    <3>4. row.event \in Event /\ e \in Event
      <4>1. row \in [event : Event, object : DOMAIN raw, night : 1..day]
        BY <1>4 DEF IInv, Types, TypeOK
      <4>2. o \in DOMAIN raw
        BY DEF IInv, Types, TypeOK
      <4>. QED  BY <4>1, <4>2, ObjectTypes DEF IInv
    <3>5. StandsFor(row, e)
      BY <3>2, <3>3, <3>4 DEF StandsFor, Event
    <3>. QED  BY <3>3, <3>5
  <2>2. ASSUME NEW o \in bookmark, NEW e \in raw[o].events
        PROVE  \E row \in curated' : StandsFor(row, e) /\ row.night = passed[o]
    BY <1>4 DEF IInv, Passed
  <2>. QED  BY <1>2, <1>3, <2>1, <2>2 DEF Passed, StandsFor
<1>10. Waiting'
  BY <1>2, <1>3 DEF IInv, Waiting
<1>. QED  BY <1>5, <1>6, <1>7, <1>8, <1>9, <1>10 DEF IInv

LEMMA CommitStep ==
  ASSUME IInv, Commit
  PROVE  IInv'
<1>1. /\ At("commit") /\ night = "running" /\ night' = "succeeded"
      /\ Pass(job.input) /\ job' = NoJob
      /\ UNCHANGED <<app_vars, stream, raw, day, curated, failedNights>>
  BY DEF Commit, IInv, Types, TypeOK, At
<1>2. /\ bookmark' = bookmark \cup job.input
      /\ \A o \in job.input : passed'[o] = day
      /\ \A o \in bookmark : passed'[o] = passed[o]
      /\ passed' \in [bookmark' -> 1..day]
  <2>1. day \in 1..day /\ passed \in [bookmark -> 1..day] /\ job.input \cap bookmark = {}
    BY ObjectTypes DEF IInv, Types, TypeOK, Nightly
  <2>. QED  BY <1>1, <2>1 DEF Pass
<1>3. job' \in [pc : {"none", "write", "commit"}, input : SUBSET DOMAIN raw]
      /\ job'.pc = "none" /\ job'.input = {}
  BY <1>1 DEF NoJob
<1>4. day \notin failedNights
  BY <1>1 DEF IInv, Nightly
<1>5. Types'
  BY <1>1, <1>2, <1>3 DEF IInv, Types, TypeOK, app_vars, At
<1>6. Nightly'
  BY <1>1, <1>3, <1>4 DEF Nightly, At
<1>7. Origin' /\ Unrepeated'
  BY <1>1, <1>2 DEF IInv, Origin, Unrepeated
<1>8. Passed'
  <2>1. ASSUME NEW o \in job.input, NEW e \in raw[o].events
        PROVE  \E row \in curated : StandsFor(row, e) /\ row.night = passed'[o]
    BY <1>1, <1>2 DEF IInv, Passed
  <2>2. ASSUME NEW o \in bookmark, NEW e \in raw[o].events
        PROVE  \E row \in curated : StandsFor(row, e) /\ row.night = passed'[o]
    BY <1>2 DEF IInv, Passed
  <2>. QED  BY <1>1, <1>2, <1>3, <2>1, <2>2 DEF Passed, StandsFor, At
<1>9. Waiting'
  BY <1>1, <1>2, <1>3 DEF IInv, Waiting
<1>. QED  BY <1>5, <1>6, <1>7, <1>8, <1>9 DEF IInv

(* A run that fails, or does not take place, passes nothing.               *)
LEMMA NightFails ==
  ASSUME IInv, night \in {"due", "running"}, night' = "failed",
         failedNights' = failedNights \cup {day},
         job' \in [pc : {"none", "write", "commit"}, input : SUBSET DOMAIN raw],
         job'.pc = "none", job'.input \cap bookmark = {},
         UNCHANGED <<app_vars, stream, raw, day, passed>>,
         curated \subseteq curated',
         \A row \in curated' \ curated :
            /\ row \in [event : Event, object : DOMAIN raw, night : 1..day]
            /\ row.night = day /\ row.event \in raw[row.object].events,
         Unrepeated'
  PROVE  IInv'
<1>1. Types'
  BY ObjectTypes, SMTT(30) DEF IInv, Types, TypeOK, app_vars, At
<1>2. Nightly'
  BY DEF IInv, Nightly, At
<1>3. Origin'
  BY DEF IInv, Origin
<1>4. Passed'
  <2>1. ASSUME NEW o \in bookmark, NEW e \in raw[o].events
        PROVE  \E row \in curated' : StandsFor(row, e) /\ row.night = passed[o]
    BY DEF IInv, Passed
  <2>. QED  BY <2>1 DEF Passed, StandsFor, At
<1>5. Waiting'
  BY DEF IInv, Waiting
<1>. QED  BY <1>1, <1>2, <1>3, <1>4, <1>5 DEF IInv

LEMMA FailRunStep ==
  ASSUME IInv, FailRun
  PROVE  IInv'
<1>1. /\ job.pc \in {"write", "commit"} /\ night = "running" /\ night' = "failed"
      /\ job' = NoJob /\ failedNights' = failedNights \cup {day}
      /\ UNCHANGED <<app_vars, stream, raw, day, passed>>
  BY DEF FailRun, IInv, Types, TypeOK, At
<1>2. job' \in [pc : {"none", "write", "commit"}, input : SUBSET DOMAIN raw]
      /\ job'.pc = "none" /\ job'.input = {}
  BY <1>1 DEF NoJob
<1>3. CASE UNCHANGED curated
  <2>1. Unrepeated'
    BY <1>1, <1>3 DEF IInv, Unrepeated
  <2>. QED  BY <1>1, <1>2, <1>3, <2>1, NightFails
<1>4. CASE At("write") /\ \E kept \in KeptOf(RecordsIn(job.input)) :
                            \E part \in SUBSET kept : Write(part)
  <2>1. PICK kept \in KeptOf(RecordsIn(job.input)) : \E part \in SUBSET kept : Write(part)
    BY <1>4
  <2>2. PICK part \in SUBSET kept : Write(part)
    BY <2>1
  <2>3. Unrepeated'
    BY <1>1, <1>4, <2>1, <2>2, WriteRepeatsNothing
  <2>4. /\ curated \subseteq curated'
        /\ \A row \in curated' \ curated :
             /\ row \in [event : Event, object : DOMAIN raw, night : 1..day]
             /\ row.night = day /\ row.event \in raw[row.object].events
    BY <1>4, <2>1, <2>2, WriteAdds
  <2>. QED  BY <1>1, <1>2, <2>3, <2>4, NightFails
<1>. QED  BY <1>3, <1>4 DEF FailRun

LEMMA MissRunStep ==
  ASSUME IInv, MissRun
  PROVE  IInv'
<1>1. /\ night = "due" /\ night' = "failed" /\ failedNights' = failedNights \cup {day}
      /\ UNCHANGED <<app_vars, stream, raw, day, passed, curated, job>>
  BY DEF MissRun
<1>2. job' \in [pc : {"none", "write", "commit"}, input : SUBSET DOMAIN raw]
      /\ job'.pc = "none" /\ job'.input \cap bookmark = {}
  BY <1>1 DEF IInv, Types, TypeOK, Nightly, At
<1>3. Unrepeated'
  BY <1>1 DEF IInv, Unrepeated
<1>. QED  BY <1>1, <1>2, <1>3, NightFails

(* The next day: objects that are old enough go, read or not.              *)
LEMMA NextDayStep ==
  ASSUME IInv, NextDay
  PROVE  IInv'
<1>. USE LakeAssumption
<1>0. raw' = [o \in DOMAIN raw |->
                [raw[o] EXCEPT !.expired = raw[o].expired \/ day' - raw[o].landed >= Retention]]
  BY DEF NextDay
<1>1. /\ day < MaxDays /\ night \in {"succeeded", "failed"} /\ day' = day + 1 /\ night' = "due"
      /\ UNCHANGED <<app_vars, stream, passed, curated, job, failedNights>>
  BY DEF NextDay
<1>2. ASSUME NEW o \in DOMAIN raw
      PROVE  /\ raw'[o] \in Object
             /\ raw'[o].events = raw[o].events /\ raw'[o].landed = raw[o].landed
             /\ raw'[o].expired <=> raw[o].expired \/ day' - raw[o].landed >= Retention
  <2>1. raw[o] \in Object
    BY ObjectTypes DEF IInv
  <2>2. PICK x \in BOOLEAN : x = (raw[o].expired \/ day' - raw[o].landed >= Retention)
    OBVIOUS
  <2>3. raw'[o] = [raw[o] EXCEPT !.expired = x]
    BY <1>0, <2>2
  <2>. QED  BY <2>1, <2>2, <2>3 DEF Object
<1>3. raw' \in Seq(Object) /\ Len(raw') = Len(raw) /\ DOMAIN raw' = DOMAIN raw
  <2>1. Len(raw) \in Nat /\ DOMAIN raw = 1..Len(raw)
    BY ObjectTypes DEF IInv
  <2>2. raw' \in [1..Len(raw) -> Object]
    BY <1>0, <1>2, <2>1
  <2>3. raw' \in Seq(Object)
    BY <2>1, <2>2, SeqDef
  <2>. QED  BY <2>1, <2>2, <2>3, LenProperties
<1>4. day \in Nat /\ \A row \in curated : row.night \in 1..day
  BY ObjectTypes DEF IInv, Types, TypeOK
<1>5. Types'
  <2>1. 1..day \subseteq 1..day' /\ day' \in 1..MaxDays
    BY <1>1, <1>4
  <2>. QED  BY <1>1, <1>3, <2>1 DEF IInv, Types, TypeOK, Object, app_vars, At
<1>6. Nightly'
  BY <1>1, <1>4 DEF IInv, Nightly, At, Types, TypeOK
<1>7. Origin'
  BY <1>1, <1>2 DEF IInv, Origin, Types, TypeOK
<1>8. Unrepeated'
  BY <1>1 DEF IInv, Unrepeated
<1>9. Passed'
  <2>1. bookmark \subseteq DOMAIN raw /\ job.pc = "none"
    BY <1>1 DEF IInv, Types, TypeOK, At
  <2>2. ASSUME NEW o \in bookmark, NEW e \in raw'[o].events
        PROVE  \E row \in curated : StandsFor(row, e) /\ row.night = passed[o]
    <3>1. e \in raw[o].events
      BY <1>2, <2>1, <2>2
    <3>. QED  BY <3>1 DEF IInv, Passed
  <2>. QED  BY <1>1, <2>1, <2>2 DEF Passed, At, StandsFor
<1>10. Waiting'
  <2>1. SUFFICES ASSUME NEW o \in DOMAIN raw
        PROVE  /\ raw[o].landed <= day'
               /\ raw'[o].expired <=> day' - raw[o].landed >= Retention
               /\ o \notin bookmark =>
                    \A d \in raw[o].landed + 1 .. raw[o].landed + Retention - 1 :
                      d < day' => d \in failedNights
    BY <1>1, <1>2, <1>3 DEF Waiting
  <2>2. raw[o].landed \in Nat
    BY ObjectTypes DEF IInv
  <2>3. raw[o].landed <= day /\ (raw[o].expired <=> day - raw[o].landed >= Retention)
    BY DEF IInv, Waiting
  <2>4. ASSUME o \notin bookmark,
               NEW d \in raw[o].landed + 1 .. raw[o].landed + Retention - 1, d < day'
        PROVE  d \in failedNights
    <3>1. CASE d < day
      BY <2>4, <3>1 DEF IInv, Waiting
    <3>2. CASE d = day
      <4>1. night = "failed"
        BY <1>1, <2>4, <3>2 DEF IInv, Waiting
      <4>. QED  BY <3>2, <4>1 DEF IInv, Nightly
    <3>. QED  BY <1>1, <1>4, <2>2, <2>4, <3>1, <3>2
  <2>5. raw'[o].expired <=> day' - raw[o].landed >= Retention
    <3>1. raw'[o].expired <=> raw[o].expired \/ day' - raw[o].landed >= Retention
      BY <1>2
    <3>. QED  BY <1>1, <1>4, <2>2, <2>3, <3>1
  <2>. QED  BY <1>1, <1>4, <2>2, <2>3, <2>4, <2>5
<1>. QED  BY <1>5, <1>6, <1>7, <1>8, <1>9, <1>10 DEF IInv

LEMMA NextIInv ==
  ASSUME IInv, [Next]_vars
  PROVE  IInv'
<1>1. CASE Accept \/ Redeploy \/ GiveUp
  BY <1>1, StreamStep
<1>2. CASE Deliver
  BY <1>2, DeliverStep
<1>3. CASE StartRun
  BY <1>3, StartRunStep
<1>4. CASE WriteAll
  BY <1>4, WriteAllStep
<1>5. CASE Commit
  BY <1>5, CommitStep
<1>6. CASE FailRun
  BY <1>6, FailRunStep
<1>7. CASE MissRun
  BY <1>7, MissRunStep
<1>8. CASE NextDay
  BY <1>8, NextDayStep
<1>9. CASE Over \/ UNCHANGED vars
  <2>1. UNCHANGED vars
    BY <1>9 DEF Over
  <2>2. UNCHANGED <<db, lastId, taken, stream, raw, day>>
        /\ UNCHANGED <<passed, curated, night, job, failedNights>>
    BY <2>1 DEF vars, app_vars, job_vars
  <2>3. Types' /\ Nightly'
    BY <2>2 DEF IInv, Types, TypeOK, Nightly, At
  <2>4. Origin' /\ Unrepeated' /\ Passed' /\ Waiting'
    BY <2>2 DEF IInv, Origin, Unrepeated, Passed, StandsFor, Waiting, At
  <2>. QED  BY <2>3, <2>4 DEF IInv
<1>. QED  BY <1>1, <1>2, <1>3, <1>4, <1>5, <1>6, <1>7, <1>8, <1>9 DEF Next

-----------------------------------------------------------------------------
(* The inductive invariant: the bookmark, the table, the run of the night  *)
(* and the ages of the objects fit together after every step, whatever     *)
(* fails and however the stream repeats itself.                            *)
THEOREM LakeInvariant == Spec => []IInv
<1>1. Init => IInv
  BY InitIInv
<1>2. IInv /\ [Next]_vars => IInv'
  BY NextIInv
<1>. QED  BY <1>1, <1>2, PTL DEF Spec

(* Type correctness: no run works on objects that were never put, and one  *)
(* is on exactly while the scheduler says so.                              *)
THEOREM LakeTypeCorrect == Spec => []TypeOK
<1>1. IInv => TypeOK
  BY DEF IInv, Types
<1>. QED  BY <1>1, LakeInvariant, PTL

(* transactions_etl.py, job.commit(): the run that passed an object has    *)
(* written each of its records, or in its place another of that id which   *)
(* is from another database.                                               *)
THEOREM WhatIsPassedIsInTable == Spec => []PassedIsInTable
<1>1. IInv => PassedIsInTable
  BY DEF IInv, Passed, StandsFor, PassedIsInTable
<1>. QED  BY <1>1, LakeInvariant, PTL

(* The lifecycle rule of raw/ takes an object no run has read only if the  *)
(* run of every night it was there for has failed.                         *)
THEOREM WaitingLosesNothing == Spec => []NothingIsLostByWaiting
<1>1. ASSUME IInv, NEW o \in DOMAIN raw, raw[o].expired, o \notin bookmark,
             NEW d \in raw[o].landed + 1 .. raw[o].landed + Retention - 1
      PROVE  d \in failedNights
  <2>1. raw[o].landed \in Nat /\ day \in Nat
    BY <1>1, ObjectTypes DEF IInv
  <2>2. day - raw[o].landed >= Retention
    BY <1>1 DEF IInv, Waiting
  <2>3. d < day
    BY <2>1, <2>2, LakeAssumption
  <2>. QED  BY <1>1, <2>3 DEF IInv, Waiting
<1>2. IInv => NothingIsLostByWaiting
  BY <1>1 DEF NothingIsLostByWaiting
<1>. QED  BY <1>2, LakeInvariant, PTL

-----------------------------------------------------------------------------
(* The objects with an event and nights that failed can be counted.        *)
LEMMA CountableHistory ==
  ASSUME IInv, NEW S \in SUBSET DOMAIN raw, NEW N \in SUBSET failedNights
  PROVE  IsFiniteSet(S) /\ IsFiniteSet(N)
<1>1. 1 \in Int /\ Len(raw) \in Int /\ day \in Int
      /\ S \subseteq 1..Len(raw) /\ N \subseteq 1..day
  BY ObjectTypes DEF IInv, Types, TypeOK
<1>2. IsFiniteSet(1..Len(raw)) /\ IsFiniteSet(1..day)
  BY <1>1, FS_Interval, Zenon
<1>. QED  BY <1>1, <1>2, FS_Subset

(* The rows of an event that runs which did not fail wrote are from        *)
(* different objects with it, the others from different nights.            *)
LEMMA RowsOfAnEvent ==
  ASSUME IInv, NEW e
  PROVE  Cardinality({row \in curated : row.event = e})
           <= Cardinality({o \in DOMAIN raw : e \in raw[o].events})
              + Cardinality({d \in failedNights :
                               \E row \in curated : row.event = e /\ row.night = d})
<1>. DEFINE Rows    == {row \in curated : row.event = e}
            Objects == {o \in DOMAIN raw : e \in raw[o].events}
            Kept    == {row \in Rows : row.night \notin failedNights}
            Half    == {row \in Rows : row.night \in failedNights}
            Nights  == {d \in failedNights :
                          \E row \in curated : row.event = e /\ row.night = d}
            ByObject == [row \in Kept |-> row.object]
            ByNight  == [row \in Half |-> row.night]
<1>1. IsFiniteSet(Objects) /\ IsFiniteSet(Nights)
  BY CountableHistory
<1>2. ByObject \in Injection(Kept, Objects)
  <2>1. \A row \in Kept : row.object \in Objects
    BY DEF IInv, Types, TypeOK, Origin
  <2>2. \A r, s \in Kept : r.object = s.object => r = s
    BY DEF IInv, Unrepeated
  <2>. QED  BY <2>1, <2>2 DEF Injection, IsInjective
<1>3. ByNight \in Injection(Half, Nights)
  <2>1. \A r, s \in Half : r.night = s.night => r = s
    BY DEF IInv, Unrepeated
  <2>. QED  BY <2>1 DEF Injection, IsInjective
<1>. HIDE DEF Objects, Nights, ByObject, ByNight
<1>4. /\ IsFiniteSet(Kept) /\ Cardinality(Kept) <= Cardinality(Objects)
      /\ IsFiniteSet(Half) /\ Cardinality(Half) <= Cardinality(Nights)
  BY <1>1, <1>2, <1>3, FS_Injection
<1>5. Rows = Kept \cup Half
  OBVIOUS
<1>. HIDE DEF Rows, Kept, Half
<1>6. Cardinality(Rows) = Cardinality(Kept) + Cardinality(Half) - Cardinality(Kept \cap Half)
      /\ IsFiniteSet(Kept \cap Half)
  BY <1>4, <1>5, FS_Union, FS_Subset
<1>7. /\ Cardinality(Kept) \in Nat /\ Cardinality(Half) \in Nat
      /\ Cardinality(Kept \cap Half) \in Nat
      /\ Cardinality(Objects) \in Nat /\ Cardinality(Nights) \in Nat
  BY <1>1, <1>4, <1>6, FS_CardinalityType
<1>8. Cardinality(Rows) <= Cardinality(Objects) + Cardinality(Nights)
  BY <1>4, <1>6, <1>7
<1>. QED  BY <1>8 DEF Rows, Objects, Nights

(* A transaction is in the table more than once only for copies Firehose   *)
(* delivered and for runs that failed after they had written it: the       *)
(* bookmark keeps a night's run from adding again what another added.      *)
THEOREM EveryCopyIsExplained == Spec => []CopiesAreExplained
<1>1. IInv => CopiesAreExplained
  BY RowsOfAnEvent DEF CopiesAreExplained
<1>. QED  BY <1>1, LakeInvariant, PTL

=============================================================================
