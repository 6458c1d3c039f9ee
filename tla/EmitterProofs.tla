---------------------------- MODULE EmitterProofs ----------------------------
(***************************************************************************)
(* Proofs about Emitter for every buffer size, batch limit, set of sizes   *)
(* and number of events.                                                   *)
(***************************************************************************)
EXTENDS Emitter, FiniteSetTheorems, SequenceTheorems, NaturalsInduction,
        WellFoundedInduction, TLAPS

(* The number of ids in a batch is at most its length.                     *)
LEMMA BatchIds ==
  ASSUME NEW s \in Seq(Event)
  PROVE  /\ IsFiniteSet(Ids(s)) /\ Ids(s) \subseteq 1..MaxEmits
         /\ \A R \in SUBSET Ids(s) : Cardinality(R) \in 0..Len(s)
<1>. DEFINE f == [i \in 1..Len(s) |-> s[i].id]
<1>1. Len(s) \in Nat /\ DOMAIN s = 1..Len(s) /\ \A i \in 1..Len(s) : s[i] \in Event
  BY LenProperties, ElementOfSeq
<1>2. f \in Surjection(1..Len(s), Ids(s))
  BY <1>1 DEF Ids, Surjection
<1>3. IsFiniteSet(1..Len(s)) /\ Cardinality(1..Len(s)) = Len(s)
  <2>1. 1 \in Int /\ Len(s) \in Int
    BY <1>1
  <2>2. /\ IsFiniteSet(1..Len(s))
        /\ Cardinality(1..Len(s)) = IF 1 > Len(s) THEN 0 ELSE Len(s) - 1 + 1
    BY <2>1, FS_Interval, Zenon
  <2>. QED  BY <1>1, <2>2
<1>4. IsFiniteSet(Ids(s)) /\ Cardinality(Ids(s)) <= Len(s)
  BY <1>2, <1>3, FS_Surjection
<1>5. Ids(s) \subseteq 1..MaxEmits
  BY <1>1 DEF Ids, Event
<1>6. ASSUME NEW R \in SUBSET Ids(s) PROVE Cardinality(R) \in 0..Len(s)
  BY <1>1, <1>4, FS_Subset, FS_CardinalityType
<1>. QED  BY <1>4, <1>5, <1>6

-----------------------------------------------------------------------------
(* Type correctness: in particular the buffer is bounded, whatever the     *)
(* rate of Emit (firehose.go:25).  An action is taken apart by the three   *)
(* parts of EmitterTypeOK.                                                 *)
LEMMA TypeInit == Init => EmitterTypeOK
<1>. SUFFICES ASSUME Init PROVE EmitterTypeOK
  OBVIOUS
<1>1. SequenceTypes
  BY EmitterAssumption, EmptySeq DEF Init, SequenceTypes
<1>2. CounterTypes
  BY EmitterAssumption, EmptySeq DEF Init, CounterTypes
<1>3. ControlTypes
  BY DEF Init, ControlTypes
<1>. QED  BY <1>1, <1>2, <1>3 DEF EmitterTypeOK

LEMMA TypeEmit ==
  ASSUME EmitterTypeOK, NEW size \in Sizes, Emit(size) PROVE EmitterTypeOK'
<1>. USE EmitterAssumption DEF EmitterTypeOK
<1>1. [id |-> emitted + 1, size |-> size] \in Event
  BY DEF Emit, CounterTypes, Event
<1>2. SequenceTypes'
  <2>1. CASE Len(events) < BufferSize
    <3>. DEFINE e == [id |-> emitted + 1, size |-> size]
    <3>1. events' = Append(events, e)
      BY <2>1 DEF Emit
    <3>. HIDE DEF e
    <3>2. Append(events, e) \in Seq(Event) /\ Len(Append(events, e)) = Len(events) + 1
      BY <1>1 DEF SequenceTypes, e
    <3>3. Len(events) + 1 <= BufferSize
      BY <2>1, LenProperties DEF SequenceTypes
    <3>. QED  BY <3>1, <3>2, <3>3 DEF Emit, SequenceTypes, worker_vars
  <2>2. CASE ~(Len(events) < BufferSize)
    BY <2>2 DEF Emit, SequenceTypes, worker_vars
  <2>. QED  BY <2>1, <2>2
<1>3. CounterTypes'
  BY DEF Emit, CounterTypes, worker_vars, close_vars
<1>4. ControlTypes'
  BY DEF Emit, ControlTypes, worker_vars, close_vars
<1>. QED  BY <1>2, <1>3, <1>4

(* StartPut keeps the types of what it touches.                            *)
LEMMA TypeStartPut ==
  ASSUME EmitterTypeOK, NEW h \in Seq(Event), Len(h) <= 1,
         NEW next \in {"select", "drain", "exited"}, StartPut(h, next)
  PROVE  /\ worker' \in {"select", "drain", "put", "exited"}
         /\ resume' \in {"select", "drain", "exited"}
         /\ held' \in Seq(Event) /\ Len(held') <= 1
         /\ sent' \in Seq(Event)
         /\ pending' \in Seq(Event) /\ pendingBytes' \in Nat
<1>1. sent \o pending \in Seq(Event)
  BY ConcatProperties DEF EmitterTypeOK, SequenceTypes
<1>. QED  BY <1>1 DEF StartPut, EmitterTypeOK, SequenceTypes, CounterTypes

LEMMA TypeReceive == EmitterTypeOK /\ Receive => EmitterTypeOK'
<1>. SUFFICES ASSUME EmitterTypeOK, Receive PROVE EmitterTypeOK'
  OBVIOUS
<1>. DEFINE event == Head(events)
<1>1. /\ event \in Event /\ event.size \in Nat
      /\ Tail(events) \in Seq(Event) /\ Len(Tail(events)) <= BufferSize
  <2>1. event \in Event /\ Tail(events) \in Seq(Event) /\ Len(Tail(events)) = Len(events) - 1
    BY HeadTailProperties DEF Receive, EmitterTypeOK, SequenceTypes
  <2>2. Len(events) \in Nat /\ Len(events) <= BufferSize
    BY LenProperties DEF EmitterTypeOK, SequenceTypes
  <2>3. event.size \in Nat
    BY <2>1, EmitterAssumption DEF Event
  <2>4. Len(Tail(events)) <= BufferSize
    BY <2>1, <2>2, EmitterAssumption
  <2>. QED  BY <2>1, <2>3, <2>4
<1>2. worker \in {"select", "drain"}
  BY DEF Receive
<1>3. <<event>> \in Seq(Event) /\ Len(<<event>>) = 1 /\ Append(pending, event) \in Seq(Event)
  BY <1>1 DEF EmitterTypeOK, SequenceTypes
<1>4. CASE ~Encodable(event) /\ dropped' = dropped + 1 /\ UNCHANGED <<worker_vars, sent>>
  <2>1. SequenceTypes'
    BY <1>1, <1>4 DEF Receive, EmitterTypeOK, SequenceTypes, worker_vars
  <2>2. CounterTypes'
    BY <1>4 DEF Receive, EmitterTypeOK, CounterTypes, worker_vars, close_vars
  <2>3. ControlTypes'
    BY <1>4 DEF Receive, EmitterTypeOK, ControlTypes, worker_vars, close_vars
  <2>. QED  BY <2>1, <2>2, <2>3 DEF EmitterTypeOK
<1>5. CASE StartPut(<<event>>, worker) /\ UNCHANGED dropped
  <2>1. /\ worker' \in {"select", "drain", "put", "exited"}
        /\ resume' \in {"select", "drain", "exited"}
        /\ held' \in Seq(Event) /\ Len(held') <= 1
        /\ sent' \in Seq(Event)
        /\ pending' \in Seq(Event) /\ pendingBytes' \in Nat
    <3>1. worker \in {"select", "drain", "exited"}
      BY <1>2
    <3>2. <<event>> \in Seq(Event) /\ Len(<<event>>) <= 1
      BY <1>3
    <3>. QED  BY <1>5, <3>1, <3>2, TypeStartPut, Zenon
  <2>2. SequenceTypes'
    BY <1>1, <2>1 DEF Receive, SequenceTypes
  <2>3. CounterTypes'
    BY <1>5, <2>1 DEF Receive, EmitterTypeOK, CounterTypes, close_vars
  <2>4. ControlTypes'
    BY <2>1 DEF Receive, EmitterTypeOK, ControlTypes, close_vars
  <2>. QED  BY <2>2, <2>3, <2>4 DEF EmitterTypeOK
<1>6. CASE /\ pending' = Append(pending, event)
           /\ pendingBytes' = pendingBytes + event.size
           /\ UNCHANGED <<worker, resume, held, dropped, sent>>
  <2>1. SequenceTypes'
    BY <1>1, <1>3, <1>6 DEF Receive, EmitterTypeOK, SequenceTypes
  <2>2. CounterTypes'
    BY <1>1, <1>6 DEF Receive, EmitterTypeOK, CounterTypes, close_vars
  <2>3. ControlTypes'
    BY <1>6 DEF Receive, EmitterTypeOK, ControlTypes, close_vars
  <2>. QED  BY <2>1, <2>2, <2>3 DEF EmitterTypeOK
<1>. QED  BY <1>4, <1>5, <1>6 DEF Receive

LEMMA TypeTick == EmitterTypeOK /\ Tick => EmitterTypeOK'
<1>. SUFFICES ASSUME EmitterTypeOK, Tick PROVE EmitterTypeOK'
  OBVIOUS
<1>1. <<>> \in Seq(Event) /\ Len(<<>>) <= 1
  BY EmptySeq
<1>2. /\ worker' \in {"select", "drain", "put", "exited"}
      /\ resume' \in {"select", "drain", "exited"}
      /\ held' \in Seq(Event) /\ Len(held') <= 1
      /\ sent' \in Seq(Event)
      /\ pending' \in Seq(Event) /\ pendingBytes' \in Nat
  BY <1>1, TypeStartPut DEF Tick
<1>3. SequenceTypes'
  BY <1>2 DEF Tick, EmitterTypeOK, SequenceTypes
<1>4. CounterTypes'
  BY <1>2 DEF Tick, EmitterTypeOK, CounterTypes, counters, close_vars
<1>5. ControlTypes'
  BY <1>2 DEF Tick, EmitterTypeOK, ControlTypes, close_vars
<1>. QED  BY <1>3, <1>4, <1>5 DEF EmitterTypeOK

LEMMA TypeDrained == EmitterTypeOK /\ Drained => EmitterTypeOK'
<1>. SUFFICES ASSUME EmitterTypeOK, Drained PROVE EmitterTypeOK'
  OBVIOUS
<1>1. <<>> \in Seq(Event) /\ Len(<<>>) <= 1
  BY EmptySeq
<1>2. /\ worker' \in {"select", "drain", "put", "exited"}
      /\ resume' \in {"select", "drain", "exited"}
      /\ held' \in Seq(Event) /\ Len(held') <= 1
      /\ sent' \in Seq(Event)
      /\ pending' \in Seq(Event) /\ pendingBytes' \in Nat
  <2>1. CASE pending # <<>>
    BY <1>1, <2>1, TypeStartPut DEF Drained
  <2>2. CASE pending = <<>>
    BY <2>2 DEF Drained, EmitterTypeOK, SequenceTypes, CounterTypes, ControlTypes
  <2>. QED  BY <2>1, <2>2
<1>3. SequenceTypes'
  BY <1>2 DEF Drained, EmitterTypeOK, SequenceTypes
<1>4. CounterTypes'
  BY <1>2 DEF Drained, EmitterTypeOK, CounterTypes, counters, close_vars
<1>5. ControlTypes'
  BY <1>2 DEF Drained, EmitterTypeOK, ControlTypes, close_vars
<1>. QED  BY <1>3, <1>4, <1>5 DEF EmitterTypeOK

LEMMA TypePut == EmitterTypeOK /\ Put => EmitterTypeOK'
<1>. SUFFICES ASSUME EmitterTypeOK, Put PROVE EmitterTypeOK'
  OBVIOUS
<1>1. AfterPut
  BY DEF Put, PutAnswered, PutFailed
<1>2. Len(pending) \in Nat /\ Ids(pending) \subseteq 1..MaxEmits
      /\ \A R \in SUBSET Ids(pending) : Cardinality(R) \in 0..Len(pending)
  BY BatchIds, LenProperties DEF EmitterTypeOK, SequenceTypes
<1>3. delivered' \in Nat /\ failed' \in Nat /\ landed' \subseteq 1..MaxEmits
  <2>1. CASE PutAnswered
    <3>1. PICK R \in SUBSET Ids(pending) :
            /\ landed' = landed \cup (Ids(pending) \ R)
            /\ failed' = failed + Cardinality(R)
            /\ delivered' = delivered + (Len(pending) - Cardinality(R))
      BY <2>1 DEF PutAnswered
    <3>2. Cardinality(R) \in 0..Len(pending)
      BY <1>2
    <3>3. landed' \subseteq 1..MaxEmits
      BY <1>2, <3>1 DEF EmitterTypeOK, CounterTypes
    <3>4. delivered \in Nat /\ failed \in Nat
      BY DEF EmitterTypeOK, CounterTypes
    <3>5. \A c, l, n \in Nat : c \in 0..l => n + c \in Nat /\ n + (l - c) \in Nat
      OBVIOUS
    <3>6. Cardinality(R) \in Nat
      BY <1>2, <3>2
    <3>. QED  BY <1>2, <3>1, <3>2, <3>3, <3>4, <3>5, <3>6
  <2>2. CASE PutFailed
    <3>1. landed' \subseteq 1..MaxEmits
      BY <1>2, <2>2 DEF PutFailed, EmitterTypeOK, CounterTypes
    <3>2. failed' = failed + Len(pending) /\ delivered' = delivered
      BY <2>2 DEF PutFailed
    <3>. QED  BY <1>2, <3>1, <3>2 DEF EmitterTypeOK, CounterTypes
  <2>. QED  BY <2>1, <2>2 DEF Put
<1>4. pendingBytes' \in Nat
  <2>1. CASE held = <<>>
    BY <1>1, <2>1 DEF AfterPut
  <2>2. CASE held # <<>>
    <3>1. Len(held) \in Nat \ {0}
      BY <2>2, EmptySeq DEF EmitterTypeOK, SequenceTypes
    <3>2. 1 \in 1..Len(held)
      BY <3>1
    <3>3. held[1] \in Event
      BY <3>2, ElementOfSeq DEF EmitterTypeOK, SequenceTypes
    <3>. QED  BY <1>1, <2>2, <3>3, EmitterAssumption DEF AfterPut, Event
  <2>. QED  BY <2>1, <2>2
<1>5. SequenceTypes'
  BY <1>1, EmptySeq DEF AfterPut, EmitterTypeOK, SequenceTypes
<1>6. CounterTypes'
  BY <1>1, <1>3, <1>4 DEF AfterPut, EmitterTypeOK, CounterTypes, close_vars
<1>7. ControlTypes'
  BY <1>1 DEF AfterPut, EmitterTypeOK, ControlTypes, close_vars
<1>. QED  BY <1>5, <1>6, <1>7 DEF EmitterTypeOK

LEMMA TypeNext == EmitterTypeOK /\ [Next]_vars => EmitterTypeOK'
<1>. SUFFICES ASSUME EmitterTypeOK, [Next]_vars PROVE EmitterTypeOK'
  OBVIOUS
<1>. USE DEF EmitterTypeOK, SequenceTypes, CounterTypes, ControlTypes
<1>1. CASE \E size \in Sizes : Emit(size)
  BY <1>1, TypeEmit
<1>2. CASE Receive \/ Tick \/ Drained \/ Put
  BY <1>2, TypeReceive, TypeTick, TypeDrained, TypePut
<1>3. CASE SeeDone
  BY <1>3 DEF SeeDone, counters, close_vars
<1>4. CASE Close
  BY <1>4 DEF Close, worker_vars, counters
<1>5. CASE CloseFinished
  <2>1. counters \in Seq(Nat)
    BY DEF counters
  <2>. QED  BY <1>5, <2>1 DEF CloseFinished, worker_vars, counters
<1>6. CASE CloseExpired
  BY <1>6 DEF CloseExpired, worker_vars, counters
<1>7. CASE UNCHANGED vars
  BY <1>7 DEF vars, worker_vars, counters, close_vars
<1>. QED
  BY <1>1, <1>2, <1>3, <1>4, <1>5, <1>6, <1>7 DEF Next, Worker, Stopped

THEOREM EmitterTypeCorrect == Spec => []EmitterTypeOK
  BY TypeInit, TypeNext, PTL DEF Spec

-----------------------------------------------------------------------------
(* What the worker's locals are at each of its steps.                      *)
Hands ==
  /\ held # <<>> => worker = "put" /\ held[1].size <= MaxRecordBytes
  /\ worker = "put" => pending # <<>>
  /\ pending = <<>> => pendingBytes = 0
  /\ Len(pending) <= MaxRecordsPerBatch /\ pendingBytes <= MaxBatchBytes

LEMMA HandsInit == Init => Hands
  BY EmitterAssumption DEF Init, Hands

LEMMA HandsNext == EmitterTypeOK /\ Hands /\ [Next]_vars => Hands'
<1>. SUFFICES ASSUME EmitterTypeOK, Hands, [Next]_vars PROVE Hands'
  OBVIOUS
<1>. USE EmitterAssumption
<1>0. Len(pending) \in Nat /\ pendingBytes \in Nat /\ pending \in Seq(Event)
  BY LenProperties DEF EmitterTypeOK, SequenceTypes, CounterTypes
<1>1. ASSUME NEW size \in Sizes, Emit(size) PROVE Hands'
  BY <1>1 DEF Emit, Hands, worker_vars
<1>2. CASE Receive
  <2>. DEFINE event == Head(events)
  <2>1. event \in Event
    BY <1>2, HeadTailProperties DEF Receive, EmitterTypeOK, SequenceTypes
  <2>2. event.size \in Nat /\ event.size \in Sizes
    BY <2>1 DEF Event
  <2>3. worker # "put" /\ held = <<>>
    BY <1>2 DEF Receive, Hands
  <2>4. CASE UNCHANGED worker_vars
    BY <2>4 DEF Hands, worker_vars
  <2>5. CASE Encodable(event) /\ pending # <<>> /\ StartPut(<<event>>, worker)
    <3>1. <<event>>[1] = event
      OBVIOUS
    <3>. QED  BY <2>5, <3>1 DEF Encodable, StartPut, Hands
  <2>6. CASE /\ Encodable(event) /\ (MustFlushFirst(event) => pending = <<>>)
             /\ pending' = Append(pending, event)
             /\ pendingBytes' = pendingBytes + event.size
             /\ UNCHANGED <<worker, resume, held>>
    <3>1. pending' # <<>> /\ Len(pending') = Len(pending) + 1
      BY <1>0, <2>1, <2>6
    <3>2. CASE pending = <<>>
      <4>1. pendingBytes' = event.size /\ Len(pending') = 1
        BY <2>2, <2>6, <3>1, <3>2, <1>0 DEF Hands
      <4>. QED  BY <2>2, <2>3, <2>6, <3>1, <4>1 DEF Encodable, Hands
    <3>3. CASE ~MustFlushFirst(event)
      BY <1>0, <2>2, <2>3, <2>6, <3>1, <3>3 DEF MustFlushFirst, Hands
    <3>. QED  BY <2>6, <3>2, <3>3
  <2>. QED  BY <1>2, <2>4, <2>5, <2>6 DEF Receive
<1>3. CASE Tick
  BY <1>3 DEF Tick, StartPut, Hands
<1>4. CASE SeeDone
  BY <1>4 DEF SeeDone, Hands
<1>5. CASE Drained
  BY <1>5 DEF Drained, StartPut, Hands
<1>6. CASE Put
  <2>1. worker = "put" /\ AfterPut
    BY <1>6 DEF Put, PutAnswered, PutFailed
  <2>2. worker' # "put" /\ held' = <<>> /\ pending' = held
    BY <2>1 DEF AfterPut, EmitterTypeOK, ControlTypes
  <2>3. CASE held = <<>>
    BY <2>1, <2>2, <2>3, EmptySeq DEF AfterPut, Hands
  <2>4. CASE held # <<>>
    <3>1. Len(held) \in Nat /\ Len(held) <= 1
      BY LenProperties DEF EmitterTypeOK, SequenceTypes
    <3>2. pendingBytes' = held[1].size /\ held[1].size <= MaxRecordBytes
      BY <2>1, <2>4 DEF AfterPut, Hands
    <3>3. Len(held) # 0
      BY <2>4, EmptySeq DEF EmitterTypeOK, SequenceTypes
    <3>4. 1 \in 1..Len(held)
      BY <3>1, <3>3
    <3>5. held[1] \in Event
      BY <3>4, ElementOfSeq DEF EmitterTypeOK, SequenceTypes
    <3>6. held[1].size \in Nat
      BY <3>5 DEF Event
    <3>. QED  BY <2>2, <2>4, <3>1, <3>2, <3>6 DEF Hands
  <2>. QED  BY <2>3, <2>4
<1>7. CASE Close \/ CloseFinished \/ CloseExpired
  BY <1>7 DEF Close, CloseFinished, CloseExpired, Hands, worker_vars
<1>8. CASE UNCHANGED vars
  BY <1>8 DEF Hands, vars, worker_vars
<1>. QED
  BY <1>1, <1>2, <1>3, <1>4, <1>5, <1>6, <1>7, <1>8 DEF Next, Worker, Stopped

-----------------------------------------------------------------------------
(* The batch's length, once spread over the two counters, is in the sum as *)
(* before.                                                                 *)
LEMMA Regroup ==
  ASSUME NEW e \in Int, NEW h \in Int, NEW p \in Int, NEW lost \in Int,
         NEW d \in Int, NEW f \in Int, NEW d2 \in Int, NEW f2 \in Int,
         d2 + f2 = d + f + p
  PROVE  e + h + p + lost + d + f = e + 0 + h + lost + d2 + f2
  OBVIOUS

(* Each step moves events between the channel, the worker's hands and the  *)
(* counters without losing or doubling one.                                *)
LEMMA ConservationNext == EmitterTypeOK /\ Hands /\ Conservation /\ [Next]_vars => Conservation'
<1>. SUFFICES ASSUME EmitterTypeOK, Hands, Conservation, [Next]_vars PROVE Conservation'
  OBVIOUS
<1>0. /\ Len(events) \in Nat /\ Len(held) \in Nat /\ Len(pending) \in Nat
      /\ dropped \in Nat /\ delivered \in Nat /\ failed \in Nat /\ emitted \in Nat
  BY LenProperties, EmitterAssumption DEF EmitterTypeOK, SequenceTypes, CounterTypes
<1>1. ASSUME NEW size \in Sizes, Emit(size) PROVE Conservation'
  <2>1. CASE Len(events) < BufferSize
    <3>. DEFINE e == [id |-> emitted + 1, size |-> size]
    <3>1. events' = Append(events, e) /\ dropped' = dropped
      BY <1>1, <2>1 DEF Emit
    <3>2. e \in Event
      BY <1>0, <1>1, EmitterAssumption DEF Emit, Event, EmitterTypeOK, CounterTypes
    <3>. HIDE DEF e
    <3>3. Len(Append(events, e)) = Len(events) + 1
      BY <3>2 DEF EmitterTypeOK, SequenceTypes
    <3>. QED  BY <1>0, <1>1, <3>1, <3>3 DEF Emit, Conservation, worker_vars
  <2>2. CASE ~(Len(events) < BufferSize)
    BY <1>0, <1>1, <2>2 DEF Emit, Conservation, worker_vars
  <2>. QED  BY <2>1, <2>2
<1>2. CASE Receive
  <2>. DEFINE event == Head(events)
  <2>1. event \in Event /\ Len(events') = Len(events) - 1
    BY <1>2, HeadTailProperties DEF Receive, EmitterTypeOK, SequenceTypes
  <2>2. held = <<>> /\ Len(held) = 0
    BY <1>2, EmptySeq DEF Receive, Hands
  <2>3. UNCHANGED <<emitted, delivered, failed>>
    BY <1>2 DEF Receive
  <2>4. CASE dropped' = dropped + 1 /\ UNCHANGED worker_vars
    BY <1>0, <2>1, <2>3, <2>4 DEF Conservation, worker_vars
  <2>5. CASE StartPut(<<event>>, worker) /\ UNCHANGED dropped
    <3>1. Len(held') = 1 /\ pending' = pending
      BY <2>5 DEF StartPut
    <3>. QED  BY <1>0, <2>1, <2>2, <2>3, <2>5, <3>1 DEF Conservation
  <2>6. CASE pending' = Append(pending, event) /\ UNCHANGED <<held, dropped>>
    <3>1. Len(pending') = Len(pending) + 1
      BY <2>1, <2>6 DEF EmitterTypeOK, SequenceTypes
    <3>. QED  BY <1>0, <2>1, <2>3, <2>6, <3>1 DEF Conservation
  <2>. QED  BY <1>2, <2>4, <2>5, <2>6 DEF Receive
<1>3. CASE Tick \/ Drained
  <2>1. held = <<>>
    BY <1>3 DEF Tick, Drained, Hands
  <2>. QED  BY <1>3, <2>1 DEF Tick, Drained, StartPut, Conservation, counters
<1>4. CASE SeeDone
  BY <1>4 DEF SeeDone, Conservation, counters
<1>5. CASE Put
  <2>1. pending' = held /\ held' = <<>> /\ UNCHANGED <<events, dropped, emitted>>
    BY <1>5 DEF Put, PutAnswered, PutFailed, AfterPut
  <2>2. Len(held') = 0
    BY <2>1, EmptySeq
  <2>3. delivered' \in Int /\ failed' \in Int
        /\ delivered' + failed' = delivered + failed + Len(pending)
    <3>1. CASE PutAnswered
      <4>1. PICK R \in SUBSET Ids(pending) :
              /\ failed' = failed + Cardinality(R)
              /\ delivered' = delivered + (Len(pending) - Cardinality(R))
        BY <3>1 DEF PutAnswered
      <4>2. Cardinality(R) \in Int
        BY BatchIds DEF EmitterTypeOK, SequenceTypes
      <4>. QED  BY <1>0, <4>1, <4>2
    <3>2. CASE PutFailed
      BY <1>0, <3>2 DEF PutFailed
    <3>. QED  BY <1>5, <3>1, <3>2 DEF Put
  <2>4. Len(pending') = Len(held) /\ Len(events') = Len(events)
        /\ dropped' = dropped /\ emitted' = emitted
    BY <2>1
  <2>5. emitted = Len(events) + Len(held) + Len(pending) + dropped + delivered + failed
    BY DEF Conservation
  <2>6. emitted' = Len(events') + Len(held') + Len(pending') + dropped' + delivered' + failed'
    <3>1. Len(events) + Len(held) + Len(pending) + dropped + delivered + failed
            = Len(events) + 0 + Len(held) + dropped + delivered' + failed'
      <4>1. /\ Len(events) \in Int /\ Len(held) \in Int /\ Len(pending) \in Int
            /\ dropped \in Int /\ delivered \in Int /\ failed \in Int
        BY <1>0
      <4>. QED  BY <2>3, <4>1, Regroup
    <3>. QED  BY <2>2, <2>4, <2>5, <3>1, Zenon
  <2>. QED  BY <2>6 DEF Conservation
<1>6. CASE Close \/ CloseFinished \/ CloseExpired
  BY <1>6 DEF Close, CloseFinished, CloseExpired, Conservation, worker_vars, counters
<1>7. CASE UNCHANGED vars
  BY <1>7 DEF Conservation, vars, worker_vars, counters
<1>. QED
  BY <1>1, <1>2, <1>3, <1>4, <1>5, <1>6, <1>7 DEF Next, Worker, Stopped

(* Every call of Emit is in the channel, in the worker's hands or in one   *)
(* counter, for any number of events and any interleaving.                 *)
THEOREM NothingIsForgotten == Spec => []Conservation
<1>1. Init => Conservation
  BY EmptySeq DEF Init, Conservation
<1>. QED
  BY <1>1, TypeInit, TypeNext, HandsInit, HandsNext, ConservationNext, PTL DEF Spec

-----------------------------------------------------------------------------
(* BatchBytes is defined by recursion over the batch.  What its equations  *)
(* amount to is proved by induction on the length.                         *)

(* Induction over the naturals, for a set instead of a predicate.          *)
LEMMA SetInduction ==
  ASSUME NEW S, 0 \in S, \A n \in Nat : n \in S => n + 1 \in S
  PROVE  Nat \subseteq S
<1>. SUFFICES ASSUME Nat \ S # {} PROVE FALSE
  OBVIOUS
<1>. DEFINE T == Nat \ S
            R == OpToRel(<, Nat)
<1>1. T \subseteq Nat /\ T # {}
  OBVIOUS
<1>2. IsWellFoundedOn(R, Nat)
  BY NatLessThanWellFounded, Zenon
<1>. HIDE DEF T, R
<1>3. PICK x \in T : \A y \in T : ~(<<y, x>> \in R)
  BY <1>1, <1>2, WFMin
<1>4. \A y \in T : ~(y < x)
  BY <1>1, <1>3 DEF R, OpToRel
<1>5. x \in Nat /\ x # 0 /\ x - 1 \in Nat /\ x - 1 < x
  BY DEF T
<1>6. x - 1 \in S
  BY <1>4, <1>5 DEF T
<1>. QED  BY <1>5, <1>6 DEF T

(* upTo is the function that BatchBytes defines by recursion for `batch`.  *)
RunningSum(upTo, batch) ==
  upTo = [n \in 0..Len(batch) |-> IF n = 0 THEN 0 ELSE upTo[n - 1] + batch[n].size]

(* Such a function exists, one record at a time.                           *)
LEMMA RunningSumExtends ==
  ASSUME NEW b \in Seq(Event), NEW e \in Event, NEW f, RunningSum(f, b)
  PROVE  \E g : RunningSum(g, Append(b, e)) /\ g[Len(b) + 1] = f[Len(b)] + e.size
<1>. DEFINE c == Append(b, e)
            n == Len(b)
            g == [i \in 0..n + 1 |-> IF i <= n THEN f[i] ELSE f[n] + e.size]
<1>1. n \in Nat /\ Len(c) = n + 1 /\ c[n + 1] = e /\ \A i \in 1..n : c[i] = b[i]
  BY LenProperties, AppendProperties
<1>2. \A i \in 0..n : f[i] = IF i = 0 THEN 0 ELSE f[i - 1] + b[i].size
  BY <1>1 DEF RunningSum
<1>. HIDE DEF c, n
<1>3. ASSUME NEW i \in 0..n + 1
      PROVE  g[i] = IF i = 0 THEN 0 ELSE g[i - 1] + c[i].size
  <2>1. CASE i = 0
    BY <1>1, <1>2, <2>1
  <2>2. CASE i \in 1..n
    <3>1. i \in 0..n /\ i - 1 \in 0..n /\ i \in 0..n + 1 /\ i - 1 \in 0..n + 1
          /\ i # 0 /\ i <= n /\ i - 1 <= n
      BY <1>1, <2>2
    <3>2. g[i] = f[i] /\ g[i - 1] = f[i - 1]
      BY <3>1
    <3>. QED  BY <1>1, <1>2, <2>2, <3>1, <3>2
  <2>3. CASE i = n + 1
    <3>1. i # 0 /\ ~(i <= n) /\ i - 1 = n /\ n \in 0..n + 1 /\ n <= n
      BY <1>1, <2>3
    <3>2. g[i] = f[n] + e.size /\ g[i - 1] = f[n] /\ c[i] = e
      BY <1>1, <2>3, <3>1
    <3>. QED  BY <3>1, <3>2
  <2>. QED  BY <1>1, <2>1, <2>2, <2>3
<1>4. RunningSum(g, c)
  <2>1. g = [i \in 0..n + 1 |-> g[i]]
    OBVIOUS
  <2>. HIDE DEF g
  <2>2. g = [i \in 0..n + 1 |-> IF i = 0 THEN 0 ELSE g[i - 1] + c[i].size]
    BY <1>3, <2>1
  <2>. QED  BY <1>1, <2>2 DEF RunningSum
<1>5. g[n + 1] = f[n] + e.size
  BY <1>1
<1>. QED  BY <1>4, <1>5 DEF c, n

LEMMA RunningSumExists ==
  ASSUME NEW s \in Seq(Event) PROVE \E f : RunningSum(f, s)
<1>. DEFINE S == {n \in Nat : \A b \in Seq(Event) : Len(b) = n => \E f : RunningSum(f, b)}
<1>1. 0 \in S
  <2>. SUFFICES ASSUME NEW b \in Seq(Event), Len(b) = 0 PROVE \E f : RunningSum(f, b)
    OBVIOUS
  <2>. DEFINE f == [n \in 0..0 |-> 0]
  <2>1. f = [n \in 0..0 |-> IF n = 0 THEN 0 ELSE f[n - 1] + b[n].size]
    OBVIOUS
  <2>. HIDE DEF f
  <2>2. RunningSum(f, b)
    BY <2>1 DEF RunningSum
  <2>. QED  BY <2>2
<1>2. ASSUME NEW n \in Nat, n \in S PROVE n + 1 \in S
  <2>. SUFFICES ASSUME NEW b \in Seq(Event), Len(b) = n + 1 PROVE \E f : RunningSum(f, b)
    OBVIOUS
  <2>. DEFINE a == SubSeq(b, 1, n)
              e == b[n + 1]
  <2>1. a \in Seq(Event) /\ Len(a) = n /\ e \in Event /\ \A i \in 1..n : a[i] = b[i]
    BY <1>2, SubSeqProperties, ElementOfSeq
  <2>. HIDE DEF a, e
  <2>2. /\ Append(a, e) \in Seq(Event) /\ Len(Append(a, e)) = n + 1
        /\ \A i \in 1..n : Append(a, e)[i] = b[i]
        /\ Append(a, e)[n + 1] = e
    BY <2>1, AppendProperties
  <2>3. \A i \in 1..Len(b) : Append(a, e)[i] = b[i]
    BY <1>2, <2>2 DEF e
  <2>4. Append(a, e) = b
    BY <1>2, <2>2, <2>3, SeqEqual
  <2>5. PICK f : RunningSum(f, a)
    BY <1>2, <2>1
  <2>. QED  BY <2>1, <2>4, <2>5, RunningSumExtends
<1>. HIDE DEF S
<1>3. Len(s) \in S
  BY <1>1, <1>2, SetInduction, LenProperties
<1>. QED  BY <1>3 DEF S

(* What is computed up to n depends on the first n records only.           *)
LEMMA RunningSumAgrees ==
  ASSUME NEW s \in Seq(Event), NEW f, NEW g, RunningSum(f, s), RunningSum(g, s)
  PROVE  f[Len(s)] = g[Len(s)]
<1>. DEFINE S == {n \in Nat : n <= Len(s) => f[n] = g[n]}
<1>0. Len(s) \in Nat
  BY LenProperties
<1>1. /\ \A n \in 0..Len(s) : f[n] = IF n = 0 THEN 0 ELSE f[n - 1] + s[n].size
      /\ \A n \in 0..Len(s) : g[n] = IF n = 0 THEN 0 ELSE g[n - 1] + s[n].size
  BY DEF RunningSum
<1>2. 0 \in S
  BY <1>0, <1>1
<1>3. ASSUME NEW n \in Nat, n \in S PROVE n + 1 \in S
  BY <1>0, <1>1, <1>3
<1>. HIDE DEF S
<1>4. Len(s) \in S
  BY <1>0, <1>2, <1>3, SetInduction
<1>. QED  BY <1>0, <1>4 DEF S

LEMMA BatchBytesIs ==
  ASSUME NEW s \in Seq(Event), NEW f, RunningSum(f, s)
  PROVE  BatchBytes(s) = f[Len(s)]
<1>. DEFINE g == CHOOSE g : g = [n \in 0..Len(s) |-> IF n = 0 THEN 0 ELSE g[n - 1] + s[n].size]
<1>1. g = [n \in 0..Len(s) |-> IF n = 0 THEN 0 ELSE g[n - 1] + s[n].size]
  BY Zenon DEF RunningSum
<1>2. BatchBytes(s) = g[Len(s)]
  BY DEF BatchBytes
<1>. HIDE DEF g
<1>3. RunningSum(g, s)
  BY <1>1 DEF RunningSum
<1>. QED  BY <1>2, <1>3, RunningSumAgrees

LEMMA BatchBytesEmpty == BatchBytes(<<>>) = 0
<1>1. <<>> \in Seq(Event) /\ Len(<<>>) = 0
  BY EmptySeq
<1>2. PICK f : RunningSum(f, <<>>)
  BY <1>1, RunningSumExists
<1>3. f[0] = 0
  BY <1>1, <1>2 DEF RunningSum
<1>. QED  BY <1>1, <1>2, <1>3, BatchBytesIs

LEMMA BatchBytesAppend ==
  ASSUME NEW b \in Seq(Event), NEW e \in Event
  PROVE  BatchBytes(Append(b, e)) = BatchBytes(b) + e.size
<1>1. Append(b, e) \in Seq(Event) /\ Len(Append(b, e)) = Len(b) + 1
  BY AppendProperties
<1>2. PICK f : RunningSum(f, b)
  BY RunningSumExists
<1>3. PICK g : RunningSum(g, Append(b, e)) /\ g[Len(b) + 1] = f[Len(b)] + e.size
  BY <1>2, RunningSumExtends
<1>4. BatchBytes(b) = f[Len(b)]
  BY <1>2, BatchBytesIs
<1>5. BatchBytes(Append(b, e)) = g[Len(b) + 1]
  BY <1>1, <1>3, BatchBytesIs
<1>. QED  BY <1>3, <1>4, <1>5

(* The running total of the worker is the sum it stands for.               *)
BooksAgree == pendingBytes = BatchBytes(pending)

LEMMA BooksInit == Init => BooksAgree
  BY BatchBytesEmpty DEF Init, BooksAgree

LEMMA BooksNext == EmitterTypeOK /\ BooksAgree /\ [Next]_vars => BooksAgree'
<1>. SUFFICES ASSUME EmitterTypeOK, BooksAgree, [Next]_vars PROVE BooksAgree'
  OBVIOUS
<1>1. ASSUME UNCHANGED <<pending, pendingBytes>> PROVE BooksAgree'
  BY <1>1 DEF BooksAgree
<1>2. ASSUME NEW size \in Sizes, Emit(size) PROVE BooksAgree'
  BY <1>1, <1>2 DEF Emit, worker_vars
<1>3. CASE Receive
  <2>. DEFINE event == Head(events)
  <2>1. event \in Event /\ pending \in Seq(Event)
    BY <1>3, HeadTailProperties DEF Receive, EmitterTypeOK, SequenceTypes
  <2>2. CASE UNCHANGED <<pending, pendingBytes>>
    BY <1>1, <2>2
  <2>3. CASE pending' = Append(pending, event) /\ pendingBytes' = pendingBytes + event.size
    <3>1. BatchBytes(Append(pending, event)) = BatchBytes(pending) + event.size
      BY <2>1, BatchBytesAppend
    <3>2. BatchBytes(pending') = BatchBytes(Append(pending, event))
      BY <2>3
    <3>. QED  BY <2>3, <3>1, <3>2 DEF BooksAgree
  <2>. QED  BY <1>3, <2>2, <2>3 DEF Receive, worker_vars, StartPut
<1>4. CASE Tick \/ SeeDone \/ Drained
  BY <1>1, <1>4 DEF Tick, SeeDone, Drained, StartPut
<1>5. CASE Put
  <2>1. AfterPut
    BY <1>5 DEF Put, PutAnswered, PutFailed
  <2>2. held \in Seq(Event) /\ Len(held) <= 1
    BY DEF EmitterTypeOK, SequenceTypes
  <2>3. CASE held = <<>>
    BY <2>1, <2>3, BatchBytesEmpty DEF AfterPut, BooksAgree
  <2>4. CASE held # <<>>
    <3>1. Len(held) = 1
      <4>1. Len(held) \in Nat \ {0}
        BY <2>2, <2>4, EmptySeq
      <4>2. \A n \in Nat \ {0} : n <= 1 => n = 1
        OBVIOUS
      <4>. QED  BY <2>2, <4>1, <4>2, Zenon
    <3>2. held[1] \in Event
      BY <2>2, <3>1, ElementOfSeq
    <3>3. <<>> \in Seq(Event) /\ held = Append(<<>>, held[1])
      BY <2>2, <3>1
    <3>4. BatchBytes(Append(<<>>, held[1])) = 0 + held[1].size
      BY <3>2, <3>3, BatchBytesAppend, BatchBytesEmpty
    <3>5. held[1].size \in Nat
      BY <3>2, EmitterAssumption DEF Event
    <3>6. BatchBytes(held) = held[1].size
      BY <3>3, <3>4, <3>5
    <3>. QED  BY <2>1, <2>4, <3>6 DEF AfterPut, BooksAgree
  <2>. QED  BY <2>3, <2>4
<1>6. CASE Close \/ CloseFinished \/ CloseExpired \/ UNCHANGED vars
  BY <1>1, <1>6 DEF Close, CloseFinished, CloseExpired, vars, worker_vars
<1>. QED
  BY <1>2, <1>3, <1>4, <1>5, <1>6 DEF Next, Worker, Stopped

(* Every batch handed to the stream is inside the limits of the service    *)
(* (firehose.go:17), by its real length and the sum of its real sizes.     *)
THEOREM BatchesStayInLimits == Spec => []BatchWithinLimits
<1>1. EmitterTypeOK /\ Hands /\ BooksAgree => BatchWithinLimits
  <2>. SUFFICES ASSUME EmitterTypeOK, Hands, BooksAgree, worker = "put"
                PROVE  /\ Len(pending) \in 1..MaxRecordsPerBatch
                       /\ BatchBytes(pending) <= MaxBatchBytes
    BY DEF BatchWithinLimits
  <2>1. Len(pending) \in Nat \ {0}
    BY EmptySeq DEF Hands, EmitterTypeOK, SequenceTypes
  <2>. QED  BY <2>1, EmitterAssumption DEF Hands, BooksAgree
<1>. QED
  BY <1>1, TypeInit, TypeNext, HandsInit, HandsNext, BooksInit, BooksNext, PTL DEF Spec

-----------------------------------------------------------------------------
(* Order.  Before(s, t): everything in s was emitted before all of t.      *)
Before(s, t) == \A i \in DOMAIN s, j \in DOMAIN t : s[i].id < t[j].id

LEMMA BeforeConcat ==
  ASSUME NEW s \in Seq(Event), NEW t \in Seq(Event), NEW u \in Seq(Event)
  PROVE  /\ Before(s \o t, u) <=> Before(s, u) /\ Before(t, u)
         /\ Before(u, s \o t) <=> Before(u, s) /\ Before(u, t)
         /\ InOrder(s \o t) <=> InOrder(s) /\ InOrder(t) /\ Before(s, t)
<1>. DEFINE c == s \o t
<1>1. /\ Len(s) \in Nat /\ DOMAIN s = 1..Len(s)
      /\ Len(t) \in Nat /\ DOMAIN t = 1..Len(t)
  BY LenProperties
<1>2. c \in Seq(Event) /\ Len(c) = Len(s) + Len(t)
  BY ConcatProperties
<1>3. DOMAIN c = 1..(Len(s) + Len(t))
  BY <1>2, LenProperties
<1>4. \A i \in 1..Len(s) : i \in DOMAIN c /\ c[i] = s[i]
  BY <1>1, <1>3, ConcatProperties
<1>5. \A i \in 1..Len(t) : i + Len(s) \in DOMAIN c /\ c[i + Len(s)] = t[i]
  BY <1>1, <1>3, ConcatProperties
<1>6. \A i \in DOMAIN c : \/ i \in 1..Len(s)
                         \/ \E j \in 1..Len(t) : i = j + Len(s)
  <2>. SUFFICES ASSUME NEW i \in DOMAIN c, i \notin 1..Len(s)
                PROVE  \E j \in 1..Len(t) : i = j + Len(s)
    OBVIOUS
  <2>1. i - Len(s) \in 1..Len(t) /\ i = (i - Len(s)) + Len(s)
    BY <1>1, <1>3
  <2>. QED  BY <2>1
<1>. HIDE DEF c
<1>. DEFINE P == {c[i].id : i \in DOMAIN c}  Q == {s[i].id : i \in DOMAIN s}
            R == {t[i].id : i \in DOMAIN t}  X == {u[i].id : i \in DOMAIN u}
<1>11. P = Q \cup R
  <2>1. ASSUME NEW i \in DOMAIN c PROVE c[i].id \in Q \cup R
    <3>1. CASE i \in 1..Len(s)
      BY <1>1, <1>4, <3>1
    <3>2. CASE i \notin 1..Len(s)
      <4>1. PICK j \in 1..Len(t) : i = j + Len(s)
        BY <1>6, <3>2
      <4>. QED  BY <1>1, <1>5, <4>1
    <3>. QED  BY <3>1, <3>2
  <2>2. ASSUME NEW i \in DOMAIN s PROVE s[i].id \in P
    BY <1>1, <1>4
  <2>3. ASSUME NEW i \in DOMAIN t PROVE t[i].id \in P
    BY <1>1, <1>5
  <2>. QED  BY <2>1, <2>2, <2>3
<1>12. /\ Before(c, u) <=> \A x \in P, y \in X : x < y
       /\ Before(s, u) <=> \A x \in Q, y \in X : x < y
       /\ Before(t, u) <=> \A x \in R, y \in X : x < y
       /\ Before(u, c) <=> \A x \in X, y \in P : x < y
       /\ Before(u, s) <=> \A x \in X, y \in Q : x < y
       /\ Before(u, t) <=> \A x \in X, y \in R : x < y
  BY Zenon DEF Before
<1>. HIDE DEF P, Q, R, X
<1>7. Before(c, u) <=> Before(s, u) /\ Before(t, u)
  BY <1>11, <1>12, Zenon
<1>8. Before(u, c) <=> Before(u, s) /\ Before(u, t)
  BY <1>11, <1>12, Zenon
<1>9. ASSUME InOrder(c) PROVE InOrder(s) /\ InOrder(t) /\ Before(s, t)
  <2>1. InOrder(s)
    BY <1>1, <1>4, <1>9 DEF InOrder
  <2>2. InOrder(t)
    <3>. SUFFICES ASSUME NEW i \in DOMAIN t, NEW j \in DOMAIN t, i < j
                  PROVE  t[i].id < t[j].id
      BY DEF InOrder
    <3>1. i + Len(s) < j + Len(s)
      BY <1>1
    <3>. QED  BY <1>1, <1>5, <1>9, <3>1 DEF InOrder
  <2>3. Before(s, t)
    <3>. SUFFICES ASSUME NEW i \in DOMAIN s, NEW j \in DOMAIN t
                  PROVE  s[i].id < t[j].id
      BY DEF Before
    <3>1. i < j + Len(s)
      BY <1>1
    <3>. QED  BY <1>1, <1>4, <1>5, <1>9, <3>1 DEF InOrder
  <2>. QED  BY <2>1, <2>2, <2>3
<1>10. ASSUME InOrder(s), InOrder(t), Before(s, t) PROVE InOrder(c)
  <2>. SUFFICES ASSUME NEW i \in DOMAIN c, NEW j \in DOMAIN c, i < j
                PROVE  c[i].id < c[j].id
    BY DEF InOrder
  <2>1. CASE i \in 1..Len(s) /\ j \in 1..Len(s)
    BY <1>1, <1>4, <1>10, <2>1 DEF InOrder
  <2>2. CASE i \in 1..Len(s) /\ j \notin 1..Len(s)
    <3>1. PICK k \in 1..Len(t) : j = k + Len(s)
      BY <1>6, <2>2
    <3>. QED  BY <1>1, <1>4, <1>5, <1>10, <2>2, <3>1 DEF Before
  <2>3. CASE i \notin 1..Len(s)
    <3>1. j \notin 1..Len(s)
      BY <1>1, <1>3, <2>3
    <3>2. PICK k \in 1..Len(t) : i = k + Len(s)
      BY <1>6, <2>3
    <3>3. PICK l \in 1..Len(t) : j = l + Len(s)
      BY <1>6, <3>1
    <3>4. k < l
      BY <1>1, <3>2, <3>3
    <3>. QED  BY <1>1, <1>5, <1>10, <3>2, <3>3, <3>4 DEF InOrder
  <2>. QED  BY <2>1, <2>2, <2>3
<1>. QED  BY <1>7, <1>8, <1>9, <1>10 DEF c

LEMMA BeforeEmpty ==
  ASSUME NEW s
  PROVE  Before(s, <<>>) /\ Before(<<>>, s) /\ InOrder(<<>>)
  BY DEF Before, InOrder

LEMMA InOrderSingle == \A e : InOrder(<<e>>)
  BY DEF InOrder

(* The sequences an event passes through, taken apart.                     *)
OrderInv ==
  /\ InOrder(sent) /\ InOrder(unsent) /\ InOrder(events)
  /\ Before(sent, unsent) /\ Before(sent, events) /\ Before(unsent, events)
  /\ \A id \in Ids(sent) \cup Ids(unsent) \cup Ids(events) : id <= emitted

LEMMA HeadAndTail ==
  ASSUME NEW s \in Seq(Event), s # <<>>
  PROVE  /\ Head(s) \in Event /\ Tail(s) \in Seq(Event)
         /\ s = <<Head(s)>> \o Tail(s)
         /\ Ids(s) = {Head(s).id} \cup Ids(Tail(s))
<1>1. Head(s) \in Event /\ Tail(s) \in Seq(Event) /\ Len(Tail(s)) = Len(s) - 1
      /\ Len(s) \in Nat \ {0} /\ Head(s) = s[1]
      /\ \A i \in 1..Len(Tail(s)) : Tail(s)[i] = s[i + 1]
  BY HeadTailProperties, EmptySeq, LenProperties
<1>2. <<Head(s)>> \in Seq(Event) /\ Len(<<Head(s)>>) = 1 /\ <<Head(s)>>[1] = Head(s)
  BY <1>1
<1>3. s = <<Head(s)>> \o Tail(s)
  <2>. DEFINE c == <<Head(s)>> \o Tail(s)
  <2>1. c \in Seq(Event) /\ Len(c) = 1 + Len(Tail(s))
        /\ \A i \in 1..(1 + Len(Tail(s))) :
              c[i] = IF i <= 1 THEN <<Head(s)>>[i] ELSE Tail(s)[i - 1]
    BY <1>1, <1>2, ConcatProperties
  <2>. HIDE DEF c
  <2>2. Len(c) = Len(s)
    BY <1>1, <2>1
  <2>3. \A i \in 1..Len(s) : c[i] = s[i]
    BY <1>1, <1>2, <2>1
  <2>4. s = c
    BY <2>1, <2>2, <2>3, SeqEqual
  <2>. QED  BY <2>4 DEF c
<1>4. Ids(s) = {Head(s).id} \cup Ids(Tail(s))
  <2>1. DOMAIN s = 1..Len(s) /\ DOMAIN Tail(s) = 1..(Len(s) - 1)
    BY <1>1, LenProperties
  <2>2. \A i \in 1..Len(s) : i = 1 \/ (i - 1 \in 1..(Len(s) - 1) /\ s[i] = Tail(s)[i - 1])
    BY <1>1
  <2>3. \A i \in 1..(Len(s) - 1) : i + 1 \in 1..Len(s) /\ Tail(s)[i] = s[i + 1]
    BY <1>1
  <2>4. 1 \in 1..Len(s)
    BY <1>1
  <2>5. ASSUME NEW i \in DOMAIN s PROVE s[i].id \in {Head(s).id} \cup Ids(Tail(s))
    <3>1. CASE i = 1
      BY <1>1, <3>1
    <3>2. CASE i # 1
      <4>1. i - 1 \in DOMAIN Tail(s) /\ s[i].id = Tail(s)[i - 1].id
        BY <2>1, <2>2, <3>2
      <4>. QED  BY <4>1 DEF Ids
    <3>. QED  BY <3>1, <3>2
  <2>6. Head(s).id \in Ids(s)
    BY <1>1, <2>1, <2>4 DEF Ids
  <2>7. ASSUME NEW i \in DOMAIN Tail(s) PROVE Tail(s)[i].id \in Ids(s)
    <3>1. i + 1 \in DOMAIN s /\ Tail(s)[i].id = s[i + 1].id
      BY <2>1, <2>3
    <3>. QED  BY <3>1 DEF Ids
  <2>8. Ids(s) \subseteq {Head(s).id} \cup Ids(Tail(s))
    BY <2>5 DEF Ids
  <2>9. Ids(Tail(s)) \subseteq Ids(s)
    BY <2>7 DEF Ids
  <2>. QED  BY <2>6, <2>8, <2>9
<1>. QED  BY <1>1, <1>3, <1>4

LEMMA IdsConcat ==
  ASSUME NEW s \in Seq(Event), NEW t \in Seq(Event)
  PROVE  Ids(s \o t) = Ids(s) \cup Ids(t)
<1>1. /\ Len(s) \in Nat /\ DOMAIN s = 1..Len(s)
      /\ Len(t) \in Nat /\ DOMAIN t = 1..Len(t)
  BY LenProperties
<1>2. DOMAIN (s \o t) = 1..(Len(s) + Len(t))
  BY ConcatProperties, LenProperties
<1>3. ASSUME NEW i \in 1..(Len(s) + Len(t)) PROVE (s \o t)[i].id \in Ids(s) \cup Ids(t)
  <2>1. CASE i <= Len(s)
    <3>1. i \in 1..Len(s) /\ (s \o t)[i] = s[i]
      BY <1>1, <2>1, ConcatProperties
    <3>. QED  BY <1>1, <3>1 DEF Ids
  <2>2. CASE ~(i <= Len(s))
    <3>1. i - Len(s) \in 1..Len(t) /\ (s \o t)[i] = t[i - Len(s)]
      BY <1>1, <2>2, ConcatProperties
    <3>. QED  BY <1>1, <3>1 DEF Ids
  <2>. QED  BY <2>1, <2>2
<1>4. ASSUME NEW i \in 1..Len(s) PROVE s[i].id \in Ids(s \o t)
  <2>1. i \in 1..(Len(s) + Len(t)) /\ (s \o t)[i] = s[i]
    BY <1>1, ConcatProperties
  <2>. QED  BY <1>2, <2>1 DEF Ids
<1>5. ASSUME NEW i \in 1..Len(t) PROVE t[i].id \in Ids(s \o t)
  <2>1. i + Len(s) \in 1..(Len(s) + Len(t)) /\ (s \o t)[i + Len(s)] = t[i]
    BY <1>1, ConcatProperties
  <2>. QED  BY <1>2, <2>1 DEF Ids
<1>6. Ids(s \o t) \subseteq Ids(s) \cup Ids(t)
  BY <1>2, <1>3 DEF Ids
<1>7. Ids(s) \subseteq Ids(s \o t) /\ Ids(t) \subseteq Ids(s \o t)
  BY <1>1, <1>4, <1>5 DEF Ids
<1>. QED  BY <1>6, <1>7

LEMMA OrderInit == Init => OrderInv
<1>. SUFFICES ASSUME Init PROVE OrderInv
  OBVIOUS
<1>1. sent = <<>> /\ events = <<>> /\ unsent = <<>>
  BY DEF Init, unsent
<1>2. Ids(<<>>) = {}
  BY DEF Ids
<1>. QED  BY <1>1, <1>2, BeforeEmpty DEF OrderInv

(* An event leaves the channel: what is left keeps its order.              *)
LEMMA OrderTail ==
  ASSUME EmitterTypeOK, OrderInv, events # <<>>
  PROVE  /\ <<Head(events)>> \in Seq(Event) /\ Tail(events) \in Seq(Event)
         /\ InOrder(Tail(events)) /\ Before(<<Head(events)>>, Tail(events))
         /\ \A s \in Seq(Event) :
              Before(s, events) => Before(s, <<Head(events)>>) /\ Before(s, Tail(events))
         /\ Ids(Tail(events)) \subseteq Ids(events)
         /\ Ids(<<Head(events)>>) \subseteq Ids(events)
<1>. DEFINE h == <<Head(events)>>  t == Tail(events)
<1>1. events \in Seq(Event)
  BY DEF EmitterTypeOK, SequenceTypes
<1>2. Head(events) \in Event /\ t \in Seq(Event) /\ events = h \o t
      /\ Ids(events) = {Head(events).id} \cup Ids(t)
  BY <1>1, HeadAndTail
<1>3. h \in Seq(Event)
  BY <1>2
<1>4. Ids(h) = {Head(events).id}
  BY DEF Ids
<1>. HIDE DEF h, t
<1>5. InOrder(h \o t)
  BY <1>2 DEF OrderInv
<1>6. InOrder(t) /\ Before(h, t)
  BY <1>2, <1>3, <1>5, BeforeConcat
<1>7. ASSUME NEW s \in Seq(Event), Before(s, events) PROVE Before(s, h) /\ Before(s, t)
  <2>1. Before(s, h \o t)
    BY <1>2, <1>7
  <2>. QED  BY <1>2, <1>3, <2>1, BeforeConcat
<1>. QED  BY <1>2, <1>3, <1>4, <1>6, <1>7 DEF h, t

LEMMA OrderNext == EmitterTypeOK /\ Hands /\ OrderInv /\ [Next]_vars => OrderInv'
<1>. SUFFICES ASSUME EmitterTypeOK, Hands, OrderInv, [Next]_vars PROVE OrderInv'
  OBVIOUS
<1>0. /\ sent \in Seq(Event) /\ pending \in Seq(Event) /\ held \in Seq(Event)
      /\ events \in Seq(Event) /\ unsent \in Seq(Event) /\ emitted \in Nat
  BY EmitterAssumption DEF EmitterTypeOK, SequenceTypes, CounterTypes, unsent
<1>1. ASSUME NEW size \in Sizes, Emit(size) PROVE OrderInv'
  <2>1. sent' = sent /\ unsent' = unsent /\ emitted' = emitted + 1
    BY <1>1 DEF Emit, worker_vars, unsent
  <2>2. CASE Len(events) < BufferSize
    <3>. DEFINE e == [id |-> emitted + 1, size |-> size]
    <3>1. e \in Event /\ e.id = emitted + 1
      BY <1>0, <1>1, EmitterAssumption DEF Emit, Event
    <3>2. events' = Append(events, e)
      BY <1>1, <2>2 DEF Emit
    <3>. HIDE DEF e
    <3>3. <<e>> \in Seq(Event) /\ events' = events \o <<e>>
      BY <1>0, <3>1, <3>2, AppendIsConcat
    <3>4. Ids(<<e>>) = {emitted + 1}
      BY <3>1 DEF Ids
    <3>5. ASSUME NEW s \in Seq(Event), \A id \in Ids(s) : id <= emitted
          PROVE  Before(s, <<e>>)
      <4>. SUFFICES ASSUME NEW i \in DOMAIN s PROVE s[i].id < e.id
        BY DEF Before
      <4>1. s[i].id \in Ids(s) /\ s[i] \in Event
        BY LenProperties, ElementOfSeq DEF Ids
      <4>2. s[i].id <= emitted /\ s[i].id \in Int
        BY <3>5, <4>1 DEF Event
      <4>. QED  BY <1>0, <3>1, <4>2
    <3>6. Before(sent, <<e>>) /\ Before(unsent, <<e>>) /\ Before(events, <<e>>)
      BY <1>0, <3>5 DEF OrderInv
    <3>7. InOrder(events') /\ Before(sent, events') /\ Before(unsent, events')
      BY <1>0, <3>3, <3>6, BeforeConcat, InOrderSingle DEF OrderInv
    <3>8. Ids(events') \subseteq Ids(events) \cup {emitted + 1}
      BY <1>0, <3>3, <3>4, IdsConcat
    <3>9. \A id \in Ids(sent) \cup Ids(unsent) \cup Ids(events) : id \in Int
      BY <1>0, BatchIds
    <3>. QED  BY <1>0, <2>1, <3>7, <3>8, <3>9 DEF OrderInv
  <2>3. CASE ~(Len(events) < BufferSize)
    <3>1. events' = events
      BY <1>1, <2>3 DEF Emit
    <3>2. \A id \in Ids(sent) \cup Ids(unsent) \cup Ids(events) : id \in Int
      BY <1>0, BatchIds
    <3>. QED  BY <1>0, <2>1, <3>1, <3>2 DEF OrderInv
  <2>. QED  BY <2>2, <2>3
<1>2. CASE Receive
  <2>. DEFINE h == <<Head(events)>>  t == Tail(events)
  <2>1. /\ h \in Seq(Event) /\ t \in Seq(Event)
        /\ InOrder(t) /\ Before(h, t)
        /\ Before(sent, h) /\ Before(sent, t) /\ Before(unsent, h) /\ Before(unsent, t)
        /\ Ids(t) \subseteq Ids(events) /\ Ids(h) \subseteq Ids(events)
    BY <1>0, <1>2, OrderTail DEF Receive, OrderInv
  <2>2. events' = t /\ emitted' = emitted /\ unsent = pending /\ worker # "put"
    BY <1>2 DEF Receive, unsent
  <2>3. CASE UNCHANGED <<worker_vars, sent>>
    <3>1. sent' = sent /\ unsent' = unsent
      BY <2>3 DEF unsent, worker_vars
    <3>. QED  BY <2>1, <2>2, <3>1 DEF OrderInv
  <2>4. CASE StartPut(h, worker)
    <3>1. sent' = sent \o unsent /\ unsent' = h
      BY <2>2, <2>4 DEF StartPut, unsent
    <3>2. InOrder(sent') /\ Before(sent', t) /\ Before(sent', h)
      BY <1>0, <2>1, <3>1, BeforeConcat DEF OrderInv
    <3>3. Ids(sent') \subseteq Ids(sent) \cup Ids(unsent)
      BY <1>0, <3>1, IdsConcat
    <3>. QED  BY <2>1, <2>2, <3>1, <3>2, <3>3, InOrderSingle DEF OrderInv
  <2>5. CASE pending' = Append(pending, Head(events)) /\ UNCHANGED <<worker, held, sent>>
    <3>1. Head(events) \in Event
      BY <1>0, <1>2, HeadAndTail DEF Receive
    <3>2. sent' = sent /\ unsent' = unsent \o h
      BY <1>0, <2>2, <2>5, <3>1, AppendIsConcat DEF unsent
    <3>3. InOrder(unsent') /\ Before(sent, unsent') /\ Before(unsent', t)
      BY <1>0, <2>1, <3>2, BeforeConcat, InOrderSingle DEF OrderInv
    <3>4. Ids(unsent') \subseteq Ids(unsent) \cup Ids(h)
      BY <1>0, <2>1, <3>2, IdsConcat
    <3>. QED  BY <2>1, <2>2, <3>2, <3>3, <3>4 DEF OrderInv
  <2>. QED  BY <1>2, <2>3, <2>4, <2>5 DEF Receive
<1>3. ASSUME NEW next, StartPut(<<>>, next), worker # "put", UNCHANGED <<events, emitted>>
      PROVE  OrderInv'
  <2>1. sent' = sent \o unsent /\ unsent' = <<>>
    BY <1>3 DEF StartPut, unsent
  <2>2. InOrder(sent') /\ Before(sent', events)
    BY <1>0, <2>1, BeforeConcat DEF OrderInv
  <2>3. Ids(sent') \subseteq Ids(sent) \cup Ids(unsent) /\ Ids(<<>>) = {}
    BY <1>0, <2>1, IdsConcat DEF Ids
  <2>. QED  BY <1>3, <2>1, <2>2, <2>3, BeforeEmpty DEF OrderInv
<1>4. ASSUME UNCHANGED <<sent, unsent, events, emitted>> PROVE OrderInv'
  BY <1>4 DEF OrderInv
<1>5. CASE Tick
  BY <1>3, <1>5 DEF Tick
<1>6. CASE Drained
  <2>1. CASE pending # <<>>
    BY <1>3, <1>6, <2>1 DEF Drained
  <2>2. CASE pending = <<>>
    BY <1>4, <1>6, <2>2 DEF Drained, unsent
  <2>. QED  BY <2>1, <2>2
<1>7. CASE SeeDone
  BY <1>4, <1>7 DEF SeeDone, unsent
<1>8. CASE Put
  <2>1. worker = "put" /\ AfterPut
    BY <1>8 DEF Put, PutAnswered, PutFailed
  <2>2. worker' # "put" /\ pending' = held
    BY <2>1 DEF AfterPut, EmitterTypeOK, ControlTypes
  <2>3. unsent' = unsent
    BY <2>1, <2>2 DEF unsent
  <2>. QED  BY <1>4, <2>1, <2>3 DEF AfterPut
<1>9. CASE Close \/ CloseFinished \/ CloseExpired
  BY <1>4, <1>9 DEF Close, CloseFinished, CloseExpired, worker_vars, unsent
<1>10. CASE UNCHANGED vars
  BY <1>4, <1>10 DEF vars, worker_vars, unsent
<1>. QED
  BY <1>1, <1>2, <1>5, <1>6, <1>7, <1>8, <1>9, <1>10 DEF Next, Worker, Stopped

(* The stream is offered every accepted event at most once and in the      *)
(* order of acceptance, for any number of events and any interleaving.     *)
THEOREM SentInOrder == Spec => []SentInOrderOnce
<1>1. EmitterTypeOK /\ OrderInv => SentInOrderOnce
  <2>. SUFFICES ASSUME EmitterTypeOK, OrderInv PROVE SentInOrderOnce
    OBVIOUS
  <2>1. sent \in Seq(Event) /\ unsent \in Seq(Event) /\ events \in Seq(Event)
    BY DEF EmitterTypeOK, SequenceTypes, unsent
  <2>2. sent \o unsent \in Seq(Event)
    BY <2>1, ConcatProperties
  <2>3. InOrder(sent \o unsent) /\ Before(sent \o unsent, events)
    BY <2>1, BeforeConcat DEF OrderInv
  <2>. QED  BY <2>1, <2>2, <2>3, BeforeConcat DEF OrderInv, SentInOrderOnce
<1>. QED
  BY <1>1, TypeInit, TypeNext, HandsInit, HandsNext, OrderInit, OrderNext, PTL DEF Spec

-----------------------------------------------------------------------------
(* The counters and the lake.  While a batch is in flight none of it has   *)
(* landed before, because nothing is sent twice; and it has as many ids as *)
(* records.                                                                *)
LakeInv ==
  /\ CountersBoundTheLake
  /\ worker = "put" =>
       /\ landed \cap Ids(pending) = {} /\ Ids(pending) \subseteq Ids(sent)
       /\ InOrder(pending)

LEMMA DistinctIds ==
  ASSUME NEW s \in Seq(Event), InOrder(s)
  PROVE  IsFiniteSet(Ids(s)) /\ Cardinality(Ids(s)) = Len(s)
<1>. DEFINE f == [i \in 1..Len(s) |-> s[i].id]
<1>1. Len(s) \in Nat /\ DOMAIN s = 1..Len(s) /\ \A i \in 1..Len(s) : s[i] \in Event
  BY LenProperties, ElementOfSeq
<1>2. \A i, j \in 1..Len(s) : s[i].id = s[j].id => i = j
  <2>. SUFFICES ASSUME NEW i \in 1..Len(s), NEW j \in 1..Len(s), i < j
                PROVE  s[i].id # s[j].id
    BY <1>1
  <2>1. s[i].id < s[j].id
    BY <1>1 DEF InOrder
  <2>2. s[i] \in Event /\ s[j] \in Event
    BY <1>1
  <2>3. s[i].id \in Int /\ s[j].id \in Int
    BY <2>2 DEF Event
  <2>. QED  BY <2>1, <2>3
<1>3. f \in Injection(1..Len(s), Ids(s))
  BY <1>1, <1>2 DEF Ids, Injection, IsInjective
<1>4. Cardinality(1..Len(s)) = Len(s)
  <2>1. 1 \in Int /\ Len(s) \in Int
    BY <1>1
  <2>2. Cardinality(1..Len(s)) = IF 1 > Len(s) THEN 0 ELSE Len(s) - 1 + 1
    BY <2>1, FS_Interval, Zenon
  <2>. QED  BY <1>1, <2>2
<1>5. IsFiniteSet(Ids(s)) /\ Cardinality(Ids(s)) \in 0..Len(s)
  BY BatchIds
<1>. HIDE DEF f
<1>6. Len(s) <= Cardinality(Ids(s))
  BY <1>3, <1>4, <1>5, FS_Injection
<1>. QED  BY <1>1, <1>5, <1>6

(* What a batch adds to the lake.                                          *)
LEMMA Landing ==
  ASSUME EmitterTypeOK, LakeInv, worker = "put", NEW T \in SUBSET Ids(pending)
  PROVE  /\ Cardinality(landed \cup T) = Cardinality(landed) + Cardinality(T)
         /\ Cardinality(T) \in 0..Len(pending) /\ Cardinality(landed) \in Nat
         /\ Cardinality(Ids(pending) \ T) = Len(pending) - Cardinality(T)
<1>. USE EmitterAssumption
<1>1. pending \in Seq(Event) /\ InOrder(pending) /\ landed \cap Ids(pending) = {}
      /\ Len(pending) \in Nat
  BY LenProperties DEF EmitterTypeOK, SequenceTypes, LakeInv
<1>2. IsFiniteSet(landed)
  <2>1. 1 \in Int /\ MaxEmits \in Int
    OBVIOUS
  <2>2. IsFiniteSet(1..MaxEmits)
    BY <2>1, FS_Interval, Zenon
  <2>. QED  BY <2>2, FS_Subset DEF EmitterTypeOK, CounterTypes
<1>. DEFINE all == Ids(pending)
<1>3. IsFiniteSet(all) /\ Cardinality(all) = Len(pending)
  BY <1>1, DistinctIds
<1>4. T \in SUBSET all /\ all \ T \in SUBSET all /\ landed \cap T = {}
      /\ T \cup (all \ T) = all /\ T \cap (all \ T) = {}
  BY <1>1
<1>. HIDE DEF all
<1>5. IsFiniteSet(T) /\ IsFiniteSet(all \ T) /\ Cardinality(T) <= Len(pending)
  BY <1>3, <1>4, FS_Subset
<1>6. Cardinality(T) \in Nat /\ Cardinality(all \ T) \in Nat /\ Cardinality(landed) \in Nat
      /\ Cardinality({}) = 0
  BY <1>2, <1>5, FS_CardinalityType, FS_EmptySet
<1>7. Cardinality(landed \cup T) = Cardinality(landed) + Cardinality(T) - Cardinality(landed \cap T)
  BY <1>2, <1>5, FS_Union
<1>8. Cardinality(T \cup (all \ T))
        = Cardinality(T) + Cardinality(all \ T) - Cardinality(T \cap (all \ T))
  BY <1>5, FS_Union
<1>9. /\ Cardinality(landed \cup T) = Cardinality(landed) + Cardinality(T)
      /\ Len(pending) = Cardinality(T) + Cardinality(all \ T)
  <2>1. Cardinality(landed \cap T) = 0 /\ Cardinality(T \cap (all \ T)) = 0
        /\ Cardinality(T \cup (all \ T)) = Len(pending)
    <3>1. landed \cap T = {} /\ T \cap (all \ T) = {} /\ T \cup (all \ T) = all
      BY <1>4
    <3>. QED  BY <1>3, <1>6, <3>1, Zenon
  <2>2. Cardinality(landed \cup T) = Cardinality(landed) + Cardinality(T) - 0
    BY <1>7, <2>1, Zenon
  <2>3. Len(pending) = Cardinality(T) + Cardinality(all \ T) - 0
    BY <1>8, <2>1, Zenon
  <2>. QED  BY <1>6, <2>2, <2>3
<1>10. Cardinality(T) \in 0..Len(pending)
       /\ Cardinality(all \ T) = Len(pending) - Cardinality(T)
  BY <1>1, <1>5, <1>6, <1>9
<1>. QED  BY <1>6, <1>9, <1>10 DEF all

LEMMA LakePut ==
  ASSUME EmitterTypeOK, LakeInv, Put
  PROVE  LakeInv'
<1>1. worker = "put" /\ worker' # "put" /\ sent' = sent
  BY DEF Put, PutAnswered, PutFailed, AfterPut, EmitterTypeOK, ControlTypes
<1>2. landed \subseteq Ids(sent) /\ Ids(pending) \subseteq Ids(sent)
      /\ delivered <= Cardinality(landed) /\ Cardinality(landed) <= delivered + failed
  BY <1>1 DEF LakeInv, CountersBoundTheLake
<1>3. delivered \in Nat /\ failed \in Nat /\ Len(pending) \in Nat
  BY LenProperties DEF EmitterTypeOK, CounterTypes, SequenceTypes
<1>4. CASE PutAnswered
  <2>1. PICK R \in SUBSET Ids(pending) :
          /\ landed' = landed \cup (Ids(pending) \ R)
          /\ failed' = failed + Cardinality(R)
          /\ delivered' = delivered + (Len(pending) - Cardinality(R))
    BY <1>4 DEF PutAnswered
  <2>2. /\ Cardinality(landed') = Cardinality(landed) + Cardinality(Ids(pending) \ R)
        /\ Cardinality(landed) \in Nat
    BY <1>1, <2>1, Landing
  <2>3. Cardinality(Ids(pending) \ R) = Len(pending) - Cardinality(R)
        /\ Cardinality(R) \in 0..Len(pending)
    BY <1>1, Landing
  <2>4. delivered' <= Cardinality(landed') /\ Cardinality(landed') <= delivered' + failed'
    BY <1>2, <1>3, <2>1, <2>2, <2>3
  <2>. QED  BY <1>1, <1>2, <2>1, <2>4 DEF LakeInv, CountersBoundTheLake
<1>5. CASE PutFailed
  <2>1. PICK T \in SUBSET Ids(pending) :
          landed' = landed \cup T /\ failed' = failed + Len(pending) /\ delivered' = delivered
    BY <1>5 DEF PutFailed
  <2>2. /\ Cardinality(landed') = Cardinality(landed) + Cardinality(T)
        /\ Cardinality(T) \in 0..Len(pending) /\ Cardinality(landed) \in Nat
    BY <1>1, <2>1, Landing
  <2>3. delivered' <= Cardinality(landed') /\ Cardinality(landed') <= delivered' + failed'
    BY <1>2, <1>3, <2>1, <2>2
  <2>. QED  BY <1>1, <1>2, <2>1, <2>3 DEF LakeInv, CountersBoundTheLake
<1>. QED  BY <1>4, <1>5 DEF Put

LEMMA LakeStartPut ==
  ASSUME EmitterTypeOK, OrderInv, LakeInv, worker # "put", NEW h, NEW next, StartPut(h, next),
         UNCHANGED <<delivered, failed, landed>>
  PROVE  LakeInv'
<1>1. sent \in Seq(Event) /\ pending \in Seq(Event) /\ unsent = pending
  BY DEF EmitterTypeOK, SequenceTypes, unsent
<1>2. sent' = sent \o pending /\ pending' = pending
  BY DEF StartPut
<1>3. Ids(sent') = Ids(sent) \cup Ids(pending)
  BY <1>1, <1>2, IdsConcat
<1>4. landed \cap Ids(pending) = {}
  <2>. SUFFICES ASSUME NEW i \in DOMAIN sent, NEW j \in DOMAIN pending
                PROVE  sent[i].id # pending[j].id
    BY DEF LakeInv, CountersBoundTheLake, Ids
  <2>1. sent[i].id \in Int /\ pending[j].id \in Int
    <3>1. sent[i] \in Event /\ pending[j] \in Event
      BY <1>1, LenProperties, ElementOfSeq
    <3>. QED  BY <3>1 DEF Event
  <2>2. sent[i].id < pending[j].id
    BY <1>1 DEF OrderInv, Before
  <2>. QED  BY <2>1, <2>2
<1>5. InOrder(pending)
  BY <1>1 DEF OrderInv
<1>. QED  BY <1>2, <1>3, <1>4, <1>5 DEF LakeInv, CountersBoundTheLake

LEMMA LakeNext == EmitterTypeOK /\ OrderInv /\ LakeInv /\ [Next]_vars => LakeInv'
<1>. SUFFICES ASSUME EmitterTypeOK, OrderInv, LakeInv, [Next]_vars PROVE LakeInv'
  OBVIOUS
<1>1. ASSUME UNCHANGED <<worker, pending, sent, landed, delivered, failed>> PROVE LakeInv'
  BY <1>1 DEF LakeInv, CountersBoundTheLake
<1>2. ASSUME NEW size \in Sizes, Emit(size) PROVE LakeInv'
  BY <1>1, <1>2 DEF Emit, worker_vars
<1>3. CASE Receive
  <2>1. worker # "put" /\ UNCHANGED <<delivered, failed, landed>>
    BY <1>3 DEF Receive
  <2>2. CASE UNCHANGED <<worker_vars, sent>>
    BY <1>1, <2>1, <2>2 DEF worker_vars
  <2>3. CASE StartPut(<<Head(events)>>, worker)
    BY <2>1, <2>3, LakeStartPut
  <2>4. CASE UNCHANGED <<worker, sent>>
    BY <2>1, <2>4 DEF LakeInv, CountersBoundTheLake
  <2>. QED  BY <1>3, <2>2, <2>3, <2>4 DEF Receive
<1>4. CASE Tick
  BY <1>4, LakeStartPut DEF Tick, counters
<1>5. CASE SeeDone
  BY <1>5 DEF SeeDone, counters, LakeInv, CountersBoundTheLake
<1>6. CASE Drained
  <2>1. CASE pending # <<>>
    BY <1>6, <2>1, LakeStartPut DEF Drained, counters
  <2>2. CASE pending = <<>>
    BY <1>6, <2>2 DEF Drained, counters, LakeInv, CountersBoundTheLake
  <2>. QED  BY <2>1, <2>2
<1>7. CASE Put
  BY <1>7, LakePut
<1>8. CASE Close \/ CloseFinished \/ CloseExpired
  BY <1>1, <1>8 DEF Close, CloseFinished, CloseExpired, worker_vars, counters
<1>9. CASE UNCHANGED vars
  BY <1>1, <1>9 DEF vars, worker_vars, counters
<1>. QED
  BY <1>2, <1>3, <1>4, <1>5, <1>6, <1>7, <1>8, <1>9 DEF Next, Worker, Stopped

(* deliver: what is counted as delivered is in the lake, and what is there *)
(* beyond it was counted as failed, however the service answers.           *)
THEOREM CountersAreBounds == Spec => []CountersBoundTheLake
<1>1. Init => LakeInv
  <2>. SUFFICES ASSUME Init PROVE LakeInv
    OBVIOUS
  <2>1. Cardinality({}) = 0
    BY FS_EmptySet
  <2>. QED  BY <2>1 DEF Init, LakeInv, CountersBoundTheLake
<1>2. LakeInv => CountersBoundTheLake
  BY DEF LakeInv
<1>. QED
  BY <1>1, <1>2, TypeInit, TypeNext, HandsInit, HandsNext, OrderInit, OrderNext,
     LakeNext, PTL DEF Spec

=============================================================================
