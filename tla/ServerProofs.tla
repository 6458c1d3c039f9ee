---------------------------- MODULE ServerProofs ----------------------------
(***************************************************************************)
(* Proofs about Server for any number of handlers and any constants of the *)
(* emitter.  What Emitter's proofs show of an emitter that anyone may call *)
(* holds of the one in the server, which is called in its order.           *)
(***************************************************************************)
EXTENDS Server, FiniteSetTheorems, TLAPS

P == INSTANCE EmitterProofs

-----------------------------------------------------------------------------
(* The emitter of the proofs is the emitter of the server.                 *)
LEMMA SameInit == E!Init => P!Init
  BY DEF E!Init, P!Init

LEMMA SameNext == E!Next => P!Next
  BY Zenon
     DEF E!Next, P!Next, E!Worker, P!Worker, E!Stopped, P!Stopped, E!Emit, P!Emit,
         E!Receive, P!Receive, E!Tick, P!Tick, E!SeeDone, P!SeeDone, E!Drained, P!Drained,
         E!Put, P!Put, E!PutAnswered, P!PutAnswered, E!PutFailed, P!PutFailed,
         E!StartPut, P!StartPut, E!AfterPut, P!AfterPut, E!Encodable, P!Encodable,
         E!MustFlushFirst, P!MustFlushFirst, E!Ids, P!Ids, E!Cardinality, P!Cardinality,
         E!Close, P!Close, E!CloseFinished, P!CloseFinished, E!CloseExpired, P!CloseExpired,
         E!worker_vars, P!worker_vars, E!counters, P!counters, E!close_vars, P!close_vars,
         E!vars, P!vars

LEMMA SameStep == [E!Next]_(E!vars) => [P!Next]_(P!vars)
<1>1. UNCHANGED E!vars => UNCHANGED P!vars
  BY DEF E!vars, P!vars, E!worker_vars, P!worker_vars, E!counters, P!counters,
         E!close_vars, P!close_vars
<1>. QED  BY <1>1, SameNext

-----------------------------------------------------------------------------
(* Every step of the server is one of the emitter's or leaves it alone: by *)
(* construction, which is what lets Emitter's lemmas be used here.         *)
LEMMA InitRefines == Init => E!Init
  BY DEF Init

LEMMA NextRefines == [Next]_vars => [E!Next]_(E!vars)
<1>. SUFFICES ASSUME [Next]_vars PROVE [E!Next]_(E!vars)
  OBVIOUS
<1>1. ASSUME UNCHANGED emitter_vars PROVE UNCHANGED E!vars
  BY <1>1 DEF emitter_vars, E!vars, E!worker_vars, E!counters, E!close_vars
<1>2. ASSUME NEW r \in Requests, Handler(r) PROVE [E!Next]_(E!vars)
  <2>1. CASE EmitEvent(r)
    BY <2>1 DEF EmitEvent, E!Next
  <2>2. CASE Arrive(r) \/ Refuse(r) \/ Commit(r) \/ Respond(r)
    BY <1>1, <2>2 DEF Arrive, Refuse, Commit, Respond
  <2>. QED  BY <1>2, <2>1, <2>2 DEF Handler
<1>3. CASE EmitterWorker
  BY <1>3 DEF EmitterWorker, E!Next
<1>4. CASE StartClose
  BY <1>4 DEF StartClose, E!Next
<1>5. CASE CloseReturns
  BY <1>5 DEF CloseReturns, E!Next
<1>6. CASE Start \/ Listen \/ Sigterm \/ ContextExpires \/ SeeSignal \/ ShutdownExpires \/ Kill
  BY <1>1, <1>6 DEF Start, Listen, Sigterm, ContextExpires, SeeSignal, ShutdownExpires, Kill
<1>7. CASE UNCHANGED vars
  BY <1>1, <1>7 DEF vars
<1>. QED  BY <1>2, <1>3, <1>4, <1>5, <1>6, <1>7 DEF Next, Main, Dead

-----------------------------------------------------------------------------
(* What the worker has seen of Close, when no event comes after it.        *)
DrainInv ==
  /\ worker \in {"drain", "exited"} \/ resume # "select" => done
  /\ E!PastDraining => events = <<>> /\ held = <<>>
  /\ worker = "exited" => pending = <<>>

Committed == {r \in Requests : request[r] = "committed"}

(* The handlers are gone before the emitter is closed; every committed row *)
(* has been emitted or belongs to a handler that is about to; and the line *)
(* that Close logs is the last word on all of them.                        *)
ProcessInv ==
  /\ request \in [Requests -> {"idle", "handling", "committed", "emitted"}]
  /\ done => phase \in {"closing"} \cup Ended /\ \A r \in Requests : request[r] = "idle"
  /\ rows \in Nat /\ IsFiniteSet(Committed) /\ rows = emitted + Cardinality(Committed)
  /\ closer = "clean" => ~Alive
  /\ CleanCloseAccountsForAllRows

EmitterInv == P!EmitterTypeOK /\ P!Hands /\ P!Conservation

IInv == EmitterInv /\ DrainInv /\ ProcessInv

LEMMA EmitterInvInit == Init => EmitterInv
<1>. SUFFICES ASSUME Init PROVE EmitterInv
  OBVIOUS
<1>1. P!Init
  BY InitRefines, SameInit
<1>2. P!EmitterTypeOK /\ P!Hands
  BY <1>1, ServerAssumption, P!TypeInit, P!HandsInit
<1>3. P!Conservation
  BY <1>1 DEF P!Conservation, P!Init
<1>. QED  BY <1>2, <1>3 DEF EmitterInv

LEMMA EmitterInvNext == EmitterInv /\ [Next]_vars => EmitterInv'
<1>. SUFFICES ASSUME EmitterInv, [Next]_vars PROVE EmitterInv'
  OBVIOUS
<1>1. [P!Next]_(P!vars)
  BY NextRefines, SameStep
<1>. QED  BY <1>1, ServerAssumption, P!TypeNext, P!HandsNext, P!ConservationNext DEF EmitterInv

LEMMA DrainEmit ==
  ASSUME DrainInv, ~done, NEW size \in Sizes, E!Emit(size)
  PROVE  DrainInv'
  BY DEF DrainInv, E!PastDraining, E!Emit, E!worker_vars

LEMMA DrainWorker ==
  ASSUME P!EmitterTypeOK, P!Hands, DrainInv, E!Worker
  PROVE  DrainInv'
<1>. USE DEF DrainInv, E!PastDraining
<1>1. CASE E!Receive
  <2>1. worker \in {"select", "drain"} /\ done' = done
    BY <1>1 DEF E!Receive
  <2>2. UNCHANGED <<worker, resume>> \/ (worker' = "put" /\ resume' = worker)
    BY <1>1 DEF E!Receive, E!StartPut, E!worker_vars
  <2>. QED  BY <2>1, <2>2
<1>2. CASE E!Tick
  BY <1>2 DEF E!Tick, E!StartPut
<1>3. CASE E!SeeDone
  BY <1>3 DEF E!SeeDone
<1>4. CASE E!Drained
  <2>1. held = <<>>
    BY <1>4 DEF E!Drained, P!Hands
  <2>. QED  BY <1>4, <2>1 DEF E!Drained, E!StartPut
<1>5. CASE E!Put
  <2>1. worker = "put" /\ E!AfterPut
    BY <1>5 DEF E!Put, E!PutAnswered, E!PutFailed
  <2>. QED  BY <2>1 DEF E!AfterPut, P!EmitterTypeOK, P!ControlTypes
<1>. QED  BY <1>1, <1>2, <1>3, <1>4, <1>5 DEF E!Worker

LEMMA DrainClose ==
  ASSUME DrainInv, E!Close \/ E!CloseFinished \/ E!CloseExpired
  PROVE  DrainInv'
  BY DEF DrainInv, E!PastDraining, E!Close, E!CloseFinished, E!CloseExpired, E!worker_vars

LEMMA DrainNext == IInv /\ [Next]_vars => DrainInv'
<1>. SUFFICES ASSUME IInv, [Next]_vars PROVE DrainInv'
  OBVIOUS
<1>. USE DEF IInv
<1>1. ASSUME UNCHANGED emitter_vars PROVE DrainInv'
  BY <1>1 DEF emitter_vars, DrainInv, E!PastDraining
<1>2. ASSUME NEW r \in Requests, Handler(r) PROVE DrainInv'
  <2>1. CASE EmitEvent(r)
    <3>1. ~done
      BY <2>1 DEF EmitEvent, Move, ProcessInv
    <3>. QED  BY <2>1, <3>1, DrainEmit DEF EmitEvent
  <2>2. CASE Arrive(r) \/ Refuse(r) \/ Commit(r) \/ Respond(r)
    BY <1>1, <2>2 DEF Arrive, Refuse, Commit, Respond
  <2>. QED  BY <1>2, <2>1, <2>2 DEF Handler
<1>3. CASE EmitterWorker
  BY <1>3, DrainWorker DEF EmitterWorker, EmitterInv
<1>4. CASE StartClose \/ CloseReturns
  BY <1>4, DrainClose DEF StartClose, CloseReturns
<1>5. CASE Start \/ Listen \/ Sigterm \/ ContextExpires \/ SeeSignal \/ ShutdownExpires \/ Kill
  BY <1>1, <1>5 DEF Start, Listen, Sigterm, ContextExpires, SeeSignal, ShutdownExpires, Kill
<1>6. CASE UNCHANGED vars
  BY <1>1, <1>6 DEF vars
<1>. QED  BY <1>2, <1>3, <1>4, <1>5, <1>6 DEF Next, Main, Dead

-----------------------------------------------------------------------------
(* The handlers' side.  A commit adds a handler to those that owe an event *)
(* and a row to the rows; a call of Emit takes one away and counts it.     *)
LEMMA MoveTo ==
  ASSUME ProcessInv, NEW r \in Requests,
         NEW from \in {"idle", "handling", "committed", "emitted"},
         NEW to \in {"idle", "handling", "committed", "emitted"}, Move(r, from, to)
  PROVE  /\ request' \in [Requests -> {"idle", "handling", "committed", "emitted"}]
         /\ request'[r] = to /\ \A s \in Requests \ {r} : request'[s] = request[s]
         /\ from # "committed" /\ to # "committed" => Committed' = Committed
         /\ to = "committed" => Committed' = Committed \cup {r}
         /\ from = "committed" /\ to # "committed" => Committed' = Committed \ {r}
  BY DEF ProcessInv, Move, Committed

LEMMA HandlerStep ==
  ASSUME IInv, NEW r \in Requests, Handler(r)
  PROVE  ProcessInv'
<1>. DEFINE States == {"idle", "handling", "committed", "emitted"}
<1>1. Alive /\ UNCHANGED <<main_vars, closer, logged, done>>
  BY DEF Handler, Arrive, Refuse, Commit, EmitEvent, Respond, Move, emitter_vars,
         E!Emit, E!close_vars
<1>2. ~done
  <2>1. phase = "serving" \/ request[r] # "idle"
    BY DEF Handler, Arrive, Refuse, Commit, EmitEvent, Respond, Move
  <2>. QED  BY <2>1 DEF IInv, ProcessInv, Ended
<1>3. closer # "clean"
  BY <1>1 DEF IInv, ProcessInv
<1>4. emitted \in Nat
  BY DEF IInv, EmitterInv, P!EmitterTypeOK, P!CounterTypes
<1>5. ASSUME request' \in [Requests -> States], rows' \in Nat, IsFiniteSet(Committed'),
             rows' = emitted' + Cardinality(Committed')
      PROVE  ProcessInv'
  BY <1>1, <1>2, <1>3, <1>5 DEF ProcessInv, CleanCloseAccountsForAllRows
<1>6. IsFiniteSet(Committed) /\ Cardinality(Committed) \in Nat
      /\ rows \in Nat /\ rows = emitted + Cardinality(Committed) /\ ProcessInv
  BY FS_CardinalityType DEF IInv, ProcessInv
<1>7. CASE Arrive(r) \/ Refuse(r) \/ Respond(r)
  <2>1. Move(r, "idle", "handling") \/ Move(r, "handling", "idle") \/ Move(r, "emitted", "idle")
    BY <1>7 DEF Arrive, Refuse, Respond
  <2>2. request' \in [Requests -> States] /\ Committed' = Committed
    BY <1>6, <2>1, MoveTo
  <2>3. rows' = rows /\ emitted' = emitted
    BY <1>7 DEF Arrive, Refuse, Respond, emitter_vars
  <2>. QED  BY <1>5, <1>6, <2>2, <2>3
<1>8. CASE Commit(r)
  <2>1. Move(r, "handling", "committed") /\ rows' = rows + 1 /\ emitted' = emitted
    BY <1>8 DEF Commit, emitter_vars
  <2>2. request' \in [Requests -> States] /\ Committed' = Committed \cup {r}
    BY <1>6, <2>1, MoveTo
  <2>3. r \notin Committed
    BY <2>1 DEF Move, Committed
  <2>4. IsFiniteSet(Committed') /\ Cardinality(Committed') = Cardinality(Committed) + 1
    BY <1>6, <2>2, <2>3, FS_AddElement
  <2>. QED  BY <1>4, <1>5, <1>6, <2>1, <2>2, <2>4
<1>9. CASE EmitEvent(r)
  <2>1. Move(r, "committed", "emitted") /\ rows' = rows /\ emitted' = emitted + 1
    BY <1>9 DEF EmitEvent, E!Emit
  <2>2. request' \in [Requests -> States] /\ Committed' = Committed \ {r}
    BY <1>6, <2>1, MoveTo
  <2>3. r \in Committed
    BY <2>1 DEF Move, Committed
  <2>4. IsFiniteSet(Committed') /\ Cardinality(Committed') = Cardinality(Committed) - 1
    BY <1>6, <2>2, <2>3, FS_RemoveElement
  <2>. QED  BY <1>4, <1>5, <1>6, <2>1, <2>2, <2>4
<1>. QED  BY <1>7, <1>8, <1>9 DEF Handler

(* main's side.  The worker is done with everything when Close returns nil *)
(* and no handler owes it an event: what the counters say is all there is. *)
LEMMA CloseStep ==
  ASSUME IInv, CloseReturns
  PROVE  ProcessInv'
<1>1. /\ UNCHANGED <<request, rows, emitted, done, dropped, delivered, failed>>
      /\ phase = "closing" /\ phase' = "exited" /\ closer = "waiting"
  BY DEF CloseReturns, E!CloseFinished, E!CloseExpired, E!counters
<1>2. Committed' = Committed /\ ProcessInv
  BY <1>1 DEF Committed, IInv
<1>3. CleanCloseAccountsForAllRows'
  <2>1. CASE E!CloseFinished
    <3>1. worker = "exited" /\ logged' = <<dropped, delivered, failed>>
      BY <2>1 DEF E!CloseFinished, E!counters
    <3>2. done /\ events = <<>> /\ held = <<>> /\ pending = <<>>
      BY <3>1 DEF IInv, DrainInv, E!PastDraining
    <3>3. Committed = {}
      BY <1>2, <3>2 DEF ProcessInv, Committed
    <3>4. rows = emitted
      <4>1. Cardinality(Committed) = 0
        BY <3>3, FS_EmptySet
      <4>2. emitted \in Nat
        BY DEF IInv, EmitterInv, P!EmitterTypeOK, P!CounterTypes
      <4>. QED  BY <1>2, <4>1, <4>2 DEF ProcessInv
    <3>5. emitted = dropped + delivered + failed
      BY <3>2 DEF IInv, EmitterInv, P!Conservation, P!EmitterTypeOK, P!CounterTypes
    <3>. QED  BY <1>1, <3>1, <3>4, <3>5 DEF CleanCloseAccountsForAllRows
  <2>2. CASE E!CloseExpired
    BY <2>2 DEF E!CloseExpired, CleanCloseAccountsForAllRows
  <2>. QED  BY <2>1, <2>2 DEF CloseReturns
<1>. QED  BY <1>1, <1>2, <1>3 DEF ProcessInv, Ended, Alive

LEMMA MainStep ==
  ASSUME IInv, \/ Start \/ Listen \/ Sigterm \/ ContextExpires \/ SeeSignal \/ ShutdownExpires
               \/ Kill \/ StartClose \/ EmitterWorker
  PROVE  ProcessInv'
<1>1. Alive /\ UNCHANGED <<request, rows, logged, emitted>>
  BY DEF Start, Listen, Sigterm, ContextExpires, SeeSignal, ShutdownExpires, Kill, StartClose,
         EmitterWorker, emitter_vars, Alive, Ended, Startup, E!Close, E!Worker, E!Receive,
         E!Tick, E!SeeDone, E!Drained, E!Put, E!PutAnswered, E!PutFailed, E!AfterPut,
         E!close_vars
<1>2. Committed' = Committed /\ ProcessInv
  BY <1>1 DEF Committed, IInv
<1>3. closer # "clean"
  BY <1>1, <1>2 DEF ProcessInv
<1>4. closer' # "clean"
  BY <1>3 DEF Start, Listen, Sigterm, ContextExpires, SeeSignal, ShutdownExpires, Kill,
         StartClose, EmitterWorker, emitter_vars, E!Close, E!Worker, E!Receive, E!Tick,
         E!SeeDone, E!Drained, E!Put, E!PutAnswered, E!PutFailed, E!AfterPut, E!close_vars
<1>5. done' => phase' \in {"closing"} \cup Ended /\ \A r \in Requests : request'[r] = "idle"
  <2>1. CASE StartClose
    BY <1>1, <2>1 DEF StartClose
  <2>2. CASE EmitterWorker
    <3>1. done' = done /\ phase' = phase
      BY <2>2 DEF EmitterWorker, main_vars, E!Worker, E!Receive, E!Tick, E!SeeDone,
                  E!Drained, E!Put, E!PutAnswered, E!PutFailed, E!AfterPut
    <3>. QED  BY <1>1, <1>2, <3>1 DEF ProcessInv
  <2>3. CASE Start \/ Listen \/ Sigterm \/ ContextExpires \/ SeeSignal \/ ShutdownExpires \/ Kill
    <3>1. done' = done
      BY <2>3 DEF Start, Listen, Sigterm, ContextExpires, SeeSignal, ShutdownExpires, Kill,
                  emitter_vars
    <3>2. phase = "closing" => phase' \in {"closing"} \cup Ended
      BY <2>3 DEF Start, Listen, Sigterm, ContextExpires, SeeSignal, ShutdownExpires, Kill,
                  Startup, Ended
    <3>. QED  BY <1>1, <1>2, <3>1, <3>2 DEF ProcessInv, Alive
  <2>. QED  BY <2>1, <2>2, <2>3
<1>. QED  BY <1>1, <1>2, <1>4, <1>5 DEF ProcessInv, CleanCloseAccountsForAllRows

LEMMA InitIInv == Init => IInv
<1>. SUFFICES ASSUME Init PROVE IInv
  OBVIOUS
<1>1. DrainInv
  BY DEF Init, E!Init, DrainInv, E!PastDraining
<1>2. ProcessInv
  <2>1. Committed = {}
    BY DEF Init, Committed
  <2>2. IsFiniteSet(Committed) /\ Cardinality(Committed) = 0
    BY <2>1, FS_EmptySet
  <2>. QED  BY <2>2 DEF Init, E!Init, ProcessInv, CleanCloseAccountsForAllRows
<1>. QED  BY <1>1, <1>2, EmitterInvInit DEF IInv

LEMMA NextIInv == IInv /\ [Next]_vars => IInv'
<1>. SUFFICES ASSUME IInv, [Next]_vars PROVE IInv'
  OBVIOUS
<1>1. EmitterInv' /\ DrainInv'
  BY EmitterInvNext, DrainNext DEF IInv
<1>2. ProcessInv'
  <2>1. ASSUME UNCHANGED vars PROVE ProcessInv'
    BY <2>1 DEF IInv, ProcessInv, vars, main_vars, emitter_vars, Committed, Alive,
                CleanCloseAccountsForAllRows
  <2>. QED  BY <2>1, HandlerStep, CloseStep, MainStep DEF Next, Main, Dead
<1>. QED  BY <1>1, <1>2 DEF IInv

(* The inductive invariant of the process: emitter, handlers and main.     *)
THEOREM ProcessInvariant == Spec => []IInv
  BY InitIInv, NextIInv, PTL DEF Spec

(* main.go:126 - Shutdown before Close is what keeps the producers away:   *)
(* however many handlers there are, wherever the signal finds them.        *)
THEOREM NoEmitIsAfterClose == Spec => NoEmitAfterClose
<1>1. IInv /\ [Next]_vars => [done => emitted' = emitted]_vars
  <2>. SUFFICES ASSUME IInv, [Next]_vars, done PROVE emitted' = emitted
    OBVIOUS
  <2>1. ASSUME UNCHANGED emitter_vars PROVE emitted' = emitted
    BY <2>1 DEF emitter_vars
  <2>2. ASSUME NEW r \in Requests, Handler(r) PROVE emitted' = emitted
    BY <2>1, <2>2 DEF IInv, ProcessInv, Handler, Arrive, Refuse, Commit, EmitEvent, Respond,
                      Move
  <2>3. CASE StartClose \/ CloseReturns \/ EmitterWorker
    BY <2>3 DEF StartClose, CloseReturns, EmitterWorker, E!Close, E!CloseFinished,
                E!CloseExpired, E!Worker, E!Receive, E!Tick, E!SeeDone, E!Drained, E!Put,
                E!PutAnswered, E!PutFailed, E!AfterPut
  <2>4. CASE Start \/ Listen \/ Sigterm \/ ContextExpires \/ SeeSignal \/ ShutdownExpires \/ Kill
    BY <2>1, <2>4 DEF Start, Listen, Sigterm, ContextExpires, SeeSignal, ShutdownExpires, Kill
  <2>5. CASE UNCHANGED vars
    BY <2>1, <2>5 DEF vars
  <2>. QED  BY <2>2, <2>3, <2>4, <2>5 DEF Next, Main, Dead
<1>. QED  BY <1>1, ProcessInvariant, PTL DEF Spec, NoEmitAfterClose

(* The counters that Close logs account for every transaction that the     *)
(* process knows to be committed: what Emitter's Conservation is worth to  *)
(* whoever reads the log.                                                  *)
THEOREM CleanCloseAccounts == Spec => []CleanCloseAccountsForAllRows
<1>1. IInv => CleanCloseAccountsForAllRows
  BY DEF IInv, ProcessInv
<1>. QED  BY <1>1, ProcessInvariant, PTL

=============================================================================
