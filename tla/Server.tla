------------------------------- MODULE Server -------------------------------
(***************************************************************************)
(* The process: main (app/cmd/server/main.go), the handlers that create    *)
(* transactions and the emitter they share.  On SIGTERM main lets the HTTP *)
(* server finish its requests, then closes the emitter, both under one     *)
(* 30-second context; the orchestrator may kill the process at any time.   *)
(*                                                                         *)
(* A request is followed only as far as the emitter and the shutdown see   *)
(* it; Ledger has the handler in full.  http.Server.Shutdown is taken at   *)
(* its word: the listener is closed and it returns nil only when no        *)
(* request is being handled.                                               *)
(***************************************************************************)
EXTENDS Integers, Sequences, FiniteSets

CONSTANTS Requests,    \* handler goroutines that can exist at once
          BufferSize, MaxRecordsPerBatch, MaxBatchBytes, MaxRecordBytes,
          Sizes, MaxEmits

VARIABLES
  phase,       \* where main is, or how the process ended
  signalled,   \* the signal context is done
  listening,   \* ListenAndServe accepts connections
  expired,     \* shutdownCtx is done
  request,     \* the state of each handler goroutine
  rows,        \* history: inserts that committed and were answered
  \* the emitter
  events, done, worker, resume, held, pending, pendingBytes,
  dropped, delivered, failed, closer, logged, emitted, sent, landed

E == INSTANCE Emitter

ASSUME ServerAssumption == E!EmitterAssumption

main_vars    == <<phase, signalled, listening, expired>>
emitter_vars == <<events, done, worker, resume, held, pending, pendingBytes,
                  dropped, delivered, failed, closer, logged, emitted, sent,
                  landed>>
vars == <<main_vars, request, rows, emitter_vars>>

Startup == {"connect", "migrate", "verifier", "provider", "emitter"}
Ended   == {"exited", "fatal", "killed"}
Alive   == phase \notin Ended

Init ==
  /\ phase = "connect" /\ signalled = FALSE /\ listening = FALSE /\ expired = FALSE
  /\ request = [r \in Requests |-> "idle"]
  /\ rows = 0
  /\ E!Init

-----------------------------------------------------------------------------
(* The handlers.                                                           *)
Move(r, from, to) ==
  /\ Alive
  /\ request[r] = from
  /\ request' = [request EXCEPT ![r] = to]
  /\ UNCHANGED main_vars

Arrive(r) == phase = "serving" /\ listening /\ Move(r, "idle", "handling") /\ UNCHANGED <<rows, emitter_vars>>

(* A response with no event behind it: a bad request, an insert that       *)
(* failed or whose answer was lost (which Ledger tells apart).             *)
Refuse(r) == Move(r, "handling", "idle") /\ UNCHANGED <<rows, emitter_vars>>

(* The insert commits and says so; from here the event must be emitted.    *)
Commit(r) ==
  /\ rows < MaxEmits
  /\ Move(r, "handling", "committed")
  /\ rows' = rows + 1
  /\ UNCHANGED emitter_vars

EmitEvent(r) ==
  /\ Move(r, "committed", "emitted")
  /\ \E size \in Sizes : E!Emit(size)
  /\ UNCHANGED rows

Respond(r) == Move(r, "emitted", "idle") /\ UNCHANGED <<rows, emitter_vars>>

Handler(r) == Arrive(r) \/ Refuse(r) \/ Commit(r) \/ EmitEvent(r) \/ Respond(r)

-----------------------------------------------------------------------------
(* The steps of main before it serves: any of them may take for ever, and  *)
(* a failure ends the process.                                             *)
After == [connect |-> "migrate", migrate |-> "verifier", verifier |-> "provider",
          provider |-> "emitter", emitter |-> "serving"]

Start ==
  /\ phase \in Startup
  /\ phase' \in {After[phase], "fatal"}
  /\ UNCHANGED <<signalled, listening, expired, request, rows, emitter_vars>>

(* The goroutine of ListenAndServe, which main does not wait for.          *)
Listen ==
  /\ phase = "serving" /\ ~listening
  /\ listening' = TRUE
  /\ UNCHANGED <<phase, signalled, expired, request, rows, emitter_vars>>

(* NotifyContext is main's first statement: a signal is kept from then on. *)
Sigterm ==
  /\ Alive /\ ~signalled
  /\ signalled' = TRUE
  /\ UNCHANGED <<phase, listening, expired, request, rows, emitter_vars>>

(* <-ctx.Done(), and on to server.Shutdown.                                *)
SeeSignal ==
  /\ phase = "serving" /\ signalled
  /\ phase' = "shutdown" /\ listening' = FALSE
  /\ UNCHANGED <<signalled, expired, request, rows, emitter_vars>>

(* Mutant: Shutdown gets no deadline, only Close does.                     *)
ContextExpires_CloseOnly ==
  /\ phase = "closing" /\ ~expired
  /\ expired' = TRUE
  /\ UNCHANGED <<phase, signalled, listening, request, rows, emitter_vars>>

ContextExpires ==
  /\ phase \in {"shutdown", "closing"} /\ ~expired
  /\ expired' = TRUE
  /\ UNCHANGED <<phase, signalled, listening, request, rows, emitter_vars>>

(* Mutant: the emitter is closed as soon as the listener is.               *)
StartClose_BeforeHandlersReturn ==
  /\ phase = "shutdown"
  /\ phase' = "closing"
  /\ E!Close
  /\ UNCHANGED <<signalled, listening, expired, request, rows>>

(* Shutdown returns nil, and main goes straight on to emitter.Close.       *)
StartClose ==
  /\ phase = "shutdown"
  /\ \A r \in Requests : request[r] = "idle"
  /\ phase' = "closing"
  /\ E!Close
  /\ UNCHANGED <<signalled, listening, expired, request, rows>>

(* Shutdown gives up: log.Fatalf ends the process, Close is never called.  *)
ShutdownExpires ==
  /\ phase = "shutdown" /\ expired
  /\ phase' = "fatal"
  /\ UNCHANGED <<signalled, listening, expired, request, rows, emitter_vars>>

(* Close returns, with the counters logged or with the context's error,    *)
(* and main returns: the process exits 0 in both cases.                    *)
CloseReturns ==
  /\ phase = "closing"
  /\ E!CloseFinished \/ (expired /\ E!CloseExpired)
  /\ phase' = "exited"
  /\ UNCHANGED <<signalled, listening, expired, request, rows>>

(* SIGKILL, out of memory, a lost host, a listener that fails (Fatalf).    *)
Kill ==
  /\ Alive
  /\ phase' = "killed"
  /\ UNCHANGED <<signalled, listening, expired, request, rows, emitter_vars>>

EmitterWorker == Alive /\ phase \notin Startup /\ E!Worker /\ UNCHANGED <<main_vars, request, rows>>

Main == SeeSignal \/ StartClose \/ ShutdownExpires \/ CloseReturns

Dead == ~Alive /\ UNCHANGED vars

Next ==
  \/ \E r \in Requests : Handler(r)
  \/ EmitterWorker
  \/ Start \/ Listen \/ Sigterm \/ ContextExpires \/ Main \/ Kill
  \/ Dead

(* The runtime runs main and the timer of the context.  A handler may hang *)
(* on the database or on the model for ever, and so may the stream.        *)
Spec     == Init /\ [][Next]_vars
FairSpec == Spec /\ WF_vars(Main) /\ WF_vars(ContextExpires)

-----------------------------------------------------------------------------
(* main.go:126 - the emitter is closed "after the server stops accepting   *)
(* requests, so nothing is still producing events": no call of Emit comes  *)
(* after Close, though Emit itself would not refuse one.                   *)
NoEmitAfterClose == [][done => emitted' = emitted]_vars

(* When Close returns nil the line it logged accounts for every            *)
(* transaction this process knows to be committed: none is in the channel, *)
(* in a batch, or in a handler that had not come to its Emit yet.          *)
CleanCloseAccountsForAllRows ==
  closer = "clean" => rows = logged[1] + logged[2] + logged[3]

(* A signalled process ends within its deadlines whatever its handlers and *)
(* the delivery stream do, and though the signal came while it started,    *)
(* once that is over: a migration that waits for a lock is waited for.     *)
ShutdownEnds == signalled /\ phase \notin Startup ~> phase \in Ended

=============================================================================
