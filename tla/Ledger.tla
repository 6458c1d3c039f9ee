------------------------------- MODULE Ledger -------------------------------
(***************************************************************************)
(* The API over its database (app/internal/handlers): creating and reading *)
(* accounts, listing transactions, and creating one, which looks up the    *)
(* account, asks the model for a category and a severity under one         *)
(* deadline, inserts the row and hands an event to the emitter.  Handlers  *)
(* run concurrently; the process may die between any two of their steps.   *)
(*                                                                         *)
(* A category in a request is what lower-casing and trimming makes of it:  *)
(* None, a listed one, or Unlisted.  Amounts, dates and descriptions only  *)
(* decide whether the request is valid.                                    *)
(***************************************************************************)
EXTENDS Integers, Sequences, FiniteSets

CONSTANTS Requests,      \* handler goroutines, each serving one request
          Users,
          Listed, Other, \* the closed set of categories and its catch-all
          Unlisted,
          Severities,
          None,          \* an absent value: the empty string, a nil pointer
          MaxAccounts

ASSUME LedgerAssumption ==
  /\ Other \in Listed
  /\ Unlisted \notin Listed /\ None \notin Listed /\ None # Unlisted
  /\ None \notin Severities
  /\ MaxAccounts \in Nat

VARIABLES
  accounts,   \* the accounts table: owner by id
  rows,       \* the transactions table: row by id
  offered,    \* history: the events passed to Emit
  request     \* the locals of each handler

vars == <<accounts, rows, offered, request>>

AccountIds == 1..MaxAccounts

(* The locals of the handlers and of enrich, and the status they answer    *)
(* with: `known` is the category as far as it is known, given or found by  *)
(* the model; `shown` the accounts the handler read, `read` the rows, as a *)
(* list or as a baseline; `cancelled` the state of enrich's context; `row` *)
(* the id the insert returned.  `assessedAs`, and `before`, the account's  *)
(* rows when the request came, are history.                                *)
Fresh == [pc |-> "idle", op |-> "create", user |-> None, account |-> 0,
          given |-> None, known |-> None, shown |-> {}, read |-> {}, severity |-> None,
          cancelled |-> FALSE, row |-> 0, status |-> 0,
          assessedAs |-> None, before |-> {}]

Init ==
  /\ accounts = <<>>
  /\ rows = <<>>
  /\ offered = {}
  /\ request = [r \in Requests |-> Fresh]

-----------------------------------------------------------------------------
At(r, pc) == request[r].pc = pc

Become(r, locals) == request' = [request EXCEPT ![r] = locals]
Goto(r, pc)       == Become(r, [request[r] EXCEPT !.pc = pc])
Answer(r, code)   == Become(r, [request[r] EXCEPT !.pc = "done", !.status = code])

History(a) == {id \in DOMAIN rows : rows[id].account = a}

(* AccountHandler.Create: one insert, owned by the caller.                 *)
CreateAccount(u) ==
  /\ Len(accounts) < MaxAccounts
  /\ accounts' = Append(accounts, u)
  /\ UNCHANGED <<rows, offered, request>>

OwnedBy(a, u) == a \in DOMAIN accounts /\ accounts[a] = u

(* A request to read accounts, or to list or create transactions, with     *)
(* whatever account id and category the client put in it.                  *)
Arrive(r) ==
  /\ At(r, "idle")
  /\ \E u \in Users, a \in AccountIds :
       LET asked == [Fresh EXCEPT !.pc = "lookup", !.user = u, !.account = a,
                                  !.before = History(a)]
       IN  \/ \E op \in {"accounts", "account"} :
                Become(r, [asked EXCEPT !.op = op, !.pc = "accounts", !.before = {}])
           \/ Become(r, [asked EXCEPT !.op = "list"])
           \/ \E c \in Listed \cup {None, Unlisted} : Become(r, [asked EXCEPT !.given = c])
  /\ UNCHANGED <<accounts, rows, offered>>

(* AccountHandler.List and Get: one query, filtered by owner.              *)
ReadAccounts(r) ==
  /\ At(r, "accounts")
  /\ LET q    == request[r]
         mine == {a \in DOMAIN accounts : OwnedBy(a, q.user)}
         one  == mine \cap {q.account}
     IN  \/ q.op = "accounts" /\ Become(r, [q EXCEPT !.pc = "done", !.status = 200, !.shown = mine])
         \/ q.op = "account" /\ one # {}
            /\ Become(r, [q EXCEPT !.pc = "done", !.status = 200, !.shown = one])
         \/ q.op = "account" /\ one = {} /\ Answer(r, 404)
         \/ Answer(r, 500)
  /\ UNCHANGED <<accounts, rows, offered>>

(* Mutant: the lookup finds the account whoever owns it.                   *)
Lookup_AnyOwner(r) ==
  /\ At(r, "lookup")
  /\ \/ /\ request[r].account \in DOMAIN accounts
        /\ Goto(r, IF request[r].op = "list" THEN "list" ELSE "validate")
     \/ request[r].account \notin DOMAIN accounts /\ Answer(r, 404)
     \/ Answer(r, 500)
  /\ UNCHANGED <<accounts, rows, offered>>

(* accountOwnedBy, or its query fails.                                     *)
Lookup(r) ==
  /\ At(r, "lookup")
  /\ \/ /\ OwnedBy(request[r].account, request[r].user)
        /\ Goto(r, IF request[r].op = "list" THEN "list" ELSE "validate")
     \/ ~OwnedBy(request[r].account, request[r].user) /\ Answer(r, 404)
     \/ Answer(r, 500)
  /\ UNCHANGED <<accounts, rows, offered>>

(* ListByAccount, once the account is known to be the caller's.            *)
List(r) ==
  /\ At(r, "list")
  /\ \/ Become(r, [request[r] EXCEPT !.pc = "done", !.status = 200,
                                       !.read = History(request[r].account)])
     \/ Answer(r, 500)
  /\ UNCHANGED <<accounts, rows, offered>>

(* decodeJSON and the checks that follow it.                               *)
Validate(r) ==
  /\ At(r, "validate")
  /\ \/ Answer(r, 400)
     \/ /\ request[r].given \in Listed
        /\ Become(r, [request[r] EXCEPT !.pc = "baseline", !.known = request[r].given])
     \/ /\ request[r].given = None
        /\ Goto(r, "categorize")
  /\ UNCHANGED <<accounts, rows, offered>>

-----------------------------------------------------------------------------
(* enrich.  Its context ends after 15 seconds or when the client goes; the *)
(* calls still to come then fail, as any of them may fail by itself.       *)
Cancel(r) ==
  /\ request[r].pc \in {"categorize", "baseline", "assess"}
  /\ ~request[r].cancelled
  /\ Become(r, [request[r] EXCEPT !.cancelled = TRUE])
  /\ UNCHANGED <<accounts, rows, offered>>

(* The provider maps what it cannot place to Other.                        *)
Categorize(r) ==
  /\ At(r, "categorize")
  /\ \/ Goto(r, "baseline")
     \/ /\ ~request[r].cancelled
        /\ \E c \in Listed : Become(r, [request[r] EXCEPT !.pc = "baseline", !.known = c])
  /\ UNCHANGED <<accounts, rows, offered>>

(* Mutant: a baseline that could not be read is taken for an empty one.    *)
ReadBaseline_IgnoresError(r) ==
  /\ At(r, "baseline")
  /\ \/ Goto(r, "assess")
     \/ /\ ~request[r].cancelled
        /\ Become(r, [request[r] EXCEPT !.pc = "assess",
                                        !.read = History(request[r].account)])
  /\ UNCHANGED <<accounts, rows, offered>>

(* baselineFor: the account's history as committed at this moment.         *)
ReadBaseline(r) ==
  /\ At(r, "baseline")
  /\ \/ Goto(r, "insert")
     \/ /\ ~request[r].cancelled
        /\ Become(r, [request[r] EXCEPT !.pc = "assess",
                                        !.read = History(request[r].account)])
  /\ UNCHANGED <<accounts, rows, offered>>

(* Mutant: the assessment runs beside Categorize and does not see what it  *)
(* finds.                                                                  *)
Assess_InParallel(r) ==
  /\ At(r, "assess")
  /\ \/ Goto(r, "insert")
     \/ /\ ~request[r].cancelled
        /\ \E s \in Severities :
             Become(r, [request[r] EXCEPT !.pc = "insert", !.severity = s,
                                          !.assessedAs = request[r].given])
  /\ UNCHANGED <<accounts, rows, offered>>

(* DetectAnomaly, told the category as far as it is known.                 *)
Assess(r) ==
  /\ At(r, "assess")
  /\ \/ Goto(r, "insert")
     \/ /\ ~request[r].cancelled
        /\ \E s \in Severities :
             Become(r, [request[r] EXCEPT !.pc = "insert", !.severity = s,
                                          !.assessedAs = request[r].known])
  /\ UNCHANGED <<accounts, rows, offered>>

-----------------------------------------------------------------------------
ModelCategorized(r) == request[r].given = None /\ request[r].known # None

(* Mutant: the category is left to be filled in when nobody knows it.      *)
RowOf_NoFallback(r) ==
  [account  |-> request[r].account,
   category |-> request[r].known,
   auto     |-> ModelCategorized(r),
   severity |-> request[r].severity,
   provider |-> ModelCategorized(r) \/ request[r].severity # None]

(* The row Create writes, with what enrich managed to produce.             *)
RowOf(r) ==
  [account  |-> request[r].account,
   category |-> IF request[r].known = None THEN Other ELSE request[r].known,
   auto     |-> ModelCategorized(r),
   severity |-> request[r].severity,
   provider |-> ModelCategorized(r) \/ request[r].severity # None]

(* INSERT ... RETURNING on its own connection, not under the request's     *)
(* context: it commits also when the client is gone.  An error may mean    *)
(* that nothing was written, or that only the answer was lost.             *)
Insert(r) ==
  /\ At(r, "insert")
  /\ \/ /\ rows' = Append(rows, RowOf(r))
        /\ \/ Become(r, [request[r] EXCEPT !.pc = "emit", !.row = Len(rows) + 1])
           \/ Answer(r, 500)
     \/ /\ Answer(r, 500)
        /\ UNCHANGED rows
  /\ UNCHANGED <<accounts, offered>>

(* What the lake gets of a row: not its account.                           *)
EventOf(id) == [id |-> id, category |-> rows[id].category,
                severity |-> rows[id].severity, provider |-> rows[id].provider]

(* Mutant: the event is built from what enrich knew, not from the row.     *)
Emit_FromLocals(r) ==
  /\ At(r, "emit")
  /\ offered' = offered \cup {[EventOf(request[r].row) EXCEPT !.category = request[r].known]}
  /\ Goto(r, "respond")
  /\ UNCHANGED <<accounts, rows>>

(* Mutant: go emitter.Emit(...): the answer does not wait for it, and the  *)
(* process may end before it runs.                                         *)
Emit_NotWaitedFor(r) ==
  /\ At(r, "emit")
  /\ offered' \in {offered, offered \cup {EventOf(request[r].row)}}
  /\ Goto(r, "respond")
  /\ UNCHANGED <<accounts, rows>>

Emit(r) ==
  /\ At(r, "emit")
  /\ offered' = offered \cup {EventOf(request[r].row)}
  /\ Goto(r, "respond")
  /\ UNCHANGED <<accounts, rows>>

(* writeJSON: the client learns of it.                                     *)
Respond(r) ==
  /\ At(r, "respond") /\ Answer(r, 201)
  /\ UNCHANGED <<accounts, rows, offered>>

(* The process dies and another takes its place.  A client may send again  *)
(* what it got no answer to, or an error.                                  *)
Crash ==
  /\ request' = [r \in Requests |->
       IF request[r].pc \in {"idle", "done"} THEN request[r]
       ELSE [request[r] EXCEPT !.pc = "done"]]
  /\ UNCHANGED <<accounts, rows, offered>>

Handler(r) ==
  \/ Arrive(r) \/ ReadAccounts(r) \/ Lookup(r) \/ List(r) \/ Validate(r)
  \/ Cancel(r) \/ Categorize(r) \/ ReadBaseline(r) \/ Assess(r)
  \/ Insert(r) \/ Emit(r) \/ Respond(r)

Next ==
  \/ \E u \in Users : CreateAccount(u)
  \/ \E r \in Requests : Handler(r)
  \/ Crash

Spec == Init /\ [][Next]_vars

-----------------------------------------------------------------------------
Row == [account : AccountIds, category : Listed, auto : BOOLEAN,
        severity : Severities \cup {None}, provider : BOOLEAN]

Event == [id : Nat, category : Listed, severity : Severities \cup {None},
          provider : BOOLEAN]

Locals ==
  [pc : {"idle", "accounts", "lookup", "list", "validate", "categorize", "baseline",
         "assess", "insert", "emit", "respond", "done"},
   op : {"create", "list", "accounts", "account"}, user : Users \cup {None}, account : Nat,
   given : Listed \cup {None, Unlisted}, known : Listed \cup {None},
   shown : SUBSET AccountIds, read : SUBSET Nat, severity : Severities \cup {None},
   cancelled : BOOLEAN, row : Nat, status : {0, 200, 201, 400, 404, 500},
   assessedAs : Listed \cup {None}, before : SUBSET Nat]

TypeOK ==
  /\ accounts \in Seq(Users) /\ Len(accounts) <= MaxAccounts
  /\ rows \in Seq(Row)
  /\ offered \subseteq Event
  /\ request \in [Requests -> Locals]

(* transactions.go:187 - "the lake can never contain a transaction the     *)
(* database does not": every event handed to the emitter is that of a      *)
(* committed row and says what the row says, whatever failed on the way.   *)
LakeWithinLedger ==
  \A e \in offered : e.id \in DOMAIN rows /\ e = EventOf(e.id)

(* The other way round a row may be missing from the lake: the process     *)
(* died, or the insert's answer was lost, before Emit.  A client that was  *)
(* told 201 is not deceived, though: the event of its transaction had been *)
(* handed over before, and crashes since then do not matter.               *)
AnsweredIsOffered ==
  \A r \in Requests :
    request[r].status = 201 => request[r].row # 0 /\ EventOf(request[r].row) \in offered

(* An account and its transactions are the business of its owner alone: no *)
(* request reads, writes to, or shows the model what is another user's.    *)
(* Transactions carry no user; the account lookup two to five steps before *)
(* is what this rests on.                                                  *)
Isolation ==
  \A r \in Requests :
    /\ \A a \in request[r].shown : OwnedBy(a, request[r].user)
    /\ \A id \in request[r].read \cup ({request[r].row} \ {0}) :
         OwnedBy(rows[id].account, request[r].user)

(* transactions.go:224 - the assessment "compares like with like": the     *)
(* category a severity was found under is the one stored with it; without  *)
(* one, when the model gave none, the row says Other.                      *)
Stored(r) == rows[request[r].row]

AssessedAsStored ==
  \A r \in Requests :
    request[r].row # 0 /\ Stored(r).severity # None =>
      \/ request[r].assessedAs = Stored(r).category
      \/ request[r].assessedAs = None /\ Stored(r).category = Other

(* A stored severity was found against the whole history of the account:   *)
(* at least what was committed when the request came, never the new row.   *)
AssessedOnWholeHistory ==
  \A r \in Requests :
    request[r].row # 0 /\ Stored(r).severity # None =>
      /\ request[r].before \subseteq request[r].read
      /\ request[r].row \notin request[r].read

=============================================================================
