------------------------------ MODULE Summary ------------------------------
(***************************************************************************)
(* The two reports of the API (app/internal/handlers): the dashboard's     *)
(* summary, five queries in a row, and the insights, two queries and a     *)
(* call of the model provider.  No transaction is around the queries: each *)
(* sees what is committed when it runs, while accounts and transactions    *)
(* are inserted beside it.  Any of them may fail.                          *)
(*                                                                         *)
(* An instant is a number of half days, so that a day has a midnight, the  *)
(* time of a date without one, and a noon, the time of the request.  Money *)
(* is in whole units.  Tables only grow; their order is that of commits.   *)
(***************************************************************************)
EXTENDS Integers, Sequences, FiniteSets, FiniteSetsExt

CONSTANTS Users, None,
          Kinds,      \* what may be inserted: [amount, date, category, severity]
          Balances,   \* opening balances
          Now, Days,  \* the time of the request and the days of the summary
          Windows,    \* what insights may be asked for: <<from, to>>
          Limit,      \* how many anomalies are listed
          MaxAccounts, MaxRows

ASSUME SummaryAssumption ==
  /\ None \notin Users
  /\ Windows \subseteq Nat \X Nat
  /\ Now \in Nat /\ Days \in Nat \ {0} /\ 2 * Days <= Now
  /\ Limit \in Nat \ {0} /\ MaxAccounts \in Nat /\ MaxRows \in Nat
  /\ Balances \subseteq Int
  /\ IsFiniteSet(Kinds) /\ \A k \in Kinds : k.amount \in Int /\ k.date \in Nat

VARIABLES
  accounts,  \* [owner, balance] by id
  rows,      \* transactions: [account, amount, date, category, severity]
  req        \* the locals of the handler, and its response

vars == <<accounts, rows, req>>

Day(t) == t \div 2

(* The days there is something to say about.                               *)
MaxDay == Max({Day(Now)} \cup {Day(k.date) : k \in Kinds})

(* `seen` is history: how many transactions were committed when each query *)
(* ran.  `text` is what the insights say.                                  *)
Idle == [pc |-> "idle", op |-> "summary", user |-> None,
         start |-> 0, end |-> 0,
         listed |-> {}, net |-> 0, deltas |-> <<>>, categories |-> <<>>,
         inflow |-> 0, outflow |-> 0, headlines |-> {},
         text |-> "nothing", status |-> 0,
         seen |-> [deltas |-> 0, categories |-> 0, cashflow |-> 0]]

Init == accounts = <<>> /\ rows = <<>> /\ req = Idle

-----------------------------------------------------------------------------
(* The writers: AccountHandler.Create and TransactionHandler.Create, whose *)
(* insert leaves the account alone.                                        *)
CreateAccount ==
  /\ Len(accounts) < MaxAccounts
  /\ \E u \in Users, b \in Balances :
       accounts' = Append(accounts, [owner |-> u, balance |-> b, opened |-> b])
  /\ UNCHANGED <<rows, req>>

InsertTransaction ==
  /\ Len(rows) < MaxRows
  /\ \E a \in DOMAIN accounts, k \in Kinds : rows' = Append(rows, [row |-> k, account |-> a])
  /\ UNCHANGED <<accounts, req>>

-----------------------------------------------------------------------------
(* The queries, over what is committed now.                                *)
Mine(u) == {i \in DOMAIN rows : accounts[rows[i].account].owner = u}

Total(ids) == MapThenSumSet(LAMBDA i : rows[i].row.amount, ids)

(* dailyDeltas: the days an account has no movement on count as zero.      *)
DailyDeltas(u, start) ==
  [p \in (DOMAIN accounts) \X (Day(start)..MaxDay) |->
     Total({i \in Mine(u) : /\ rows[i].account = p[1] /\ rows[i].row.date >= start
                            /\ Day(rows[i].row.date) = p[2]})]

Within(u, start, end) == {i \in Mine(u) : rows[i].row.date >= start /\ rows[i].row.date < end}

(* Mutant: both ends of the window are in it.                              *)
CategoryOutflow_ThroughEnd(u, start, end) ==
  LET out == {i \in Within(u, start, end + 1) : rows[i].row.amount < 0}
  IN  [c \in {rows[i].row.category : i \in out} |->
         [count |-> Cardinality(out),
          total |-> -Total({i \in out : rows[i].row.category = c})]]

(* Mutant: the signed amounts are summed.                                  *)
CategoryOutflow_Signed(u, start, end) ==
  LET all == Within(u, start, end)
  IN  [c \in {rows[i].row.category : i \in all} |->
         [count |-> Cardinality(all),
          total |-> -Total({i \in all : rows[i].row.category = c})]]

(* categoryOutflow: what went out, by category; none of zero.              *)
CategoryOutflow(u, start, end) ==
  LET out   == {i \in Within(u, start, end) : rows[i].row.amount < 0}
      Of(c) == {i \in out : rows[i].row.category = c}
  IN  [c \in {rows[i].row.category : i \in out} |->
         [count |-> Cardinality(Of(c)), total |-> -Total(Of(c))]]

(* Mutant: everybody's transactions are added up.                          *)
Cashflow_OfAll(u, start, end) ==
  LET ids == {i \in DOMAIN rows : rows[i].row.date >= start /\ rows[i].row.date < end}
  IN  [inflow  |-> Total({i \in ids : rows[i].row.amount > 0}),
       outflow |-> -Total({i \in ids : rows[i].row.amount < 0})]

Cashflow(u, start, end) ==
  [inflow  |-> Total({i \in Within(u, start, end) : rows[i].row.amount > 0}),
   outflow |-> -Total({i \in Within(u, start, end) : rows[i].row.amount < 0})]

Abs(n) == IF n < 0 THEN -n ELSE n

(* ORDER BY: high before medium, then by magnitude.                        *)
Before(i, j) ==
  LET r == rows[i].row  s == rows[j].row
  IN  \/ r.severity = "high" /\ s.severity = "medium"
      \/ r.severity = s.severity /\ Abs(r.amount) > Abs(s.amount)

Flagged(u, start) == {i \in Mine(u) : /\ rows[i].row.date >= start
                                      /\ rows[i].row.severity \in {"medium", "high"}}

(* The first Limit of them; SQL leaves ties open.                          *)
Anomalies(u, start) ==
  LET all == Flagged(u, start)
  IN  {S \in SUBSET all :
         /\ Cardinality(S) = IF Cardinality(all) < Limit THEN Cardinality(all) ELSE Limit
         /\ \A i \in S, j \in all \ S : ~Before(j, i)}

-----------------------------------------------------------------------------
(* Mutant: a day's movement is undone from its own point on.               *)
BalanceSeries_TooEarly(current, deltas, first, last) ==
  LET point[i \in first..last] == (IF i = last THEN current ELSE point[i + 1]) - deltas[i]
  IN  point

(* balanceSeries: from the stored balance backwards, undoing each day.     *)
BalanceSeries(current, deltas, first, last) ==
  LET point[i \in first..last] == IF i = last THEN current ELSE point[i + 1] - deltas[i + 1]
  IN  point

Sparkline(a) ==
  LET days == Day(req.start)..Day(req.end)
  IN  BalanceSeries(a.balance, [d \in days |-> req.deltas[<<a.id, d>>]],
                    Day(req.start), Day(req.end))

BalancePoint(d) == MapThenSumSet(LAMBDA a : Sparkline(a)[d], req.listed)

Spend == MapThenSumSet(LAMBDA c : req.categories[c].total, DOMAIN req.categories)

(* Stub.GenerateInsights.                                                  *)
StubInsights ==
  IF DOMAIN req.categories = {} THEN "no_transactions"
  ELSE IF req.inflow - req.outflow >= 0 THEN "spent_less" ELSE "spent_more"

-----------------------------------------------------------------------------
Reply(locals) == req' = locals /\ UNCHANGED <<accounts, rows>>

(* The summary has a window of whole days up to now; the insights have the *)
(* one asked for, or 400 if it is empty.  A number of days out of bounds   *)
(* is answered 400 as well, before anything is read (summary.go:76), and   *)
(* is not asked for here.                                                  *)
Arrive ==
  /\ req.pc = "idle"
  /\ \E u \in Users :
       LET asked == [req EXCEPT !.user = u, !.start = Now - 2 * Days, !.end = Now]
       IN  \/ Reply([asked EXCEPT !.pc = "accounts"])
           \/ \E w \in Windows :
                Reply([asked EXCEPT !.op = "insights", !.start = w[1], !.end = w[2],
                         !.pc = IF w[1] < w[2] THEN "categories" ELSE "done",
                         !.status = IF w[1] < w[2] THEN 0 ELSE 400])

Accounts ==
  /\ req.pc = "accounts"
  /\ LET mine == {a \in DOMAIN accounts : accounts[a].owner = req.user}
     IN  Reply([req EXCEPT !.pc = "deltas",
                  !.listed = {[id |-> a, balance |-> accounts[a].balance] : a \in mine},
                  !.net = MapThenSumSet(LAMBDA a : accounts[a].balance, mine)])

Deltas ==
  /\ req.pc = "deltas"
  /\ Reply([req EXCEPT !.pc = "categories", !.deltas = DailyDeltas(req.user, req.start),
                       !.seen.deltas = Len(rows)])

Categories ==
  /\ req.pc = "categories"
  /\ Reply([req EXCEPT !.pc = "cashflow",
                       !.categories = CategoryOutflow(req.user, req.start, req.end),
                       !.seen.categories = Len(rows)])

Flow ==
  /\ req.pc = "cashflow"
  /\ LET flow == Cashflow(req.user, req.start, req.end)
     IN  Reply([req EXCEPT !.pc = IF req.op = "summary" THEN "anomalies" ELSE "model",
                           !.inflow = flow.inflow, !.outflow = flow.outflow,
                           !.seen.cashflow = Len(rows)])

Headlines ==
  /\ req.pc = "anomalies"
  /\ \E S \in Anomalies(req.user, req.start) :
       Reply([req EXCEPT !.pc = "done", !.status = 200, !.headlines = S])

(* GenerateInsights: the stub's text, a model's, or its failure.           *)
Insights ==
  /\ req.pc = "model"
  /\ \/ Reply([req EXCEPT !.pc = "done", !.status = 200, !.text = StubInsights])
     \/ Reply([req EXCEPT !.pc = "done", !.status = 200, !.text = "model"])
     \/ \E s \in {500, 503} : Reply([req EXCEPT !.pc = "done", !.status = s])

QueryFails ==
  /\ req.pc \in {"accounts", "deltas", "categories", "cashflow", "anomalies"}
  /\ Reply([req EXCEPT !.pc = "done", !.status = 500])

Handler == Arrive \/ Accounts \/ Deltas \/ Categories \/ Flow \/ Headlines \/ Insights \/ QueryFails

Done == req.pc = "done" /\ UNCHANGED vars

Next == CreateAccount \/ InsertTransaction \/ Handler \/ Done

Spec == Init /\ [][Next]_vars

-----------------------------------------------------------------------------
TypeOK ==
  /\ Len(accounts) <= MaxAccounts
  /\ \A a \in DOMAIN accounts : accounts[a].owner \in Users /\ accounts[a].balance \in Balances
  /\ Len(rows) <= MaxRows
  /\ \A i \in DOMAIN rows : rows[i].account \in DOMAIN accounts /\ rows[i].row \in Kinds
  /\ req.pc \in {"idle", "accounts", "deltas", "categories", "cashflow", "anomalies", "model", "done"}
  /\ req.status \in {0, 200, 400, 500, 503}
  /\ req.inflow >= 0 /\ req.outflow >= 0
  /\ \A c \in DOMAIN req.categories : req.categories[c].total > 0 /\ req.categories[c].count > 0
  /\ req.headlines \subseteq DOMAIN rows

Shown(op) == req.status = 200 /\ req.op = op

(* summary.go:38 - a sparkline is "the account's balance at the end of     *)
(* each day": the stored balance without what is dated on later days of    *)
(* the window, as committed when the movements were read.                  *)
SparklinesUndoWhatCameLater ==
  Shown("summary") => \A a \in req.listed, d \in Day(req.start)..Day(req.end) :
    Sparkline(a)[d] = a.balance -
      Total({i \in 1..req.seen.deltas : /\ rows[i].account = a.id
                                        /\ Day(rows[i].row.date) \in (d + 1)..Day(req.end)})

(* The chart and the totals beside it come from different queries with     *)
(* different bounds, and agree on what the window moved if nothing was     *)
(* committed between them and nothing is dated between the request and the *)
(* end of its day.  The first day's own movement is before the first point.*)
ChartAgreesWithTotals ==
  /\ Shown("summary")
  /\ req.seen.deltas = req.seen.cashflow
  /\ \A a \in DOMAIN accounts :
       accounts[a].owner = req.user => \E b \in req.listed : b.id = a
  /\ \A i \in DOMAIN rows : ~(rows[i].row.date >= req.end /\ Day(rows[i].row.date) = Day(req.end))
  => LET first == MapThenSumSet(LAMBDA a : req.deltas[<<a.id, Day(req.start)>>], req.listed)
     IN  BalancePoint(Day(req.end)) - BalancePoint(Day(req.start)) + first
           = req.inflow - req.outflow

(* Spending by category never exceeds the outflow of the same response and *)
(* is all of it unless a transaction came between the two queries; and so  *)
(* the insights' "You spent ..., less than you took in" (stub.go:260),     *)
(* which puts the sum of one query beside a comparison from the other, is  *)
(* true of the figures shown with it.                                      *)
BreakdownWithinOutflow ==
  req.status = 200 =>
    /\ Spend <= req.outflow
    /\ req.seen.categories = req.seen.cashflow => Spend = req.outflow
    /\ req.text = "spent_less" => Spend <= req.inflow

(* summary.go:219 - "Only the current balance is stored": what was entered *)
(* as happening now is in it.                                              *)
StoredBalanceIsCurrent ==
  \A a \in DOMAIN accounts :
    accounts[a].balance = accounts[a].opened +
      Total({i \in DOMAIN rows : rows[i].account = a /\ rows[i].row.date = Now})

=============================================================================
