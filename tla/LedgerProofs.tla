---------------------------- MODULE LedgerProofs ----------------------------
(***************************************************************************)
(* Proofs about Ledger for any number of handlers, users and accounts, any *)
(* closed set of categories and any severities.                            *)
(***************************************************************************)
EXTENDS Ledger, SequenceTheorems, TLAPS

(* Where a handler is: past the ownership check; short of an assessment;   *)
(* short of the insert.                                                    *)
Checked    == {"list", "validate", "categorize", "baseline", "assess", "insert",
               "emit", "respond"}
Unassessed == {"idle", "accounts", "lookup", "list", "validate", "categorize",
               "baseline", "assess"}
Unwritten  == Unassessed \cup {"insert"}

(* What the locals q of a handler have to do with the tables.  The account *)
(* stays the caller's after the check, what was read or written was found  *)
(* there, and the assessment is of the category and the history that the   *)
(* row is going to be stored with.                                         *)
Owned(q) ==
  /\ q.pc \in Checked => OwnedBy(q.account, q.user)
  /\ \A a \in q.shown : OwnedBy(a, q.user)
  /\ q.read \subseteq DOMAIN rows /\ q.row \in {0} \cup DOMAIN rows
  /\ \A id \in q.read \cup ({q.row} \ {0}) : OwnedBy(rows[id].account, q.user)

Since(q) ==
  /\ q.before \subseteq DOMAIN rows
  /\ q.pc \in Unwritten => q.row = 0 /\ \A id \in q.before : rows[id].account = q.account
  /\ q.pc = "assess" => q.before \subseteq q.read
  /\ q.pc = "emit" => q.row # 0

Assessed(q) ==
  /\ q.pc \in Unassessed => q.severity = None /\ q.assessedAs = None
  /\ q.pc = "insert" /\ q.severity # None => q.assessedAs = q.known /\ q.before \subseteq q.read
  /\ q.row # 0 /\ rows[q.row].severity # None =>
       /\ \/ q.assessedAs = rows[q.row].category
          \/ q.assessedAs = None /\ rows[q.row].category = Other
       /\ q.before \subseteq q.read /\ q.row \notin q.read

Good(q) == q \in Locals /\ Owned(q) /\ Since(q) /\ Assessed(q)

Tables ==
  /\ accounts \in Seq(Users) /\ Len(accounts) <= MaxAccounts
  /\ rows \in Seq(Row)
  /\ offered \subseteq Event

IInv ==
  /\ Tables /\ LakeWithinLedger
  /\ request \in [Requests -> Locals]
  /\ \A r \in Requests : Good(request[r])

-----------------------------------------------------------------------------
(* A table that only grows keeps what was said of its rows.                *)
LEMMA Grown ==
  ASSUME NEW S, NEW s \in Seq(S), NEW e \in S
  PROVE  /\ Append(s, e) \in Seq(S) /\ DOMAIN s \subseteq DOMAIN Append(s, e)
         /\ Len(s) \in Nat /\ DOMAIN s = 1..Len(s)
         /\ Len(Append(s, e)) = Len(s) + 1 /\ DOMAIN Append(s, e) = 1 .. (Len(s) + 1)
         /\ \A i \in DOMAIN s : Append(s, e)[i] = s[i]
         /\ Append(s, e)[Len(s) + 1] = e
  BY AppendProperties, LenProperties

(* The rows of an account are rows.                                        *)
LEMMA HistoryType ==
  ASSUME Tables, NEW a
  PROVE  /\ History(a) \subseteq DOMAIN rows /\ DOMAIN rows \subseteq Nat
         /\ DOMAIN rows = 1..Len(rows) /\ Len(rows) \in Nat
         /\ \A id \in History(a) : rows[id].account = a
  BY LenProperties DEF Tables, History

(* Good is not lost by what other handlers append.                         *)
Extended ==
  /\ DOMAIN accounts \subseteq DOMAIN accounts'
  /\ \A a \in DOMAIN accounts : accounts'[a] = accounts[a]
  /\ DOMAIN rows \subseteq DOMAIN rows'
  /\ \A id \in DOMAIN rows : rows'[id] = rows[id]

LEMMA GoodIsStable ==
  ASSUME NEW q, Good(q), Extended, 0 \notin DOMAIN rows
  PROVE  Good(q)'
<1>1. \A a, u : OwnedBy(a, u) => OwnedBy(a, u)'
  BY DEF Extended, OwnedBy
<1>2. q.row # 0 => q.row \in DOMAIN rows
  BY DEF Good, Owned
<1>3. (q \in Locals)'
  BY DEF Good, Locals, AccountIds
<1>4. Owned(q)'
  BY <1>1, <1>2 DEF Good, Owned, Extended
<1>5. Since(q)'
  BY DEF Good, Since, Extended
<1>6. Assessed(q)'
  BY <1>2 DEF Good, Assessed, Extended
<1>. QED  BY <1>3, <1>4, <1>5, <1>6 DEF Good

LEMMA ZeroIsNoRow == Tables => 0 \notin DOMAIN rows
  BY LenProperties DEF Tables

(* A step of one handler that leaves the tables alone is good if the locals *)
(* it ends with are.                                                       *)
LEMMA LocalStep ==
  ASSUME IInv, NEW r \in Requests, NEW q, Good(q),
         Become(r, q), UNCHANGED <<accounts, rows, offered>>
  PROVE  IInv'
<1>1. q \in Locals
  BY DEF Good
<1>2. request' \in [Requests -> Locals] /\ \A s \in Requests : request'[s] = IF s = r THEN q ELSE request[s]
  BY <1>1 DEF IInv, Become
<1>3. Extended /\ 0 \notin DOMAIN rows
  BY ZeroIsNoRow DEF Extended, IInv
<1>4. \A s \in Requests : Good(request'[s])
  BY <1>2 DEF IInv
<1>5. \A p : Good(p) => Good(p)'
  BY <1>3, GoodIsStable
<1>6. (\A s \in Requests : Good(request[s]))'
  BY <1>4, <1>5
<1>7. Tables' /\ LakeWithinLedger'
  BY DEF IInv, Tables, LakeWithinLedger, EventOf
<1>8. (request \in [Requests -> Locals])'
  BY <1>2 DEF Locals, AccountIds
<1>. QED  BY <1>6, <1>7, <1>8 DEF IInv

(* An update of some of the locals F leaves the others as they are.        *)
Changes(a, q, F) == a \in Locals /\ \A f \in DOMAIN q \ F : a[f] = q[f]

(* An answer ends a handler with what it has.                              *)
Answered(q, code) == [q EXCEPT !.pc = "done", !.status = code]

LEMMA AnswerIsGood ==
  ASSUME NEW q, Good(q), NEW code \in {200, 201, 400, 404, 500}
  PROVE  Good(Answered(q, code))
<1>. DEFINE p == [q EXCEPT !.pc = "done"]
            a == [p EXCEPT !.status = code]
<1>1. q \in Locals
  BY DEF Good
<1>2. Changes(p, q, {"pc"}) /\ p.pc = "done"
  BY <1>1 DEF Changes, Locals
<1>. HIDE DEF p
<1>3. Changes(a, p, {"status"})
  BY <1>2 DEF Changes, Locals
<1>. HIDE DEF a
<1>4. /\ a \in Locals /\ a.pc = "done" /\ a.account = q.account /\ a.user = q.user
      /\ a.shown = q.shown /\ a.read = q.read /\ a.row = q.row
      /\ a.before = q.before /\ a.assessedAs = q.assessedAs
  BY <1>1, <1>2, <1>3 DEF Changes, Locals
<1>5. Owned(a)
  BY <1>4 DEF Good, Owned, Checked
<1>6. Since(a)
  BY <1>4 DEF Good, Since, Unwritten, Unassessed
<1>7. Assessed(a)
  BY <1>4 DEF Good, Assessed, Unassessed
<1>8. Good(a)
  BY <1>4, <1>5, <1>6, <1>7 DEF Good
<1>. QED  BY <1>8 DEF a, p, Answered

(* A handler that only moves on: past the check it owns the account, and   *)
(* it comes to no step that needs more than it has.                        *)
LEMMA GotoIsGood ==
  ASSUME NEW q, Good(q),
         NEW x \in {"list", "validate", "categorize", "baseline", "insert", "respond", "done"},
         x \in Checked => OwnedBy(q.account, q.user),
         x \in Unwritten => q.pc \in Unwritten,
         x \in Unassessed => q.pc \in Unassessed,
         x = "insert" => q.severity = None
  PROVE  Good([q EXCEPT !.pc = x])
<1>. DEFINE a == [q EXCEPT !.pc = x]
<1>1. q \in Locals
  BY DEF Good
<1>2. Changes(a, q, {"pc"}) /\ a.pc = x
  BY <1>1 DEF Changes, Locals
<1>. HIDE DEF a
<1>3. /\ a \in Locals /\ a.account = q.account /\ a.user = q.user
      /\ a.shown = q.shown /\ a.read = q.read /\ a.row = q.row /\ a.before = q.before
      /\ a.severity = q.severity /\ a.assessedAs = q.assessedAs
  BY <1>1, <1>2 DEF Changes, Locals
<1>4. Owned(a)
  BY <1>2, <1>3 DEF Good, Owned
<1>5. Since(a)
  BY <1>2, <1>3 DEF Good, Since
<1>6. Assessed(a)
  BY <1>2, <1>3 DEF Good, Assessed
<1>7. Good(a)
  BY <1>3, <1>4, <1>5, <1>6 DEF Good
<1>. QED  BY <1>7 DEF a

LEMMA AnswerStep ==
  ASSUME IInv, NEW r \in Requests, NEW code \in {200, 201, 400, 404, 500},
         Answer(r, code), UNCHANGED <<accounts, rows, offered>>
  PROVE  IInv'
<1>. DEFINE a == Answered(request[r], code)
<1>1. Good(request[r])
  BY DEF IInv
<1>2. Good(a)
  BY <1>1, AnswerIsGood
<1>3. Become(r, a)
  BY DEF Answer, Answered
<1>. QED  BY <1>2, <1>3, LocalStep

LEMMA GotoStep ==
  ASSUME IInv, NEW r \in Requests,
         NEW x \in {"list", "validate", "categorize", "baseline", "insert", "respond", "done"},
         x \in Checked => OwnedBy(request[r].account, request[r].user),
         x \in Unwritten => request[r].pc \in Unwritten,
         x \in Unassessed => request[r].pc \in Unassessed,
         x = "insert" => request[r].severity = None,
         Goto(r, x), UNCHANGED <<accounts, rows, offered>>
  PROVE  IInv'
<1>. DEFINE a == [request[r] EXCEPT !.pc = x]
<1>1. Good(request[r])
  BY DEF IInv
<1>2. Good(a)
  BY <1>1, GotoIsGood
<1>3. Become(r, a)
  BY DEF Goto
<1>. QED  BY <1>2, <1>3, LocalStep

-----------------------------------------------------------------------------
(* One lemma for each step of a handler.                                   *)
LEMMA LookupStep ==
  ASSUME IInv, NEW r \in Requests, Lookup(r)
  PROVE  IInv'
<1>. DEFINE x == IF request[r].op = "list" THEN "list" ELSE "validate"
<1>1. request[r].pc = "lookup" /\ UNCHANGED <<accounts, rows, offered>>
  BY DEF Lookup, At
<1>2. CASE OwnedBy(request[r].account, request[r].user) /\ Goto(r, x)
  BY <1>1, <1>2, GotoStep DEF Checked, Unwritten, Unassessed
<1>3. CASE Answer(r, 404) \/ Answer(r, 500)
  BY <1>1, <1>3, AnswerStep
<1>. QED  BY <1>2, <1>3 DEF Lookup

LEMMA ListStep ==
  ASSUME IInv, NEW r \in Requests, List(r)
  PROVE  IInv'
<1>. DEFINE q == request[r]
            p == [q EXCEPT !.pc = "done"]
            s == [p EXCEPT !.status = 200]
            a == [s EXCEPT !.read = History(q.account)]
<1>1. UNCHANGED <<accounts, rows, offered>> /\ Good(q) /\ q \in Locals /\ q.pc = "list" /\ Tables
  BY DEF List, IInv, At, Good
<1>2. CASE Answer(r, 500)
  BY <1>1, <1>2, AnswerStep
<1>3. CASE Become(r, a)
  <2>1. History(q.account) \subseteq DOMAIN rows /\ History(q.account) \in SUBSET Nat
        /\ \A id \in History(q.account) : rows[id].account = q.account
    BY <1>1, HistoryType
  <2>2. Changes(p, q, {"pc"}) /\ p.pc = "done"
    BY <1>1 DEF Changes, Locals
  <2>. HIDE DEF p
  <2>3. Changes(s, p, {"status"})
    BY <2>2 DEF Changes, Locals
  <2>. HIDE DEF s
  <2>4. Changes(a, s, {"read"}) /\ a.read = History(q.account)
    BY <2>1, <2>3 DEF Changes, Locals
  <2>. HIDE DEF a
  <2>5. /\ a \in Locals /\ a.pc = "done" /\ a.account = q.account /\ a.user = q.user
        /\ a.shown = q.shown /\ a.row = 0 /\ a.before = q.before
    BY <1>1, <2>2, <2>3, <2>4 DEF Changes, Locals, Good, Since, Unwritten, Unassessed
  <2>6. Good(a)
    BY <1>1, <2>1, <2>4, <2>5
       DEF Good, Owned, Since, Assessed, Checked, Unwritten, Unassessed
  <2>. QED  BY <1>1, <1>3, <2>6, LocalStep
<1>. QED  BY <1>2, <1>3 DEF List

(* A handler that has done nothing yet.                                    *)
Blank(q) ==
  /\ q \in Locals /\ q.pc \in {"idle", "accounts", "lookup"}
  /\ q.shown = {} /\ q.read = {} /\ q.row = 0
  /\ q.severity = None /\ q.assessedAs = None

LEMMA BlankIsGood ==
  ASSUME Tables, NEW q, Blank(q),
         \/ q.before = {}
         \/ q.before = History(q.account)
  PROVE  Good(q)
<1>1. q.before \subseteq DOMAIN rows /\ \A id \in q.before : rows[id].account = q.account
  BY HistoryType
<1>. QED  BY <1>1 DEF Good, Blank, Owned, Since, Assessed, Checked, Unwritten, Unassessed

LEMMA FreshIsBlank == Blank(Fresh) /\ Fresh.before = {}
  BY DEF Blank, Fresh, Locals, AccountIds

LEMMA ArriveStep ==
  ASSUME IInv, NEW r \in Requests, Arrive(r)
  PROVE  IInv'
<1>1. UNCHANGED <<accounts, rows, offered>> /\ Tables
  BY DEF Arrive, IInv
<1>2. PICK u \in Users, a \in AccountIds :
        LET asked == [Fresh EXCEPT !.pc = "lookup", !.user = u, !.account = a,
                                   !.before = History(a)]
        IN  \/ \E op \in {"accounts", "account"} :
                 Become(r, [asked EXCEPT !.op = op, !.pc = "accounts", !.before = {}])
            \/ Become(r, [asked EXCEPT !.op = "list"])
            \/ \E c \in Listed \cup {None, Unlisted} : Become(r, [asked EXCEPT !.given = c])
  BY DEF Arrive
<1>. DEFINE p == [Fresh EXCEPT !.pc = "lookup"]
            v == [p EXCEPT !.user = u]
            w == [v EXCEPT !.account = a]
            asked == [w EXCEPT !.before = History(a)]
<1>3. History(a) \in SUBSET Nat
  BY <1>1, HistoryType
<1>4. Blank(asked) /\ asked.account = a /\ asked.before = History(a)
  <2>1. Blank(p)
    BY FreshIsBlank DEF Blank, Locals
  <2>. HIDE DEF p
  <2>2. Blank(v)
    BY <2>1 DEF Blank, Locals
  <2>. HIDE DEF v
  <2>3. Blank(w) /\ w.account = a
    BY <2>2, LedgerAssumption DEF Blank, Locals, AccountIds
  <2>. HIDE DEF w
  <2>. QED  BY <1>3, <2>3 DEF Blank, Locals
<1>5. \/ \E op \in {"accounts", "account"} :
           Become(r, [asked EXCEPT !.op = op, !.pc = "accounts", !.before = {}])
      \/ Become(r, [asked EXCEPT !.op = "list"])
      \/ \E c \in Listed \cup {None, Unlisted} : Become(r, [asked EXCEPT !.given = c])
  BY <1>2
<1>. HIDE DEF asked
<1>6. CASE \E op \in {"accounts", "account"} :
             Become(r, [asked EXCEPT !.op = op, !.pc = "accounts", !.before = {}])
  <2>1. PICK op \in {"accounts", "account"} :
          Become(r, [asked EXCEPT !.op = op, !.pc = "accounts", !.before = {}])
    BY <1>6
  <2>. DEFINE x == [asked EXCEPT !.op = op]
              y == [x EXCEPT !.pc = "accounts"]
              z == [y EXCEPT !.before = {}]
  <2>2. Blank(x)
    BY <1>4 DEF Blank, Locals
  <2>. HIDE DEF x
  <2>3. Blank(y)
    BY <2>2 DEF Blank, Locals
  <2>. HIDE DEF y
  <2>4. Blank(z) /\ z.before = {}
    BY <2>3 DEF Blank, Locals
  <2>5. Become(r, z)
    BY <2>1 DEF x, y
  <2>. HIDE DEF z
  <2>. QED  BY <1>1, <2>4, <2>5, BlankIsGood, LocalStep
<1>7. CASE Become(r, [asked EXCEPT !.op = "list"])
  <2>. DEFINE x == [asked EXCEPT !.op = "list"]
  <2>1. Blank(x) /\ x.account = a /\ x.before = History(a)
    BY <1>4 DEF Blank, Locals
  <2>2. Become(r, x)
    BY <1>7
  <2>. HIDE DEF x
  <2>. QED  BY <1>1, <2>1, <2>2, BlankIsGood, LocalStep
<1>8. CASE \E c \in Listed \cup {None, Unlisted} : Become(r, [asked EXCEPT !.given = c])
  <2>1. PICK c \in Listed \cup {None, Unlisted} : Become(r, [asked EXCEPT !.given = c])
    BY <1>8
  <2>. DEFINE x == [asked EXCEPT !.given = c]
  <2>2. Blank(x) /\ x.account = a /\ x.before = History(a)
    BY <1>4 DEF Blank, Locals
  <2>3. Become(r, x)
    BY <2>1
  <2>. HIDE DEF x
  <2>. QED  BY <1>1, <2>2, <2>3, BlankIsGood, LocalStep
<1>. QED  BY <1>5, <1>6, <1>7, <1>8

LEMMA ReadAccountsStep ==
  ASSUME IInv, NEW r \in Requests, ReadAccounts(r)
  PROVE  IInv'
<1>. DEFINE q == request[r]
            mine == {a \in DOMAIN accounts : OwnedBy(a, q.user)}
            one  == mine \cap {q.account}
            Shows(m) == Become(r, [q EXCEPT !.pc = "done", !.status = 200, !.shown = m])
<1>1. UNCHANGED <<accounts, rows, offered>> /\ Good(q) /\ q \in Locals /\ q.pc = "accounts"
      /\ Tables
  BY DEF ReadAccounts, IInv, At, Good
<1>2. ASSUME NEW m \in {mine, one}, Shows(m)
      PROVE  IInv'
  <2>. DEFINE p == [q EXCEPT !.pc = "done"]
              s == [p EXCEPT !.status = 200]
              a == [s EXCEPT !.shown = m]
  <2>1. m \in SUBSET AccountIds /\ \A b \in m : OwnedBy(b, q.user)
    BY <1>1, LenProperties, LedgerAssumption DEF AccountIds, Tables
  <2>2. Changes(p, q, {"pc"}) /\ p.pc = "done"
    BY <1>1 DEF Changes, Locals
  <2>. HIDE DEF p
  <2>3. Changes(s, p, {"status"})
    BY <2>2 DEF Changes, Locals
  <2>. HIDE DEF s, one, mine
  <2>4. Changes(a, s, {"shown"}) /\ a.shown = m
    BY <2>1, <2>3 DEF Changes, Locals
  <2>5. Become(r, a)
    BY <1>2 DEF p, s
  <2>. HIDE DEF a
  <2>6. /\ a \in Locals /\ a.pc = "done" /\ a.account = q.account /\ a.user = q.user
        /\ a.read = q.read /\ a.row = 0 /\ a.before = q.before
    BY <1>1, <2>2, <2>3, <2>4 DEF Changes, Locals, Good, Since, Unwritten, Unassessed
  <2>7. Good(a)
    BY <1>1, <2>1, <2>4, <2>6
       DEF Good, Owned, Since, Assessed, Checked, Unwritten, Unassessed
  <2>. QED  BY <1>1, <2>5, <2>7, LocalStep
<1>3. Shows(mine) \/ Shows(one) \/ Answer(r, 404) \/ Answer(r, 500)
  BY DEF ReadAccounts
<1>. HIDE DEF Shows, mine, one
<1>4. CASE Answer(r, 404) \/ Answer(r, 500)
  BY <1>1, <1>4, AnswerStep
<1>. QED  BY <1>2, <1>3, <1>4

LEMMA ValidateStep ==
  ASSUME IInv, NEW r \in Requests, Validate(r)
  PROVE  IInv'
<1>. DEFINE q == request[r]
            p == [q EXCEPT !.pc = "baseline"]
            a == [p EXCEPT !.known = q.given]
<1>1. UNCHANGED <<accounts, rows, offered>> /\ Good(q) /\ q \in Locals /\ q.pc = "validate"
  BY DEF Validate, IInv, At, Good
<1>2. CASE Answer(r, 400)
  BY <1>1, <1>2, AnswerStep
<1>3. CASE q.given \in Listed /\ Become(r, a)
  <2>1. Changes(p, q, {"pc"}) /\ p.pc = "baseline"
    BY <1>1 DEF Changes, Locals
  <2>. HIDE DEF p
  <2>2. Changes(a, p, {"known"})
    BY <1>3, <2>1 DEF Changes, Locals
  <2>3. Become(r, a)
    BY <1>3
  <2>. HIDE DEF a
  <2>4. /\ a \in Locals /\ a.pc = "baseline" /\ a.account = q.account /\ a.user = q.user
        /\ a.shown = q.shown /\ a.read = q.read /\ a.row = q.row /\ a.before = q.before
        /\ a.severity = q.severity /\ a.assessedAs = q.assessedAs
    BY <1>1, <2>1, <2>2 DEF Changes, Locals
  <2>5. Good(a)
    BY <1>1, <2>4 DEF Good, Owned, Since, Assessed, Checked, Unwritten, Unassessed
  <2>. QED  BY <1>1, <2>3, <2>5, LocalStep
<1>4. CASE Goto(r, "categorize")
  <2>1. OwnedBy(q.account, q.user)
    BY <1>1 DEF Good, Owned, Checked
  <2>. QED  BY <1>1, <1>4, <2>1, GotoStep DEF Unwritten, Unassessed
<1>. QED  BY <1>2, <1>3, <1>4 DEF Validate

LEMMA CancelStep ==
  ASSUME IInv, NEW r \in Requests, Cancel(r)
  PROVE  IInv'
<1>. DEFINE q == request[r]
            a == [q EXCEPT !.cancelled = TRUE]
<1>1. UNCHANGED <<accounts, rows, offered>> /\ Good(q) /\ Become(r, a)
  BY DEF Cancel, IInv
<1>2. q \in Locals
  BY <1>1 DEF Good
<1>. HIDE DEF q
<1>3. Changes(a, q, {"cancelled"})
  <2>1. \A b \in BOOLEAN : [q EXCEPT !.cancelled = b] \in Locals
    BY <1>2 DEF Locals
  <2>2. \A f \in DOMAIN q \ {"cancelled"} : a[f] = q[f]
    BY <1>2 DEF Locals
  <2>. QED  BY <2>1, <2>2 DEF Changes
<1>. HIDE DEF a
<1>4. /\ a \in Locals /\ a.pc = q.pc /\ a.account = q.account /\ a.user = q.user
      /\ a.shown = q.shown /\ a.read = q.read /\ a.row = q.row /\ a.before = q.before
      /\ a.known = q.known /\ a.severity = q.severity /\ a.assessedAs = q.assessedAs
  BY <1>2, <1>3 DEF Changes, Locals
<1>5. Good(a)
  BY <1>1, <1>4 DEF Good, Owned, Since, Assessed
<1>. QED  BY <1>1, <1>5, LocalStep

LEMMA CategorizeStep ==
  ASSUME IInv, NEW r \in Requests, Categorize(r)
  PROVE  IInv'
<1>. DEFINE q == request[r]
<1>1. UNCHANGED <<accounts, rows, offered>> /\ Good(q) /\ q \in Locals /\ q.pc = "categorize"
  BY DEF Categorize, IInv, At, Good
<1>2. CASE Goto(r, "baseline")
  <2>1. OwnedBy(q.account, q.user)
    BY <1>1 DEF Good, Owned, Checked
  <2>. QED  BY <1>1, <1>2, <2>1, GotoStep DEF Unwritten, Unassessed
<1>3. CASE \E c \in Listed : Become(r, [q EXCEPT !.pc = "baseline", !.known = c])
  <2>1. PICK c \in Listed : Become(r, [q EXCEPT !.pc = "baseline", !.known = c])
    BY <1>3
  <2>. DEFINE p == [q EXCEPT !.pc = "baseline"]
              a == [p EXCEPT !.known = c]
  <2>2. Changes(p, q, {"pc"}) /\ p.pc = "baseline"
    BY <1>1 DEF Changes, Locals
  <2>. HIDE DEF p
  <2>3. Changes(a, p, {"known"})
    BY <2>2 DEF Changes, Locals
  <2>4. Become(r, a)
    BY <2>1 DEF p
  <2>. HIDE DEF a
  <2>5. /\ a \in Locals /\ a.pc = "baseline" /\ a.account = q.account /\ a.user = q.user
        /\ a.shown = q.shown /\ a.read = q.read /\ a.row = q.row /\ a.before = q.before
        /\ a.severity = q.severity /\ a.assessedAs = q.assessedAs
    BY <1>1, <2>2, <2>3 DEF Changes, Locals
  <2>6. Good(a)
    BY <1>1, <2>5 DEF Good, Owned, Since, Assessed, Checked, Unwritten, Unassessed
  <2>. QED  BY <1>1, <2>4, <2>6, LocalStep
<1>. QED  BY <1>2, <1>3 DEF Categorize

(* The rows read are those there at this moment, among them all that were  *)
(* there when the request came.                                            *)
LEMMA ReadBaselineStep ==
  ASSUME IInv, NEW r \in Requests, ReadBaseline(r)
  PROVE  IInv'
<1>. DEFINE q == request[r]
            p == [q EXCEPT !.pc = "assess"]
            a == [p EXCEPT !.read = History(q.account)]
<1>1. UNCHANGED <<accounts, rows, offered>> /\ Good(q) /\ q \in Locals /\ q.pc = "baseline"
      /\ Tables
  BY DEF ReadBaseline, IInv, At, Good
<1>2. OwnedBy(q.account, q.user)
  BY <1>1 DEF Good, Owned, Checked
<1>3. CASE Goto(r, "insert")
  <2>1. q.severity = None
    BY <1>1 DEF Good, Assessed, Unassessed
  <2>. QED  BY <1>1, <1>2, <1>3, <2>1, GotoStep DEF Unwritten, Unassessed
<1>4. CASE Become(r, a)
  <2>1. /\ History(q.account) \subseteq DOMAIN rows /\ History(q.account) \in SUBSET Nat
        /\ \A id \in History(q.account) : rows[id].account = q.account
        /\ q.before \subseteq History(q.account)
    BY <1>1, HistoryType DEF Good, Since, Unwritten, Unassessed, History
  <2>2. Changes(p, q, {"pc"}) /\ p.pc = "assess"
    BY <1>1 DEF Changes, Locals
  <2>. HIDE DEF p
  <2>3. Changes(a, p, {"read"}) /\ a.read = History(q.account)
    BY <2>1, <2>2 DEF Changes, Locals
  <2>4. Become(r, a)
    BY <1>4
  <2>. HIDE DEF a
  <2>5. /\ a \in Locals /\ a.pc = "assess" /\ a.account = q.account /\ a.user = q.user
        /\ a.shown = q.shown /\ a.row = 0 /\ a.before = q.before
        /\ a.severity = q.severity /\ a.assessedAs = q.assessedAs
    BY <1>1, <2>2, <2>3 DEF Changes, Locals, Good, Since, Unwritten, Unassessed
  <2>6. Good(a)
    BY <1>1, <1>2, <2>1, <2>3, <2>5
       DEF Good, Owned, Since, Assessed, Checked, Unwritten, Unassessed
  <2>. QED  BY <1>1, <2>4, <2>6, LocalStep
<1>. QED  BY <1>3, <1>4 DEF ReadBaseline

(* What is assessed is the category as far as it is known.                 *)
LEMMA AssessStep ==
  ASSUME IInv, NEW r \in Requests, Assess(r)
  PROVE  IInv'
<1>. DEFINE q == request[r]
<1>1. UNCHANGED <<accounts, rows, offered>> /\ Good(q) /\ q \in Locals /\ q.pc = "assess"
  BY DEF Assess, IInv, At, Good
<1>2. CASE Goto(r, "insert")
  <2>1. q.severity = None /\ OwnedBy(q.account, q.user)
    BY <1>1 DEF Good, Owned, Checked, Assessed, Unassessed
  <2>. QED  BY <1>1, <1>2, <2>1, GotoStep DEF Unwritten, Unassessed
<1>3. CASE \E s \in Severities :
             Become(r, [q EXCEPT !.pc = "insert", !.severity = s, !.assessedAs = q.known])
  <2>1. PICK s \in Severities :
          Become(r, [q EXCEPT !.pc = "insert", !.severity = s, !.assessedAs = q.known])
    BY <1>3
  <2>. DEFINE p == [q EXCEPT !.pc = "insert"]
              v == [p EXCEPT !.severity = s]
              a == [v EXCEPT !.assessedAs = q.known]
  <2>2. Changes(p, q, {"pc"}) /\ p.pc = "insert"
    BY <1>1 DEF Changes, Locals
  <2>. HIDE DEF p
  <2>3. Changes(v, p, {"severity"})
    BY <2>2 DEF Changes, Locals
  <2>. HIDE DEF v
  <2>4. Changes(a, v, {"assessedAs"}) /\ a.assessedAs = q.known
    BY <1>1, <2>3 DEF Changes, Locals
  <2>5. Become(r, a)
    BY <2>1 DEF p, v
  <2>. HIDE DEF a
  <2>6. /\ a \in Locals /\ a.pc = "insert" /\ a.account = q.account /\ a.user = q.user
        /\ a.shown = q.shown /\ a.read = q.read /\ a.row = 0 /\ a.before = q.before
        /\ a.known = q.known
    BY <1>1, <2>2, <2>3, <2>4 DEF Changes, Locals, Good, Since, Unwritten, Unassessed
  <2>7. Good(a)
    BY <1>1, <2>4, <2>6 DEF Good, Owned, Since, Assessed, Checked, Unwritten, Unassessed
  <2>. QED  BY <1>1, <2>5, <2>7, LocalStep
<1>. QED  BY <1>2, <1>3 DEF Assess

LEMMA RespondStep ==
  ASSUME IInv, NEW r \in Requests, Respond(r)
  PROVE  IInv'
  BY AnswerStep DEF Respond

-----------------------------------------------------------------------------
(* The steps that write.  A step that only adds to the tables keeps what   *)
(* they and the lake had to do with each other.                            *)
LEMMA AppendStep ==
  ASSUME IInv, Tables', Extended, UNCHANGED offered,
         request' \in [Requests -> Locals], (\A r \in Requests : Good(request[r]))'
  PROVE  IInv'
<1>1. LakeWithinLedger'
  BY DEF IInv, LakeWithinLedger, Extended, EventOf
<1>2. (request \in [Requests -> Locals])'
  BY DEF Locals, AccountIds
<1>. QED  BY <1>1, <1>2 DEF IInv

LEMMA CreateAccountStep ==
  ASSUME IInv, NEW u \in Users, CreateAccount(u)
  PROVE  IInv'
<1>1. UNCHANGED <<rows, offered, request>> /\ Tables
  BY DEF CreateAccount, IInv
<1>2. Tables' /\ Extended
  BY <1>1, LedgerAssumption, Grown DEF CreateAccount, Tables, Extended, Row, Event, AccountIds
<1>3. \A q : Good(q) => Good(q)'
  BY <1>1, <1>2, GoodIsStable, ZeroIsNoRow
<1>4. \A r \in Requests : Good(request'[r])
  BY <1>1 DEF IInv
<1>5. (\A r \in Requests : Good(request[r]))'
  BY <1>3, <1>4
<1>. QED  BY <1>1, <1>2, <1>5, AppendStep DEF IInv

(* The row that an insert writes is a row, of an account that the caller   *)
(* owns.                                                                   *)
LEMMA RowOfType ==
  ASSUME Tables, NEW r \in Requests, Good(request[r]), request[r].pc = "insert"
  PROVE  RowOf(r) \in Row
<1>. DEFINE q == request[r]
<1>1. q \in Locals /\ q.account \in DOMAIN accounts
  BY DEF Good, Owned, Checked, OwnedBy
<1>2. q.account \in AccountIds
  BY <1>1, LenProperties, LedgerAssumption DEF Tables, AccountIds
<1>3. q.known \in Listed \cup {None} /\ q.severity \in Severities \cup {None}
  BY <1>1 DEF Locals
<1>4. (IF q.known = None THEN Other ELSE q.known) \in Listed
  BY <1>3, LedgerAssumption
<1>5. ModelCategorized(r) \in BOOLEAN
  BY DEF ModelCategorized
<1>6. (ModelCategorized(r) \/ q.severity # None) \in BOOLEAN
  BY <1>5
<1>. QED  BY <1>2, <1>3, <1>4, <1>5, <1>6 DEF RowOf, Row

LEMMA InsertStep ==
  ASSUME IInv, NEW r \in Requests, Insert(r)
  PROVE  IInv'
<1>0. PICK q, n : q = request[r] /\ n = Len(rows) + 1
  OBVIOUS
<1>. DEFINE p == [q EXCEPT !.pc = "emit"]
            a == [p EXCEPT !.row = n]
<1>1. UNCHANGED <<accounts, offered>> /\ Good(q) /\ q \in Locals /\ q.pc = "insert" /\ Tables
  BY <1>0 DEF Insert, IInv, At, Good
<1>2. CASE Answer(r, 500) /\ UNCHANGED rows
  BY <1>1, <1>2, AnswerStep
<1>3. ASSUME rows' = Append(rows, RowOf(r))
      PROVE  /\ Tables' /\ Extended /\ rows'[n] = RowOf(r)
             /\ n \in Nat /\ n # 0 /\ n \in DOMAIN rows' /\ n \notin DOMAIN rows
  <2>1. RowOf(r) \in Row
    BY <1>0, <1>1, RowOfType
  <2>2. rows \in Seq(Row) /\ accounts' = accounts
    BY <1>1 DEF Tables
  <2>3. /\ rows' \in Seq(Row) /\ DOMAIN rows \subseteq DOMAIN rows'
        /\ Len(rows) \in Nat /\ DOMAIN rows = 1..Len(rows)
        /\ DOMAIN rows' = 1 .. (Len(rows) + 1)
        /\ \A i \in DOMAIN rows : rows'[i] = rows[i]
        /\ rows'[Len(rows) + 1] = RowOf(r)
    BY <1>3, <2>1, <2>2, Grown
  <2>4. Tables'
    BY <1>1, <2>3 DEF Tables, Row, Event, AccountIds
  <2>5. n \in Nat /\ n # 0 /\ n \in DOMAIN rows' /\ n \notin DOMAIN rows
    BY <1>0, <2>3
  <2>. QED  BY <1>0, <2>2, <2>3, <2>4, <2>5 DEF Extended
<1>4. ASSUME rows' = Append(rows, RowOf(r)), NEW b, Become(r, b), Good(b)'
      PROVE  IInv'
  <2>1. Tables' /\ Extended /\ 0 \notin DOMAIN rows
    BY <1>1, <1>3, <1>4, ZeroIsNoRow
  <2>2. b \in Locals
    BY <1>4 DEF Good, Locals, AccountIds
  <2>3. /\ request' \in [Requests -> Locals]
        /\ \A s \in Requests : request'[s] = IF s = r THEN b ELSE request[s]
    BY <1>4, <2>2 DEF IInv, Become
  <2>4. \A c : Good(c) => Good(c)'
    BY <2>1, GoodIsStable
  <2>5. \A s \in Requests : request'[s] = b \/ Good(request'[s])
    BY <2>3 DEF IInv
  <2>6. (\A s \in Requests : Good(request[s]))'
    BY <1>4, <2>4, <2>5
  <2>. QED  BY <1>1, <2>1, <2>3, <2>6, AppendStep
<1>5. CASE rows' = Append(rows, RowOf(r)) /\ Answer(r, 500)
  <2>1. Good(Answered(q, 500))
    BY <1>1, AnswerIsGood
  <2>2. Good(Answered(q, 500))'
    BY <1>1, <1>3, <1>5, <2>1, GoodIsStable, ZeroIsNoRow
  <2>3. Become(r, Answered(q, 500))
    BY <1>0, <1>5 DEF Answer, Answered
  <2>. QED  BY <1>4, <1>5, <2>2, <2>3
<1>6. CASE rows' = Append(rows, RowOf(r)) /\ Become(r, a)
  <2>1. /\ Extended /\ n \in Nat /\ n # 0 /\ n \in DOMAIN rows' /\ n \notin DOMAIN rows
        /\ rows'[n] = RowOf(r)
    BY <1>3, <1>6
  <2>2. Changes(p, q, {"pc"}) /\ p.pc = "emit"
    BY <1>1 DEF Changes, Locals
  <2>. HIDE DEF p
  <2>4. Changes(a, p, {"row"}) /\ a.row = n
    BY <2>1, <2>2 DEF Changes, Locals
  <2>3. Become(r, a)
    BY <1>6
  <2>. HIDE DEF a
  <2>5. /\ a \in Locals /\ a.pc = "emit" /\ a.account = q.account /\ a.user = q.user
        /\ a.shown = q.shown /\ a.read = q.read /\ a.before = q.before
        /\ a.known = q.known /\ a.severity = q.severity /\ a.assessedAs = q.assessedAs
    BY <1>1, <2>2, <2>4 DEF Changes, Locals
  <2>6. /\ rows'[n].account = q.account /\ rows'[n].severity = q.severity
        /\ rows'[n].category = IF q.known = None THEN Other ELSE q.known
    BY <1>0, <2>1 DEF RowOf
  <2>7. \A b, u : OwnedBy(b, u) => OwnedBy(b, u)'
    BY <2>1 DEF Extended, OwnedBy
  <2>8. Owned(a)'
    BY <1>1, <2>1, <2>4, <2>5, <2>6, <2>7 DEF Good, Owned, Checked, Extended
  <2>9. Since(a)'
    BY <1>1, <2>1, <2>4, <2>5 DEF Good, Since, Unwritten, Unassessed, Extended
  <2>10. Assessed(a)'
    <3>1. q.severity # None => q.assessedAs = q.known /\ q.before \subseteq q.read
      BY <1>1 DEF Good, Assessed
    <3>2. q.read \subseteq DOMAIN rows
      BY <1>1 DEF Good, Owned
    <3>. QED  BY <2>1, <2>4, <2>5, <2>6, <3>1, <3>2 DEF Assessed, Unassessed
  <2>11. Good(a)'
    BY <2>5, <2>8, <2>9, <2>10 DEF Good, Locals, AccountIds
  <2>. QED  BY <1>4, <1>6, <2>3, <2>11
<1>. QED  BY <1>0, <1>2, <1>5, <1>6 DEF Insert

(* What the emitter is handed is read off the row that was inserted.       *)
LEMMA EmitStep ==
  ASSUME IInv, NEW r \in Requests, Emit(r)
  PROVE  IInv'
<1>. DEFINE q == request[r]
            a == [q EXCEPT !.pc = "respond"]
<1>1. UNCHANGED <<accounts, rows>> /\ Good(q) /\ q \in Locals /\ q.pc = "emit" /\ Tables
      /\ offered' = offered \cup {EventOf(q.row)}
  BY DEF Emit, IInv, At, Good
<1>2. q.row \in DOMAIN rows /\ rows[q.row] \in Row /\ q.row \in Nat
  BY <1>1, LenProperties DEF Good, Owned, Since, Tables
<1>3. EventOf(q.row) \in Event /\ EventOf(q.row).id = q.row
  BY <1>2 DEF EventOf, Event, Row
<1>4. Tables' /\ LakeWithinLedger'
  <2>1. \A id : EventOf(id)' = EventOf(id)
    BY <1>1 DEF EventOf
  <2>2. \A e \in offered' : e \in Event /\ e.id \in DOMAIN rows /\ e = EventOf(e.id)
    BY <1>1, <1>2, <1>3 DEF IInv, LakeWithinLedger, Tables
  <2>3. LakeWithinLedger'
    BY <1>1, <2>1, <2>2 DEF LakeWithinLedger
  <2>4. (offered \subseteq Event)'
    BY <2>2 DEF Event
  <2>. QED  BY <1>1, <2>3, <2>4 DEF Tables, Row, AccountIds
<1>5. Good(a)
  <2>1. OwnedBy(q.account, q.user)
    BY <1>1 DEF Good, Owned, Checked
  <2>. QED  BY <1>1, <2>1, GotoIsGood DEF Unwritten, Unassessed
<1>6. Become(r, a)
  BY DEF Emit, Goto
<1>. HIDE DEF a
<1>7. a \in Locals
  BY <1>5 DEF Good
<1>8. request' \in [Requests -> Locals] /\ \A s \in Requests : Good(request'[s])
  BY <1>5, <1>6, <1>7 DEF IInv, Become
<1>9. \A c : Good(c) => Good(c)'
  BY <1>1, GoodIsStable, ZeroIsNoRow DEF Extended
<1>10. (\A s \in Requests : Good(request[s]))'
  BY <1>8, <1>9
<1>11. (request \in [Requests -> Locals])'
  BY <1>8 DEF Locals, AccountIds
<1>. QED  BY <1>4, <1>10, <1>11 DEF IInv

(* What a crash leaves of a handler is the history of it.                  *)
LEMMA CrashStep ==
  ASSUME IInv, Crash
  PROVE  IInv'
<1>. DEFINE Ended(r) == [request[r] EXCEPT !.pc = "done"]
<1>1. UNCHANGED <<accounts, rows, offered>> /\ Tables /\ LakeWithinLedger
  BY DEF Crash, IInv
<1>2. \A r \in Requests : Good(request[r]) /\ Good(Ended(r))
  <2>1. SUFFICES ASSUME NEW r \in Requests
                 PROVE  Good(request[r]) /\ Good(Ended(r))
    OBVIOUS
  <2>2. Good(request[r])
    BY DEF IInv
  <2>. QED  BY <2>2, GotoIsGood DEF Checked, Unwritten, Unassessed
<1>3. request' = [r \in Requests |-> IF request[r].pc \in {"idle", "done"} THEN request[r]
                                     ELSE Ended(r)]
  BY DEF Crash
<1>. HIDE DEF Ended
<1>4. request' \in [Requests -> Locals] /\ \A r \in Requests : Good(request'[r])
  BY <1>2, <1>3 DEF Good
<1>5. \A c : Good(c) => Good(c)'
  BY <1>1, GoodIsStable, ZeroIsNoRow DEF Extended
<1>6. (\A r \in Requests : Good(request[r]))'
  BY <1>4, <1>5
<1>7. Tables' /\ LakeWithinLedger'
  BY <1>1 DEF Tables, LakeWithinLedger, EventOf
<1>8. (request \in [Requests -> Locals])'
  BY <1>4 DEF Locals, AccountIds
<1>. QED  BY <1>6, <1>7, <1>8 DEF IInv

-----------------------------------------------------------------------------
(* A server that starts on empty tables, its handlers yet to be called.    *)
LEMMA InitIInv == Init => IInv
<1>. SUFFICES ASSUME Init PROVE IInv
  OBVIOUS
<1>1. Tables /\ LakeWithinLedger
  BY LedgerAssumption, EmptySeq DEF Init, Tables, LakeWithinLedger
<1>2. \A r \in Requests : request[r] = Fresh
  BY DEF Init
<1>3. Good(Fresh) /\ Fresh \in Locals
  BY <1>1, FreshIsBlank, BlankIsGood DEF Blank
<1>4. request \in [Requests -> Locals]
  BY <1>3 DEF Init
<1>. QED  BY <1>1, <1>2, <1>3, <1>4 DEF IInv

(* Every step of a handler, every new account and every crash keeps what   *)
(* the locals of the handlers have to do with the tables.                  *)
LEMMA NextIInv == IInv /\ [Next]_vars => IInv'
<1>. SUFFICES ASSUME IInv, [Next]_vars PROVE IInv'
  OBVIOUS
<1>1. ASSUME NEW u \in Users, CreateAccount(u) PROVE IInv'
  BY <1>1, CreateAccountStep
<1>2. ASSUME NEW r \in Requests, Handler(r) PROVE IInv'
  BY <1>2, ArriveStep, ReadAccountsStep, LookupStep, ListStep, ValidateStep, CancelStep,
     CategorizeStep, ReadBaselineStep, AssessStep, InsertStep, EmitStep, RespondStep
     DEF Handler
<1>3. CASE Crash
  BY <1>3, CrashStep
<1>4. CASE UNCHANGED vars
  <2>1. Extended /\ 0 \notin DOMAIN rows
    BY <1>4, ZeroIsNoRow DEF vars, Extended, IInv
  <2>2. (\A r \in Requests : Good(request[r]))'
    BY <1>4, <2>1, GoodIsStable DEF IInv, vars
  <2>3. (request \in [Requests -> Locals])'
    BY <1>4 DEF IInv, vars, Locals, AccountIds
  <2>4. Tables' /\ LakeWithinLedger'
    BY <1>4 DEF IInv, vars, Tables, LakeWithinLedger, EventOf
  <2>. QED  BY <2>2, <2>3, <2>4 DEF IInv
<1>. QED  BY <1>1, <1>2, <1>3, <1>4 DEF Next

(* The inductive invariant: whatever the interleaving of the handlers, and *)
(* whenever the process dies, each handler's locals are still true of the  *)
(* tables it is about to write to or has read.                             *)
THEOREM LocalsFitTables == Spec => []IInv
<1>1. Init => IInv
  BY InitIInv
<1>2. IInv /\ [Next]_vars => IInv'
  BY NextIInv
<1>. QED  BY <1>1, <1>2, PTL DEF Spec

-----------------------------------------------------------------------------
(* Tables, events and locals keep their types: no insert stores a category *)
(* that is not listed, whatever the client and the model said.             *)
THEOREM TypeCorrect == Spec => []TypeOK
<1>1. IInv => TypeOK
  BY DEF IInv, Tables, TypeOK
<1>. QED  BY <1>1, LocalsFitTables, PTL

(* transactions.go:187 - the lake can never contain a transaction that the *)
(* database does not, nor one that says something else.                    *)
THEOREM LakeIsWithinLedger == Spec => []LakeWithinLedger
<1>1. IInv => LakeWithinLedger
  BY DEF IInv
<1>. QED  BY <1>1, LocalsFitTables, PTL

(* accountOwnedBy, asked once, is enough: no request shows, reads or       *)
(* writes what belongs to another user, for any number of concurrent       *)
(* requests, new accounts and crashes.                                     *)
THEOREM UsersAreIsolated == Spec => []Isolation
<1>1. IInv => Isolation
  BY DEF IInv, Good, Owned, Isolation
<1>. QED  BY <1>1, LocalsFitTables, PTL

(* transactions.go:224 - a severity is stored under the category that it   *)
(* was found for, whichever of the two calls to the model failed.          *)
THEOREM SeverityFitsCategory == Spec => []AssessedAsStored
<1>1. IInv => AssessedAsStored
  BY DEF IInv, Good, Assessed, AssessedAsStored, Stored
<1>. QED  BY <1>1, LocalsFitTables, PTL

(* baselineFor reads before the insert and after the request came: a       *)
(* stored severity was found against all of the account's history, and     *)
(* never against the transaction itself.                                   *)
THEOREM SeverityFitsHistory == Spec => []AssessedOnWholeHistory
<1>1. IInv => AssessedOnWholeHistory
  BY DEF IInv, Good, Assessed, AssessedOnWholeHistory, Stored
<1>. QED  BY <1>1, LocalsFitTables, PTL

-----------------------------------------------------------------------------
(* What a client was told.  A handler has no status before it is done, and *)
(* the one that is about to answer 201 has handed its event over.          *)
Truthful(q) ==
  /\ q.pc # "done" => q.status = 0
  /\ q.pc = "respond" \/ q.status = 201 => q.row \in DOMAIN rows /\ EventOf(q.row) \in offered

HInv == \A r \in Requests : Truthful(request[r])

LEMMA TruthIsStable ==
  ASSUME NEW q, Truthful(q), Extended, offered \subseteq offered'
  PROVE  Truthful(q)'
<1>1. \A id \in DOMAIN rows : EventOf(id)' = EventOf(id)
  BY DEF Extended, EventOf
<1>. QED  BY <1>1 DEF Truthful, Extended

LEMMA TruthfulStep ==
  ASSUME IInv, HInv, NEW r \in Requests, NEW q, Become(r, q), Truthful(q)',
         Extended, offered \subseteq offered'
  PROVE  HInv'
<1>1. \A s \in Requests : request'[s] = IF s = r THEN q ELSE request[s]
  BY DEF IInv, Become
<1>2. \A p : Truthful(p) => Truthful(p)'
  BY TruthIsStable
<1>3. \A s \in Requests : request'[s] = q \/ Truthful(request'[s])
  BY <1>1 DEF HInv
<1>. QED  BY <1>2, <1>3 DEF HInv

(* A step after which the handler is not about to say 201 and has not said *)
(* it.                                                                     *)
LEMMA QuietStep ==
  ASSUME IInv, HInv, NEW r \in Requests, NEW q, Become(r, q),
         q.pc # "done" => q.status = 0, q.pc # "respond", q.status # 201,
         UNCHANGED <<accounts, rows, offered>>
  PROVE  HInv'
<1>1. Extended
  BY DEF Extended
<1>2. Truthful(q)'
  BY DEF Truthful
<1>. QED  BY <1>1, <1>2, TruthfulStep

LEMMA HInvInit == Init => HInv
  BY DEF Init, HInv, Fresh, Truthful

LEMMA HInvHandler ==
  ASSUME IInv, HInv, NEW r \in Requests, Handler(r)
  PROVE  HInv'
<1>0. PICK q : q = request[r]
  OBVIOUS
<1>1. q \in Locals /\ Truthful(q)
  BY <1>0 DEF IInv, HInv
<1>2. ASSUME NEW code \in {200, 400, 404, 500}, Answer(r, code),
             UNCHANGED <<accounts, rows, offered>>
      PROVE  HInv'
  <2>. DEFINE a == [q EXCEPT !.pc = "done", !.status = code]
  <2>1. a.pc = "done" /\ a.status # 201 /\ Become(r, a)
    BY <1>0, <1>1, <1>2 DEF Answer, Locals
  <2>. HIDE DEF a
  <2>. QED  BY <1>0, <1>2, <2>1, QuietStep
<1>3. ASSUME NEW x \in {"list", "validate", "categorize", "baseline", "insert"}, Goto(r, x),
             q.pc # "done", UNCHANGED <<accounts, rows, offered>>
      PROVE  HInv'
  <2>. DEFINE a == [q EXCEPT !.pc = x]
  <2>1. a.pc = x /\ a.status = 0 /\ Become(r, a)
    BY <1>0, <1>1, <1>3 DEF Goto, Locals, Truthful
  <2>. HIDE DEF a
  <2>. QED  BY <1>0, <1>3, <2>1, QuietStep
<1>4. CASE Arrive(r)
  <2>0. UNCHANGED <<accounts, rows, offered>>
    BY <1>4 DEF Arrive
  <2>1. PICK u \in Users, a \in AccountIds :
          LET asked == [Fresh EXCEPT !.pc = "lookup", !.user = u, !.account = a,
                                     !.before = History(a)]
          IN  \/ \E op \in {"accounts", "account"} :
                   Become(r, [asked EXCEPT !.op = op, !.pc = "accounts", !.before = {}])
              \/ Become(r, [asked EXCEPT !.op = "list"])
              \/ \E c \in Listed \cup {None, Unlisted} : Become(r, [asked EXCEPT !.given = c])
    BY <1>4 DEF Arrive
  <2>. DEFINE b == [Fresh EXCEPT !.pc = "lookup", !.user = u, !.account = a,
                                 !.before = History(a)]
  <2>2. {"pc", "op", "given", "before", "status"} \subseteq DOMAIN b
        /\ b.pc = "lookup" /\ b.status = 0
    BY DEF Fresh
  <2>3. \/ \E op \in {"accounts", "account"} :
             Become(r, [b EXCEPT !.op = op, !.pc = "accounts", !.before = {}])
        \/ Become(r, [b EXCEPT !.op = "list"])
        \/ \E c \in Listed \cup {None, Unlisted} : Become(r, [b EXCEPT !.given = c])
    BY <2>1
  <2>. HIDE DEF b
  <2>4. ASSUME NEW op, Become(r, [b EXCEPT !.op = op, !.pc = "accounts", !.before = {}])
        PROVE  HInv'
    <3>. DEFINE d == [b EXCEPT !.op = op, !.pc = "accounts", !.before = {}]
    <3>1. d.pc = "accounts" /\ d.status = 0 /\ Become(r, d)
      BY <2>2, <2>4
    <3>. HIDE DEF d
    <3>. QED  BY <2>0, <3>1, QuietStep
  <2>5. CASE Become(r, [b EXCEPT !.op = "list"])
    <3>. DEFINE d == [b EXCEPT !.op = "list"]
    <3>1. d.pc = "lookup" /\ d.status = 0 /\ Become(r, d)
      BY <2>2, <2>5
    <3>. HIDE DEF d
    <3>. QED  BY <2>0, <3>1, QuietStep
  <2>6. ASSUME NEW c, Become(r, [b EXCEPT !.given = c])
        PROVE  HInv'
    <3>. DEFINE d == [b EXCEPT !.given = c]
    <3>1. d.pc = "lookup" /\ d.status = 0 /\ Become(r, d)
      BY <2>2, <2>6
    <3>. HIDE DEF d
    <3>. QED  BY <2>0, <3>1, QuietStep
  <2>. QED  BY <2>3, <2>4, <2>5, <2>6
<1>5. CASE ReadAccounts(r)
  <2>0. UNCHANGED <<accounts, rows, offered>>
    BY <1>5 DEF ReadAccounts
  <2>1. ASSUME NEW m, Become(r, [q EXCEPT !.pc = "done", !.status = 200, !.shown = m])
        PROVE  HInv'
    <3>. DEFINE a == [q EXCEPT !.pc = "done", !.status = 200, !.shown = m]
    <3>1. a.pc = "done" /\ a.status = 200 /\ Become(r, a)
      BY <1>1, <2>1 DEF Locals
    <3>. HIDE DEF a
    <3>. QED  BY <2>0, <3>1, QuietStep
  <2>2. \/ \E m : Become(r, [q EXCEPT !.pc = "done", !.status = 200, !.shown = m])
        \/ Answer(r, 404) \/ Answer(r, 500)
    BY <1>0, <1>5 DEF ReadAccounts
  <2>3. ASSUME Answer(r, 404) \/ Answer(r, 500)
        PROVE  HInv'
    BY <1>2, <2>0, <2>3
  <2>. QED  BY <2>1, <2>2, <2>3, Zenon
<1>6. CASE Lookup(r)
  BY <1>0, <1>2, <1>3, <1>6 DEF Lookup, At
<1>7. CASE List(r)
  <2>. DEFINE a == [q EXCEPT !.pc = "done", !.status = 200, !.read = History(q.account)]
  <2>1. a.pc = "done" /\ a.status = 200
    BY <1>0, <1>1 DEF Locals
  <2>2. Become(r, a) \/ Answer(r, 500)
    BY <1>0, <1>7 DEF List
  <2>. HIDE DEF a
  <2>. QED  BY <1>0, <1>2, <1>7, <2>1, <2>2, QuietStep DEF List
<1>8. CASE Validate(r)
  <2>. DEFINE a == [q EXCEPT !.pc = "baseline", !.known = q.given]
  <2>1. a.pc = "baseline" /\ a.status = 0
    BY <1>0, <1>1, <1>8 DEF Locals, Validate, At, Truthful
  <2>2. Become(r, a) \/ Answer(r, 400) \/ Goto(r, "categorize")
    BY <1>0, <1>8 DEF Validate
  <2>. HIDE DEF a
  <2>. QED  BY <1>0, <1>2, <1>3, <1>8, <2>1, <2>2, QuietStep DEF Validate, At
<1>9. CASE Cancel(r)
  <2>. DEFINE a == [q EXCEPT !.cancelled = TRUE]
  <2>1. a.pc \notin {"done", "respond"} /\ a.status = 0 /\ Become(r, a)
    BY <1>0, <1>1, <1>9 DEF Locals, Cancel, Truthful
  <2>. HIDE DEF a
  <2>. QED  BY <1>0, <1>9, <2>1, QuietStep DEF Cancel
<1>10. CASE Categorize(r)
  <2>0. UNCHANGED <<accounts, rows, offered>> /\ q.pc = "categorize"
    BY <1>0, <1>10 DEF Categorize, At
  <2>1. q.status = 0
    BY <1>1, <2>0 DEF Truthful
  <2>2. ASSUME NEW c, Become(r, [q EXCEPT !.pc = "baseline", !.known = c])
        PROVE  HInv'
    <3>. DEFINE a == [q EXCEPT !.pc = "baseline", !.known = c]
    <3>1. a.pc = "baseline" /\ a.status = 0
      BY <1>1, <2>1 DEF Locals
    <3>2. Become(r, a)
      BY <2>2
    <3>. HIDE DEF a
    <3>. QED  BY <2>0, <3>1, <3>2, QuietStep
  <2>3. Goto(r, "baseline") => HInv'
    BY <1>3, <2>0
  <2>4. \/ Goto(r, "baseline")
        \/ \E c : Become(r, [q EXCEPT !.pc = "baseline", !.known = c])
    BY <1>0, <1>10 DEF Categorize
  <2>. QED  BY <2>2, <2>3, <2>4, Zenon
<1>11. CASE ReadBaseline(r)
  <2>. DEFINE a == [q EXCEPT !.pc = "assess", !.read = History(q.account)]
  <2>1. a.pc = "assess" /\ a.status = 0
    BY <1>0, <1>1, <1>11 DEF Locals, ReadBaseline, At, Truthful
  <2>2. Become(r, a) \/ Goto(r, "insert")
    BY <1>0, <1>11 DEF ReadBaseline
  <2>. HIDE DEF a
  <2>. QED  BY <1>0, <1>3, <1>11, <2>1, <2>2, QuietStep DEF ReadBaseline, At
<1>12. CASE Assess(r)
  <2>0. UNCHANGED <<accounts, rows, offered>> /\ q.pc = "assess"
    BY <1>0, <1>12 DEF Assess, At
  <2>1. q.status = 0
    BY <1>1, <2>0 DEF Truthful
  <2>2. ASSUME NEW s, Become(r, [q EXCEPT !.pc = "insert", !.severity = s, !.assessedAs = q.known])
        PROVE  HInv'
    <3>. DEFINE a == [q EXCEPT !.pc = "insert", !.severity = s, !.assessedAs = q.known]
    <3>1. a.pc = "insert" /\ a.status = 0
      BY <1>1, <2>1 DEF Locals
    <3>2. Become(r, a)
      BY <2>2
    <3>. HIDE DEF a
    <3>. QED  BY <2>0, <3>1, <3>2, QuietStep
  <2>3. Goto(r, "insert") => HInv'
    BY <1>3, <2>0
  <2>4. \/ Goto(r, "insert")
        \/ \E s : Become(r, [q EXCEPT !.pc = "insert", !.severity = s, !.assessedAs = q.known])
    BY <1>0, <1>12 DEF Assess
  <2>. QED  BY <2>2, <2>3, <2>4, Zenon
<1>13. CASE Insert(r)
  <2>1. Extended /\ offered' = offered
    <3>1. CASE UNCHANGED rows
      BY <1>0, <1>13, <3>1 DEF Insert, Extended
    <3>2. CASE rows' = Append(rows, RowOf(r))
      <4>1. RowOf(r) \in Row /\ rows \in Seq(Row)
        BY <1>0, <1>13, RowOfType DEF Insert, At, IInv, Tables
      <4>. QED  BY <1>0, <1>13, <3>2, <4>1, Grown DEF Insert, Extended
    <3>. QED  BY <1>0, <1>13, <3>1, <3>2 DEF Insert
  <2>2. PICK a : Become(r, a) /\ a.pc # "respond" /\ a.status # 201
                 /\ (a.pc # "done" => a.status = 0)
    <3>. DEFINE e == [q EXCEPT !.pc = "emit", !.row = Len(rows) + 1]
                f == [q EXCEPT !.pc = "done", !.status = 500]
    <3>1. e.pc = "emit" /\ e.status = 0 /\ f.pc = "done" /\ f.status = 500
      BY <1>0, <1>1, <1>13 DEF Locals, Insert, At, Truthful
    <3>2. Become(r, e) \/ Become(r, f)
      BY <1>0, <1>13 DEF Insert, Answer
    <3>. HIDE DEF e, f
    <3>. QED  BY <3>1, <3>2
  <2>3. Truthful(a)'
    BY <2>2 DEF Truthful
  <2>. QED  BY <2>1, <2>2, <2>3, TruthfulStep
<1>14. CASE Emit(r)
  <2>. DEFINE a == [q EXCEPT !.pc = "respond"]
  <2>1. a.pc = "respond" /\ a.status = 0 /\ a.row = q.row /\ Become(r, a)
    BY <1>0, <1>1, <1>14 DEF Locals, Emit, At, Goto, Truthful
  <2>. HIDE DEF a
  <2>2. q.row \in DOMAIN rows
    BY <1>0, <1>14 DEF IInv, Good, Owned, Since, Emit, At
  <2>3. UNCHANGED <<accounts, rows>> /\ offered' = offered \cup {EventOf(q.row)}
    BY <1>0, <1>14 DEF Emit
  <2>4. Extended /\ EventOf(q.row)' = EventOf(q.row)
    BY <2>3 DEF Extended, EventOf
  <2>5. Truthful(a)'
    BY <2>1, <2>2, <2>3 DEF Truthful, EventOf
  <2>. QED  BY <2>1, <2>3, <2>4, <2>5, TruthfulStep
<1>15. CASE Respond(r)
  <2>. DEFINE a == [q EXCEPT !.pc = "done", !.status = 201]
  <2>1. a.pc = "done" /\ a.row = q.row /\ Become(r, a)
    BY <1>0, <1>1, <1>15 DEF Locals, Respond, Answer
  <2>. HIDE DEF a
  <2>2. Truthful(a) /\ Extended /\ offered' = offered
    BY <1>0, <1>1, <1>15, <2>1 DEF Truthful, Respond, At, Extended
  <2>. QED  BY <2>1, <2>2, TruthfulStep, TruthIsStable
<1>. QED
  BY <1>0, <1>4, <1>5, <1>6, <1>7, <1>8, <1>9, <1>10, <1>11, <1>12, <1>13, <1>14, <1>15
     DEF Handler

LEMMA HInvNext == IInv /\ HInv /\ [Next]_vars => HInv'
<1>. SUFFICES ASSUME IInv, HInv, [Next]_vars PROVE HInv'
  OBVIOUS
<1>1. ASSUME NEW u \in Users, CreateAccount(u) PROVE HInv'
  <2>1. UNCHANGED <<rows, offered, request>>
    BY <1>1 DEF CreateAccount
  <2>. QED  BY <2>1 DEF HInv, Truthful, EventOf
<1>2. ASSUME NEW r \in Requests, Handler(r) PROVE HInv'
  BY <1>2, HInvHandler
<1>3. CASE Crash
  <2>1. UNCHANGED <<rows, offered>>
    BY <1>3 DEF Crash
  <2>2. ASSUME NEW r \in Requests PROVE Truthful(request'[r])
    <3>1. request[r] \in Locals /\ Truthful(request[r])
      BY DEF IInv, HInv
    <3>2. request'[r] = IF request[r].pc \in {"idle", "done"} THEN request[r]
                        ELSE [request[r] EXCEPT !.pc = "done"]
      BY <1>3 DEF Crash
    <3>. DEFINE a == [request[r] EXCEPT !.pc = "done"]
    <3>3. a.pc = "done" /\ a.status = request[r].status /\ a.row = request[r].row
      BY <3>1 DEF Locals
    <3>. HIDE DEF a
    <3>. QED  BY <3>1, <3>2, <3>3 DEF Truthful, a
  <2>. QED  BY <2>1, <2>2 DEF HInv, Truthful, EventOf
<1>4. CASE UNCHANGED vars
  BY <1>4 DEF vars, HInv, Truthful, EventOf
<1>. QED  BY <1>1, <1>2, <1>3, <1>4 DEF Next

(* transactions.go:191 - Emit comes before the answer: no client is told   *)
(* 201 of a transaction whose event was not handed to the emitter, though  *)
(* the process may die at any moment.                                      *)
THEOREM NoAnswerBeforeEmit == Spec => []AnsweredIsOffered
<1>1. Init => IInv /\ HInv
  BY InitIInv, HInvInit
<1>2. IInv /\ HInv /\ [Next]_vars => (IInv /\ HInv)'
  BY NextIInv, HInvNext
<1>3. IInv /\ HInv => AnsweredIsOffered
  BY ZeroIsNoRow DEF IInv, HInv, Truthful, AnsweredIsOffered
<1>. QED  BY <1>1, <1>2, <1>3, PTL DEF Spec

=============================================================================
