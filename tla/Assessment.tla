----------------------------- MODULE Assessment -----------------------------
(***************************************************************************)
(* What the model provider (app/internal/ai) makes of a transaction, from  *)
(* the request to the database's verdict on the row: Categorize, the       *)
(* account's history as baselineFor sums it up, DetectAnomaly, the insert. *)
(* The stub computes its answers; Bedrock's are whatever a language model  *)
(* says, decoded and mapped onto the closed sets.  One transaction at a    *)
(* time: how handlers interleave is Ledger's.                              *)
(*                                                                         *)
(* A description is the set of categories it has keywords of.  Money is in *)
(* whole units.  A text from the model is the byte widths of its runes, as *)
(* it is cut by them, and whether a NUL is among them.  MaxStored bounds   *)
(* the history.  The database answers: that it may not is Ledger's too.    *)
(*                                                                         *)
(* No name is shared with Summary, so that one module can prove about both.*)
(***************************************************************************)
EXTENDS Integers, Sequences, FiniteSets, FiniteSetsExt

CONSTANTS Keyworded,   \* categoryKeywords: the categories in their order
          Income, Other,
          Amounts,
          Unlisted, Missing,
          RuneTexts, MaxReason,
          MaxStored

Listed     == {Keyworded[i] : i \in DOMAIN Keyworded} \cup {Income, Other}
Severities == {"none", "low", "medium", "high"}

ASSUME AssessmentAssumption ==
  /\ Keyworded \in Seq(Listed)
  /\ Amounts \subseteq Int /\ IsFiniteSet(Amounts)
  /\ Unlisted \notin Listed \cup Severities /\ Missing \notin Listed \cup Severities
  /\ RuneTexts \subseteq Seq(Nat) /\ MaxReason \in Nat /\ MaxStored \in Nat

VARIABLES
  provider,  \* what buildAIProvider chose
  stored,    \* the account's transactions: how many of each kind
  tx,        \* the transaction being created
  fits       \* whether the columns hold what its request brings

assessmentVars == <<provider, stored, tx, fits>>

RowKinds == Listed \X Amounts

NoReason == [says |-> "nothing", of |-> Missing, storable |-> TRUE]

NoTransaction ==
  [pc |-> "idle", amount |-> 0, about |-> {}, category |-> Missing,
   severity |-> Missing, reason |-> NoReason, status |-> 0]

AssessmentInit ==
  /\ provider \in {"stub", "bedrock"}
  /\ stored = [k \in RowKinds |-> 0]
  /\ tx = NoTransaction
  /\ fits = TRUE

-----------------------------------------------------------------------------
Size(n) == IF n < 0 THEN -n ELSE n

Summed(w, S) == MapThenSumSet(LAMBDA i : w[i], S)

(* Over the stored rows of some categories: how many, and their magnitudes.*)
SumOver(w, cs) == Summed(w, cs \X Amounts)

Magnitudes == [k \in RowKinds |-> stored[k] * Size(k[2])]

(* Mutant: the amounts are summed with their signs.                        *)
Stat_Signed(c) ==
  [count |-> SumOver(stored, {c}),
   total |-> Size(SumOver([k \in RowKinds |-> stored[k] * k[2]], {c})),
   max   |-> Max({0} \cup {Size(a) : a \in {b \in Amounts : stored[<<c, b>>] > 0}})]

(* One line of baselineFor: a category's transactions, by magnitude.       *)
Stat(c) ==
  [count |-> SumOver(stored, {c}),
   total |-> SumOver(Magnitudes, {c}),
   max   |-> Max({0} \cup {Size(a) : a \in {b \in Amounts : stored[<<c, b>>] > 0}})]

Baseline == [c \in {d \in Listed : \E a \in Amounts : stored[<<d, a>>] > 0} |-> Stat(c)]

(* ValidCategory, ValidSeverity: what the model says, mapped onto the sets.*)
ValidCategory(c) == IF c \in Listed THEN c ELSE Other

(* Mutant: any severity is passed on.                                      *)
ValidSeverity_AsGiven(s) == s

ValidSeverity(s) == IF s \in Severities THEN s ELSE "none"

(* truncate(s, max) cuts bytes: a rune that straddles the limit is halved. *)
Bytes(text) == MapThenSumSet(LAMBDA i : text[i], DOMAIN text)

CutsRune(text, max) ==
  /\ Bytes(text) > max
  /\ \A n \in 0..Len(text) : Bytes(SubSeq(text, 1, n)) # max

-----------------------------------------------------------------------------
(* The stub.  The first category in the list with a keyword in the         *)
(* description; else money coming in is income.                            *)
StubCategory(amount, about) ==
  LET found == {i \in DOMAIN Keyworded : Keyworded[i] \in about}
  IN  IF found # {} THEN Keyworded[Min(found)]
      ELSE IF amount > 0 THEN Income ELSE Other

Verdict(severity, says, of) ==
  [severity |-> severity, reason |-> [says |-> says, of |-> of, storable |-> TRUE]]

(* Mutant: the fallback goes unmentioned.                                  *)
Peers_FallbackUnnamed(category, baseline) ==
  [of |-> category, in |-> IF category \in DOMAIN baseline THEN {category} ELSE DOMAIN baseline]

(* What a transaction is measured against: its category if that has any    *)
(* history, else the account.                                              *)
Peers(category, baseline) ==
  IF category \in DOMAIN baseline THEN [of |-> category, in |-> {category}]
  ELSE [of |-> Missing, in |-> DOMAIN baseline]

(* The thresholds.  The mean is total / count; what the code divides is    *)
(* multiplied out here.                                                    *)
Scored(amount, of, count, total, largest) ==
  LET Above(k) == Size(amount) * count > total * k
  IN  CASE count = 0 -> Verdict("none", "no_history", Missing)
        [] count > 0 /\ amount > 0 ->
             IF Above(10) THEN Verdict("low", "times", Missing)
             ELSE Verdict("none", "consistent", Missing)
        [] OTHER ->
             IF Size(amount) > largest * 2 /\ Above(4) THEN Verdict("high", "double", of)
             ELSE IF Above(3) THEN Verdict("medium", "times", of)
             ELSE IF Above(2) THEN Verdict("low", "times", of)
             ELSE Verdict("none", "consistent", Missing)

(* Stub.DetectAnomaly.                                                     *)
StubVerdict(amount, category, baseline) ==
  LET peers == Peers(category, baseline)
  IN  Scored(amount, peers.of,
             Summed([c \in peers.in |-> baseline[c].count], peers.in),
             Summed([c \in peers.in |-> baseline[c].total], peers.in),
             Max({0} \cup {baseline[c].max : c \in peers.in}))

-----------------------------------------------------------------------------
(* Bedrock.complete: a call comes back with an error, a refusal, no text,  *)
(* text that is not the JSON asked for, or an answer.  All but the last    *)
(* are ErrUnavailable.                                                     *)
Replies == {"error", "refusal", "empty", "garbled", "answer"}

Complete(reply) == reply = "answer"

BedrockCategory(raw) == ValidCategory(raw)

BedrockVerdict(raw, text, nul) ==
  [severity |-> ValidSeverity(raw),
   reason   |-> [says |-> "model", of |-> Missing,
                 storable |-> ~CutsRune(text, MaxReason) /\ ~nul]]

-----------------------------------------------------------------------------
(* Create, once the request is valid: a listed category or none.  What it  *)
(* looks at no further is whether the amount is within the DECIMAL(12,2)   *)
(* of its column, and whether the description has a NUL in it.             *)
Create ==
  /\ tx.pc \in {"idle", "done"}
  /\ \E a \in Amounts :
       \/ \E c \in Listed :
            tx' = [NoTransaction EXCEPT !.pc = "assess", !.amount = a, !.category = c]
       \/ \E d \in SUBSET {Keyworded[i] : i \in DOMAIN Keyworded} :
            tx' = [NoTransaction EXCEPT !.pc = "categorize", !.amount = a, !.about = d]
  /\ fits' \in BOOLEAN
  /\ UNCHANGED <<provider, stored>>

(* A failed answer leaves the category open, to be stored as Other.        *)
Categorize ==
  /\ tx.pc = "categorize"
  /\ \/ /\ provider = "stub"
        /\ tx' = [tx EXCEPT !.pc = "assess", !.about = {},
                            !.category = StubCategory(tx.amount, tx.about)]
     \/ /\ provider = "bedrock"
        /\ \E reply \in Replies, raw \in Listed \cup {Unlisted} :
             tx' = [tx EXCEPT !.pc = "assess", !.about = {},
                      !.category = IF Complete(reply) THEN BedrockCategory(raw) ELSE Missing]
  /\ UNCHANGED <<provider, stored, fits>>

(* DetectAnomaly on the baseline; or the query, or the call, fails.        *)
Assess ==
  /\ tx.pc = "assess"
  /\ LET Judged(v) == tx' = [tx EXCEPT !.pc = "insert", !.severity = v.severity,
                                       !.reason = v.reason]
     IN  \/ provider = "stub" /\ Judged(StubVerdict(tx.amount, tx.category, Baseline))
         \/ /\ provider = "bedrock"
            /\ \E reply \in Replies, raw \in Severities \cup {Unlisted}, text \in RuneTexts,
                  nul \in BOOLEAN :
                 Complete(reply) /\ Judged(BedrockVerdict(raw, text, nul))
         \/ tx' = [tx EXCEPT !.pc = "insert"]
  /\ UNCHANGED <<provider, stored, fits>>

Category == IF tx.category = Missing THEN Other ELSE tx.category

(* The columns' CHECKs and types: numbers in their range, text that is     *)
(* UTF-8 without a NUL.                                                    *)
Accepted ==
  /\ fits
  /\ Category \in Listed
  /\ tx.severity \in Severities \cup {Missing}
  /\ tx.reason.storable

(* The insert.  What fails here is an answer of 500, whoever wrote the     *)
(* value that the database refuses.                                        *)
Insert ==
  /\ tx.pc = "insert"
  /\ \/ /\ Accepted
        /\ SumOver(stored, Listed) < MaxStored
        /\ stored' = [stored EXCEPT ![<<Category, tx.amount>>] = @ + 1]
        /\ tx' = [tx EXCEPT !.pc = "done", !.status = 201]
     \/ /\ ~Accepted
        /\ tx' = [tx EXCEPT !.pc = "done", !.status = 500]
        /\ UNCHANGED stored
  /\ UNCHANGED <<provider, fits>>

Full == /\ SumOver(stored, Listed) >= MaxStored /\ tx.pc = "insert" /\ Accepted
        /\ UNCHANGED assessmentVars

AssessmentNext == Create \/ Categorize \/ Assess \/ Insert \/ Full

AssessmentSpec == AssessmentInit /\ [][AssessmentNext]_assessmentVars

-----------------------------------------------------------------------------
(* Whatever a language model says, category and severity are such as the   *)
(* tables accept.                                                          *)
AssessmentTypeOK ==
  /\ provider \in {"stub", "bedrock"}
  /\ stored \in [RowKinds -> 0..MaxStored]
  /\ tx.pc \in {"idle", "categorize", "assess", "insert", "done"}
  /\ tx.amount \in Amounts \cup {0}
  /\ tx.category \in Listed \cup {Missing}
  /\ tx.severity \in Severities \cup {Missing}
  /\ tx.reason.says \in {"nothing", "no_history", "times", "double", "consistent", "model"}
  /\ tx.status \in {0, 201, 500}
  /\ fits \in BOOLEAN

Judged == provider = "stub" /\ tx.pc = "insert" /\ tx.severity # Missing

(* The magnitudes of the stored rows of some categories, one by one, and   *)
(* how an amount compares with their average.                              *)
Sizes(cs)       == {Size(k[2]) : k \in {j \in cs \X Amounts : stored[j] > 0}}
Exceeds(k, cs) == Size(tx.amount) * SumOver(stored, cs) > k * SumOver(Magnitudes, cs)

(* stub.go:133 - "Rent is many times the size of a typical purchase", and  *)
(* must not be flagged for that: a payment no larger than every earlier    *)
(* one of its category is ordinary, whatever the rest of the account does. *)
OrdinaryIsNotFlagged ==
  Judged /\ Sizes({tx.category}) # {} /\ (\A s \in Sizes({tx.category}) : Size(tx.amount) <= s)
    => tx.severity = "none"

(* stub.go:141 - a reason "describes a comparison that happened": what is  *)
(* said of money going out is true of the stored rows it names, and a      *)
(* category is named exactly when it has rows.                             *)
ReasonIsTrue ==
  Judged /\ tx.amount <= 0 =>
    LET own   == {tx.category} \cap Listed
        named == IF tx.reason.of = Missing THEN Listed ELSE {tx.reason.of}
    IN  CASE tx.reason.says = "no_history" -> Sizes(Listed) = {}
          [] tx.reason.says = "consistent" ->
               ~Exceeds(2, IF Sizes(own) # {} THEN own ELSE Listed)
          [] OTHER ->
               /\ tx.reason.of = IF Sizes(own) # {} THEN tx.category ELSE Missing
               /\ Exceeds(2, named)
               /\ tx.reason.says = "double" =>
                    \A s \in Sizes(named) : Size(tx.amount) > 2 * s

(* transactions.go:235 - "any failure is logged and dropped, because       *)
(* neither is worth failing a user's write over": a write is refused only  *)
(* for what the request itself brought.                                    *)
EnrichmentNeverFailsTheWrite == tx.status = 500 => ~fits

=============================================================================
