------------------------------- MODULE Access -------------------------------
(***************************************************************************)
(* Who gets in: the development identity provider (app/cmd/devidp), which  *)
(* signs with a fresh key after every restart, the verifier in the server  *)
(* (app/internal/auth), which keeps a copy of the provider's key, and the  *)
(* browser page (app/frontend/src), which keeps a token until it is about  *)
(* to expire or is refused.                                                *)
(*                                                                         *)
(* The copy of the key is the keyfunc library's and is taken at the word   *)
(* of the comments in src: an unknown key id makes it ask the provider     *)
(* again, which may fail, and now and then it asks by itself.  A unit of   *)
(* time is 30 s.  A request is verified within MaxFlight units of its      *)
(* sending, and the clocks of page and server agree.                       *)
(***************************************************************************)
EXTENDS Integers, FiniteSets

CONSTANTS Users, Pages, None,
          Lifetime, Slack, Leeway,  \* of a token: devidp's, the page's, the server's
          MaxFlight, MaxRestarts, MaxAccounts

ASSUME AccessAssumption ==
  /\ {Lifetime, Slack, Leeway, MaxFlight, MaxRestarts, MaxAccounts} \subseteq Nat
  /\ Slack < Lifetime /\ MaxFlight < Slack + Leeway
  /\ None \notin [user : Users, sub : Users, kid : Nat, key : Nat, left : Int]

VARIABLES
  idp,       \* the provider: [up, key], a key being the number of its start
  cache,     \* the verifier's copy: [kid, key]
  page,      \* by page: what it shows, its token and its request
  accounts   \* rows: who created it, and the user_id it was stored with

vars == <<idp, cache, page, accounts>>

Routes == {"me", "list", "create"}

NoRequest == [pc |-> "none", route |-> "me", token |-> None, flight |-> 0,
              status |-> 0, why |-> "nothing"]

(* keyIDFor, stableSubject.  Mutants: the same id whatever the key; a      *)
(* subject made up anew by each start.                                     *)
KidOf_Fixed(key) == 0
KidOf(key)       == key

Subject_PerStart(u) == <<u, idp.key>>

Subject(u)          == u

Published == [kid |-> KidOf(idp.key), key |-> idp.key]

Init ==
  /\ idp = [up |-> TRUE, key |-> 0]
  /\ cache = Published
  /\ page = [p \in Pages |-> [view |-> "login", token |-> None, req |-> NoRequest]]
  /\ accounts = {}

-----------------------------------------------------------------------------
(* The provider.                                                           *)
Stop  == /\ idp.up /\ idp.key < MaxRestarts
         /\ idp' = [idp EXCEPT !.up = FALSE]
         /\ UNCHANGED <<cache, page, accounts>>

Start == /\ ~idp.up
         /\ idp' = [up |-> TRUE, key |-> idp.key + 1]
         /\ UNCHANGED <<cache, page, accounts>>

(* POST /token.                                                            *)
Mint(u) == [user |-> u, sub |-> Subject(u), kid |-> KidOf(idp.key), key |-> idp.key,
            left |-> Lifetime]

-----------------------------------------------------------------------------
(* The page.                                                               *)
Page(p, locals) == page' = [page EXCEPT ![p] = locals] /\ UNCHANGED <<idp, accounts>>

Sent(route, token) == [NoRequest EXCEPT !.pc = "sent", !.route = route, !.token = token]

(* getToken: a token about to expire is as good as none.                   *)
GetToken(token) ==
  IF token # None /\ token.left < Slack THEN None ELSE token

(* signInWithUsername, then loadUser.                                      *)
SignIn(p) ==
  /\ page[p].view = "login" /\ page[p].req.pc = "none" /\ idp.up
  /\ \E u \in Users :
       Page(p, [page[p] EXCEPT !.token = Mint(u), !.req = Sent("me", Mint(u))])
  /\ UNCHANGED cache

Send(p) ==
  /\ page[p].view = "app" /\ page[p].req.pc = "none"
  /\ \E r \in Routes : Page(p, [page[p] EXCEPT !.req = Sent(r, GetToken(page[p].token))])
  /\ UNCHANGED cache

(* Mutant: a 401 changes nothing on the page.                              *)
Receive_KeepsToken(p) ==
  /\ page[p].req.pc = "answered"
  /\ Page(p, [page[p] EXCEPT !.req = NoRequest,
       !.view = IF page[p].req.route = "me" /\ page[p].req.status = 200 THEN "app" ELSE @])
  /\ UNCHANGED cache

(* Mutant: the token is gone and the page stays where it was.              *)
Receive_WithoutReload(p) ==
  /\ page[p].req.pc = "answered"
  /\ LET r == page[p].req
     IN  Page(p, [view  |-> IF r.route = "me" THEN "app" ELSE page[p].view,
                  token |-> IF r.status = 401 THEN None ELSE page[p].token,
                  req   |-> NoRequest])
  /\ UNCHANGED cache

(* The interceptor's 401 signs out; loadUser's answer decides the view.    *)
Receive(p) ==
  /\ page[p].req.pc = "answered"
  /\ LET r == page[p].req
     IN  Page(p, [view  |-> IF r.status = 401 THEN "login"
                            ELSE IF r.route = "me" THEN "app" ELSE page[p].view,
                  token |-> IF r.status = 401 THEN None ELSE page[p].token,
                  req   |-> NoRequest])
  /\ UNCHANGED cache

-----------------------------------------------------------------------------
(* The verifier.                                                           *)
Go(p, pc) == Page(p, [page[p] EXCEPT !.req.pc = pc])

Answer(p, status, why) ==
  Page(p, [page[p] EXCEPT !.req.pc = "answered", !.req.flight = 0,
                          !.req.status = status, !.req.why = why])

(* The middleware reads the header; Verify looks the key id up.            *)
Arrive(p) ==
  /\ page[p].req.pc = "sent"
  /\ LET token == page[p].req.token
     IN  \/ token = None /\ Answer(p, 401, "no_token")
         \/ token # None /\ token.kid = cache.kid /\ Go(p, "check")
         \/ token # None /\ token.kid # cache.kid /\ Go(p, "ask")
  /\ UNCHANGED cache

(* The library asks for the keys, which replace the copy; or it fails to.  *)
Ask(p) ==
  /\ page[p].req.pc = "ask" /\ idp.up
  /\ cache' = Published
  /\ Go(p, "check")

AskFails(p) ==
  /\ page[p].req.pc = "ask"
  /\ Answer(p, 401, "unasked")
  /\ UNCHANGED cache

Refresh ==
  /\ idp.up
  /\ cache' = Published
  /\ UNCHANGED <<idp, page, accounts>>

(* What is left of Verify: the signature, then the claims.  Those that     *)
(* name the issuer, the client and the use are the same in every token     *)
(* this provider mints, and are what the server expects.                   *)
Expired(token) == token.left <= -Leeway

Flaw(token) ==
  IF token.kid # cache.kid \/ token.key # cache.key THEN "key"
  ELSE IF Expired(token) THEN "expired" ELSE "nothing"

Check(p) ==
  /\ page[p].req.pc = "check"
  /\ LET why == Flaw(page[p].req.token)
     IN  IF why # "nothing" THEN Answer(p, 401, why)
         ELSE Page(p, [page[p] EXCEPT !.req.pc = "handler", !.req.flight = 0])
  /\ UNCHANGED cache

(* The handlers: Me, the reads, and the one that stores the subject, which *)
(* the limiter may refuse.                                                 *)
Handle(p) ==
  /\ page[p].req.pc = "handler"
  /\ page' = [page EXCEPT ![p].req.pc = "answered", ![p].req.status = 200]
  /\ LET r == page[p].req
         a == [user |-> r.token.user, owner |-> r.token.sub]
     IN  IF r.route = "create" /\ Cardinality(accounts) < MaxAccounts
         THEN accounts' = accounts \cup {a} ELSE UNCHANGED accounts
  /\ UNCHANGED <<idp, cache>>

Throttle(p) ==
  /\ page[p].req.pc = "handler" /\ page[p].req.route = "create"
  /\ Answer(p, 429, "rate")
  /\ UNCHANGED cache

-----------------------------------------------------------------------------
InFlight(p) == page[p].req.pc \in {"sent", "ask", "check"}

Older(token) == IF token = None \/ token.left = -Leeway THEN token
                ELSE [token EXCEPT !.left = @ - 1]

Tick ==
  /\ \A p \in Pages : InFlight(p) => page[p].req.flight < MaxFlight
  /\ page' = [p \in Pages |->
       [page[p] EXCEPT !.token = Older(@), !.req.token = Older(@),
                       !.req.flight = IF InFlight(p) THEN @ + 1 ELSE @]]
  /\ UNCHANGED <<idp, cache, accounts>>

Verify(p) == Arrive(p) \/ Ask(p) \/ AskFails(p) \/ Check(p)
Step(p)   == SignIn(p) \/ Send(p) \/ Verify(p) \/ Handle(p) \/ Throttle(p) \/ Receive(p)

Next == Stop \/ Start \/ Refresh \/ Tick \/ \E p \in Pages : Step(p)

(* A provider that stopped is started again, pages and server go on, and a *)
(* page that has the provider asked again and again is lucky some time.    *)
(* Nothing is assumed of the refresh in the background.                    *)
Spec ==
  /\ Init /\ [][Next]_vars
  /\ WF_vars(Start)
  /\ \A p \in Pages : WF_vars(Step(p)) /\ SF_vars(Ask(p))

-----------------------------------------------------------------------------
Keys == 0..MaxRestarts

TokenOK(t) ==
  t = None \/ (t.user \in Users /\ t.key \in Keys /\ t.left \in -Leeway..Lifetime)

TypeOK ==
  /\ idp.up \in BOOLEAN /\ idp.key \in Keys
  /\ cache.key \in Keys /\ cache.key <= idp.key
  /\ \A p \in Pages :
       /\ page[p].view \in {"login", "app"} /\ TokenOK(page[p].token)
       /\ page[p].view = "app" => page[p].token # None
       /\ page[p].req.pc \in {"none", "sent", "ask", "check", "handler", "answered"}
       /\ page[p].req.flight \in 0..MaxFlight /\ TokenOK(page[p].req.token)
       /\ page[p].req.pc \in {"ask", "check", "handler"} => page[p].req.token # None
  /\ Cardinality(accounts) <= MaxAccounts

(* devidp/main.go:45 - a token that the provider as it runs now has signed *)
(* is refused only if the provider could not be asked for its key: however *)
(* restarts, other pages' requests and the copy of the key interleave.     *)
CurrentKeyIsAccepted ==
  \A p \in Pages :
    LET r == page[p].req
    IN  r.status = 401 /\ r.token # None /\ r.token.key = idp.key => r.why = "unasked"

(* devidp/main.go:94 - restarts do not "orphan the accounts a developer    *)
(* already created": whichever start minted the token, its subject owns    *)
(* what its user created, and nothing else.                                *)
AccountsSurviveRestarts ==
  \A p \in Pages, a \in accounts :
    page[p].token # None => (a.owner = page[p].token.sub <=> a.user = page[p].token.user)

(* api.js:22 - a refusal returns the page to sign-in "rather than leaving  *)
(* the UI in a state where every request silently fails": every page gets  *)
(* past the verifier again and again, through expiries and restarts.       *)
LetInAgain == \A p \in Pages : []<>(page[p].req.pc = "handler")

=============================================================================
