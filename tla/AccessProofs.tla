---------------------------- MODULE AccessProofs ----------------------------
(***************************************************************************)
(* Proofs about Access for any users and pages, any number of restarts and *)
(* any lifetimes that leave a request time to be verified.                 *)
(***************************************************************************)
EXTENDS Access, FiniteSetTheorems, TLAPS

Token == [user : Users, sub : Users, kid : Keys, key : Keys, left : -Leeway..Lifetime]

Request == [pc : {"none", "sent", "ask", "check", "handler", "answered"}, route : Routes,
            token : Token \cup {None}, flight : 0..MaxFlight,
            status : {0, 200, 401, 429},
            why : {"nothing", "no_token", "unasked", "key", "expired", "rate"}]

Locals == [view : {"login", "app"}, token : Token \cup {None}, req : Request]

(* A token is one of this provider, of this start of it or an earlier one. *)
Minted(t) ==
  t # None => t.key <= idp.key /\ t.kid = KidOf(t.key) /\ t.sub = Subject(t.user)

(* What the locals q of a page have to do with the provider and the copy   *)
(* of its key.  A page that is in was let in by the token it has.  A token *)
(* is sent with Slack left and ages no faster than its request.  A token   *)
(* of the present key is compared with the present key, and is refused for *)
(* no other reason than that the provider was not asked.                   *)
SignedIn(q) ==
  /\ q.view = "app" => q.token # None
  /\ q.view = "login" => q.token = q.req.token /\ q.req.route = "me"
  /\ q.req.pc \in {"ask", "check", "handler"} => q.req.token # None
  /\ q.req.pc = "answered" /\ q.req.status # 401 => q.req.token # None

Young(q) ==
  q.req.pc \in {"sent", "ask", "check"} /\ q.req.token # None =>
    q.req.token.left >= Slack - q.req.flight

Current(q) ==
  q.req.token # None /\ q.req.token.key = idp.key =>
    /\ q.req.pc = "check" => cache.key = idp.key
    /\ q.req.status = 401 => q.req.why = "unasked"

Good(q) ==
  /\ q \in Locals /\ Minted(q.token) /\ Minted(q.req.token)
  /\ SignedIn(q) /\ Young(q) /\ Current(q)

Provider ==
  /\ idp \in [up : BOOLEAN, key : Keys] /\ (~idp.up => idp.key < MaxRestarts)
  /\ cache \in [kid : Keys, key : Keys] /\ cache.kid = KidOf(cache.key)
  /\ cache.key <= idp.key

Accounts ==
  /\ accounts \subseteq [user : Users, owner : Users] /\ IsFiniteSet(accounts)
  /\ Cardinality(accounts) <= MaxAccounts
  /\ \A a \in accounts : a.owner = Subject(a.user)

Visits == page \in [Pages -> Locals] /\ \A p \in Pages : Good(page[p])

IInv == Provider /\ Accounts /\ Visits

-----------------------------------------------------------------------------
(* Tokens: None is none, and age takes nothing but what is left of it.     *)
LEMMA NoneIsNoToken ==
  /\ None \notin Token
  /\ {Lifetime, Slack, Leeway, MaxFlight, MaxRestarts, MaxAccounts} \subseteq Nat
<1>1. Keys \subseteq Nat /\ -Leeway..Lifetime \subseteq Int
  BY AccessAssumption DEF Keys
<1>. QED  BY <1>1, AccessAssumption DEF Token

LEMMA OlderToken ==
  ASSUME NEW t \in Token \cup {None}, Minted(t)
  PROVE  /\ Older(t) \in Token \cup {None} /\ Minted(Older(t))
         /\ Older(t) = None <=> t = None
         /\ t # None => Older(t).key = t.key /\ Older(t).left >= t.left - 1
<1>. USE AccessAssumption, NoneIsNoToken
<1>1. CASE t = None \/ t.left = -Leeway
  BY <1>1 DEF Older, Token
<1>2. CASE ~(t = None \/ t.left = -Leeway)
  <2>. DEFINE o == [t EXCEPT !.left = @ - 1]
  <2>1. t \in Token /\ t.left - 1 \in -Leeway..Lifetime
    BY <1>2 DEF Token
  <2>2. o \in Token /\ o.left = t.left - 1
        /\ o.key = t.key /\ o.kid = t.kid /\ o.sub = t.sub /\ o.user = t.user
    BY <2>1 DEF Token
  <2>3. Older(t) = o
    BY <1>2 DEF Older
  <2>. HIDE DEF o
  <2>. QED  BY <2>1, <2>2, <2>3 DEF Minted
<1>. QED  BY <1>1, <1>2

(* A new token is of the present start, with more left than Slack.         *)
LEMMA NewToken ==
  ASSUME Provider, NEW u \in Users
  PROVE  /\ Mint(u) \in Token /\ Mint(u) # None /\ Minted(Mint(u))
         /\ Mint(u).left >= Slack
<1>1. idp.key \in Keys /\ Lifetime \in -Leeway..Lifetime /\ Lifetime >= Slack
  BY AccessAssumption DEF Provider
<1>2. Mint(u) \in Token
  BY <1>1 DEF Mint, Token, Subject, KidOf
<1>3. idp.key <= idp.key
  BY <1>1, AccessAssumption DEF Keys
<1>. QED  BY <1>1, <1>2, <1>3, NoneIsNoToken DEF Mint, Minted

-----------------------------------------------------------------------------
(* The locals of a page written out, which is how the provers see best     *)
(* what a step leaves of them.                                             *)
Req(pc, route, token, flight, status, why) ==
  [pc |-> pc, route |-> route, token |-> token, flight |-> flight,
   status |-> status, why |-> why]

Shown(view, token, req) == [view |-> view, token |-> token, req |-> req]

With(q, req) == Shown(q.view, q.token, req)

LEMMA SentRequest ==
  ASSUME NEW route, NEW token
  PROVE  Sent(route, token) = Req("sent", route, token, 0, 0, "nothing")
<1>. DEFINE a == [NoRequest EXCEPT !.pc = "sent"]
            b == [a EXCEPT !.route = route]
            c == [b EXCEPT !.token = token]
<1>1. a = Req("sent", "me", None, 0, 0, "nothing")
  BY DEF NoRequest, Req
<1>. HIDE DEF a
<1>2. b = Req("sent", route, None, 0, 0, "nothing")
  BY <1>1 DEF Req
<1>. HIDE DEF b
<1>3. c = Req("sent", route, token, 0, 0, "nothing")
  BY <1>2 DEF Req
<1>. QED  BY <1>3 DEF Sent, a, b, c

Moved(q, pc) == [q EXCEPT !.req.pc = pc]

LEMMA MovedRequest ==
  ASSUME NEW q \in Locals, NEW pc
  PROVE  LET r == q.req
         IN  Moved(q, pc) = With(q, Req(pc, r.route, r.token, r.flight, r.status, r.why))
  BY DEF Moved, Locals, Request, With, Shown, Req

Answered(q, status, why) ==
  [q EXCEPT !.req.pc = "answered", !.req.flight = 0, !.req.status = status, !.req.why = why]

LEMMA AnsweredRequest ==
  ASSUME NEW q \in Locals, NEW status, NEW why
  PROVE  LET r == q.req
         IN  Answered(q, status, why) = With(q, Req("answered", r.route, r.token, 0, status, why))
<1>. DEFINE r == q.req
            a == [q EXCEPT !.req.pc = "answered"]
            b == [a EXCEPT !.req.flight = 0]
            c == [b EXCEPT !.req.status = status]
            d == [c EXCEPT !.req.why = why]
<1>1. a = With(q, Req("answered", r.route, r.token, r.flight, r.status, r.why))
  BY DEF Locals, Request, With, Shown, Req
<1>. HIDE DEF a
<1>2. b = With(q, Req("answered", r.route, r.token, 0, r.status, r.why))
  BY <1>1 DEF With, Shown, Req
<1>. HIDE DEF b
<1>3. c = With(q, Req("answered", r.route, r.token, 0, status, r.why))
  BY <1>2 DEF With, Shown, Req
<1>. HIDE DEF c
<1>4. d = With(q, Req("answered", r.route, r.token, 0, status, why))
  BY <1>3 DEF With, Shown, Req
<1>. QED  BY <1>4 DEF a, b, c, d, Answered

Verified(q) == [q EXCEPT !.req.pc = "handler", !.req.flight = 0]

LEMMA VerifiedRequest ==
  ASSUME NEW q \in Locals
  PROVE  LET r == q.req
         IN  Verified(q) = With(q, Req("handler", r.route, r.token, 0, r.status, r.why))
<1>. DEFINE r == q.req
            a == [q EXCEPT !.req.pc = "handler"]
            b == [a EXCEPT !.req.flight = 0]
<1>1. a = With(q, Req("handler", r.route, r.token, r.flight, r.status, r.why))
  BY DEF Locals, Request, With, Shown, Req
<1>. HIDE DEF a
<1>2. b = With(q, Req("handler", r.route, r.token, 0, r.status, r.why))
  BY <1>1 DEF With, Shown, Req
<1>. QED  BY <1>2 DEF a, b, Verified

Aged(q, flight) ==
  [q EXCEPT !.token = Older(@), !.req.token = Older(@), !.req.flight = flight]

LEMMA AgedPage ==
  ASSUME NEW q \in Locals, NEW flight
  PROVE  LET r == q.req
         IN  Aged(q, flight)
               = Shown(q.view, Older(q.token),
                       Req(r.pc, r.route, Older(r.token), flight, r.status, r.why))
<1>. DEFINE r == q.req
            a == [q EXCEPT !.token = Older(@)]
            b == [a EXCEPT !.req.token = Older(@)]
            c == [b EXCEPT !.req.flight = flight]
<1>1. a = Shown(q.view, Older(q.token),
                Req(r.pc, r.route, r.token, r.flight, r.status, r.why))
  BY DEF Locals, Request, Shown, Req
<1>. HIDE DEF a
<1>2. b = Shown(q.view, Older(q.token),
                Req(r.pc, r.route, Older(r.token), r.flight, r.status, r.why))
  BY <1>1 DEF Shown, Req
<1>. HIDE DEF b
<1>3. c = Shown(q.view, Older(q.token),
                Req(r.pc, r.route, Older(r.token), flight, r.status, r.why))
  BY <1>2 DEF Shown, Req
<1>. QED  BY <1>3 DEF a, b, c, Aged

-----------------------------------------------------------------------------
LEMMA InitIInv == Init => IInv
<1>. SUFFICES ASSUME Init PROVE IInv
  OBVIOUS
<1>1. 0 \in Keys /\ 0 \in 0..MaxFlight
  BY AccessAssumption DEF Keys
<1>2. Provider
  BY <1>1, AccessAssumption DEF Init, Provider, Published, KidOf
<1>3. Accounts
  BY FS_EmptySet, AccessAssumption DEF Init, Accounts
<1>4. NoRequest \in Request
  BY <1>1 DEF NoRequest, Request, Routes
<1>5. ASSUME NEW p \in Pages PROVE Good(page[p])
  <2>. DEFINE q == [view |-> "login", token |-> None, req |-> NoRequest]
  <2>1. page[p] = q
    BY DEF Init
  <2>2. q \in Locals
    BY <1>4 DEF Locals
  <2>3. Minted(q.token) /\ Minted(q.req.token) /\ SignedIn(q) /\ Young(q) /\ Current(q)
    BY DEF Minted, SignedIn, Young, Current, NoRequest
  <2>. QED  BY <2>1, <2>2, <2>3 DEF Good
<1>6. page \in [Pages -> Locals]
  BY <1>4 DEF Init, Locals
<1>. QED  BY <1>2, <1>3, <1>5, <1>6 DEF IInv, Visits

(* What a page has stays good when the provider or the copy of its key     *)
(* moves on: a key that is new is in no token yet, and a copy that is new  *)
(* is of the present key.                                                  *)
MovesOn ==
  \/ idp'.key = idp.key /\ cache' \in {cache, Published}
  \/ idp'.key = idp.key + 1 /\ cache' = cache

LEMMA StaysGood ==
  ASSUME Provider, MovesOn, NEW q, Good(q)
  PROVE  Good(q)'
<1>. DEFINE t == q.req.token
<1>1. /\ idp.key \in Nat /\ q \in Locals
      /\ t # None => t.key \in Nat
      /\ q.token # None => q.token.key \in Nat
  BY AccessAssumption DEF Provider, Good, Locals, Request, Token, Keys
<1>2. idp'.key = idp.key \/ (idp'.key = idp.key + 1 /\ cache' = cache)
  BY DEF MovesOn
<1>3. Minted(q.token)' /\ Minted(t)'
  BY <1>1, <1>2 DEF Good, Minted, Subject, KidOf
<1>4. Current(q)'
  <2>1. CASE idp'.key = idp.key
    BY <2>1 DEF MovesOn, Published, Good, Current
  <2>2. CASE idp'.key = idp.key + 1
    <3>1. t # None => t.key # idp'.key
      BY <1>1, <2>2 DEF Good, Minted
    <3>. QED  BY <3>1 DEF Current
  <2>. QED  BY <1>2, <2>1, <2>2
<1>. QED  BY <1>1, <1>3, <1>4 DEF Good, SignedIn, Young

(* A step of one page.                                                     *)
LEMMA PageStep ==
  ASSUME IInv, MovesOn, NEW p \in Pages, NEW q, Good(q)', page' = [page EXCEPT ![p] = q]
  PROVE  Visits'
<1>1. q \in Locals
  BY DEF Good
<1>2. page' \in [Pages -> Locals]
  BY <1>1 DEF IInv, Visits
<1>3. ASSUME NEW s \in Pages PROVE Good(page[s])'
  <2>1. PICK x : x = page'[s]
    OBVIOUS
  <2>2. x = IF s = p THEN q ELSE page[s]
    BY <2>1 DEF IInv, Visits
  <2>3. CASE s = p
    BY <2>1, <2>2, <2>3 DEF Good, Minted, SignedIn, Young, Current
  <2>4. CASE s # p
    <3>1. Good(x)
      BY <2>2, <2>4 DEF IInv, Visits
    <3>2. Good(x)'
      BY <3>1, StaysGood DEF IInv
    <3>. QED  BY <2>1, <3>2 DEF Good, Minted, SignedIn, Young, Current
  <2>. QED  BY <2>3, <2>4
<1>. QED  BY <1>2, <1>3 DEF Visits

(* A step of one page that leaves the others' surroundings alone.          *)
LEMMA QuietStep ==
  ASSUME IInv, NEW p \in Pages, NEW q, Good(q), Page(p, q), UNCHANGED cache
  PROVE  IInv'
<1>1. MovesOn /\ page' = [page EXCEPT ![p] = q] /\ UNCHANGED <<idp, cache, accounts>>
  BY DEF Page, MovesOn
<1>2. Good(q)'
  BY <1>1, StaysGood DEF IInv
<1>3. Visits'
  BY <1>1, <1>2, PageStep
<1>4. Provider' /\ Accounts'
  BY <1>1 DEF IInv, Provider, Accounts
<1>. QED  BY <1>3, <1>4 DEF IInv

LEMMA ProviderStep ==
  ASSUME IInv, Stop \/ Start \/ Refresh
  PROVE  IInv'
<1>1. idp.key \in 0..MaxRestarts /\ idp.key \in Nat /\ MaxRestarts \in Nat
  BY AccessAssumption DEF IInv, Provider, Keys
<1>2. MovesOn /\ Provider'
  <2>1. CASE Stop
    BY <1>1, <2>1 DEF Stop, MovesOn, IInv, Provider, Keys
  <2>2. CASE Start
    <3>1. idp.key < MaxRestarts
      BY <2>2 DEF Start, IInv, Provider
    <3>2. idp' = [up |-> TRUE, key |-> idp.key + 1] /\ idp.key + 1 \in Keys /\ cache' = cache
      BY <1>1, <2>2, <3>1 DEF Start, Keys
    <3>3. cache.key \in Nat
      BY AccessAssumption DEF IInv, Provider, Keys
    <3>. QED  BY <1>1, <3>2, <3>3 DEF MovesOn, IInv, Provider
  <2>3. CASE Refresh
    BY <1>1, <2>3 DEF Refresh, Published, KidOf, MovesOn, IInv, Provider
  <2>. QED  BY <2>1, <2>2, <2>3
<1>3. UNCHANGED <<page, accounts>>
  BY DEF Stop, Start, Refresh
<1>4. ASSUME NEW s \in Pages PROVE Good(page[s])'
  <2>1. PICK x : x = page[s]
    OBVIOUS
  <2>2. Good(x)'
    BY <1>2, <2>1, StaysGood DEF IInv, Visits
  <2>. QED  BY <1>3, <2>1, <2>2 DEF Good, Minted, SignedIn, Young, Current
<1>. QED  BY <1>2, <1>3, <1>4 DEF IInv, Accounts, Visits

-----------------------------------------------------------------------------
(* The page's own steps.                                                   *)
LEMMA PageLocals ==
  ASSUME IInv, NEW p \in Pages
  PROVE  /\ Good(page[p]) /\ page[p] \in Locals /\ page[p].req \in Request
         /\ page[p].token \in Token \cup {None} /\ page[p].req.token \in Token \cup {None}
  BY DEF IInv, Visits, Good, Locals, Request

LEMMA SendRequest ==
  ASSUME IInv, NEW p \in Pages, NEW r \in Routes,
         NEW view \in {"login", "app"},
         NEW kept \in Token \cup {None}, Minted(kept),
         NEW token \in Token \cup {None}, Minted(token),
         token # None => token.left >= Slack,
         view = "app" => kept # None,
         view = "login" => kept = token /\ r = "me"
  PROVE  Good(Shown(view, kept, Sent(r, token)))
<1>. DEFINE req == Req("sent", r, token, 0, 0, "nothing")
            q   == Shown(view, kept, req)
<1>1. Sent(r, token) = req
  BY SentRequest
<1>2. 0 \in 0..MaxFlight
  BY AccessAssumption
<1>3. q \in Locals
  BY <1>2 DEF Locals, Request, Shown, Req
<1>4. Minted(q.token) /\ Minted(q.req.token) /\ SignedIn(q)
  BY DEF SignedIn, Shown, Req
<1>5. token # None => token.left \in Int
  BY AccessAssumption DEF Token
<1>6. Young(q)
  BY <1>5, AccessAssumption DEF Young, Shown, Req
<1>7. Current(q)
  BY DEF Current, Shown, Req
<1>. QED  BY <1>1, <1>3, <1>4, <1>6, <1>7 DEF Good

LEMMA SignInStep ==
  ASSUME IInv, NEW p \in Pages, SignIn(p)
  PROVE  IInv'
<1>1. PICK u \in Users :
        Page(p, [page[p] EXCEPT !.token = Mint(u), !.req = Sent("me", Mint(u))])
  BY DEF SignIn
<1>2. page[p] \in Locals /\ page[p].view = "login"
  BY PageLocals DEF SignIn
<1>. DEFINE a == [page[p] EXCEPT !.token = Mint(u)]
            b == [a EXCEPT !.req = Sent("me", Mint(u))]
            q == Shown("login", Mint(u), Sent("me", Mint(u)))
<1>3. a = Shown("login", Mint(u), page[p].req)
  BY <1>2 DEF Locals, Shown
<1>. HIDE DEF a
<1>4. b = q
  BY <1>3 DEF Shown
<1>5. Page(p, q)
  BY <1>1, <1>4 DEF a
<1>6. "me" \in Routes
  BY DEF Routes
<1>7. Mint(u) \in Token /\ Minted(Mint(u)) /\ Mint(u).left >= Slack
  BY NewToken DEF IInv
<1>8. Good(q)
  BY <1>6, <1>7, SendRequest
<1>. QED  BY <1>5, <1>8, QuietStep DEF SignIn

LEMMA SendStep ==
  ASSUME IInv, NEW p \in Pages, Send(p)
  PROVE  IInv'
<1>. DEFINE token == GetToken(page[p].token)
<1>1. PICK r \in Routes : Page(p, [page[p] EXCEPT !.req = Sent(r, token)])
  BY DEF Send
<1>2. page[p].view = "app" /\ UNCHANGED cache
  BY DEF Send
<1>3. [page[p] EXCEPT !.req = Sent(r, token)] = Shown("app", page[p].token, Sent(r, token))
  BY <1>2, PageLocals DEF Locals, Shown
<1>4. page[p].token \in Token /\ page[p].token # None /\ Minted(page[p].token)
  BY <1>2, PageLocals DEF Good, SignedIn
<1>5. page[p].token.left \in Int /\ Slack \in Int
  BY <1>4, AccessAssumption DEF Token
<1>6. /\ token \in Token \cup {None} /\ Minted(token)
      /\ token # None => token.left >= Slack
  BY <1>4, <1>5 DEF GetToken, Minted
<1>. HIDE DEF token
<1>7. Good(Shown("app", page[p].token, Sent(r, token)))
  BY <1>4, <1>6, SendRequest
<1>. QED  BY <1>1, <1>2, <1>3, <1>7, QuietStep

LEMMA ReceiveStep ==
  ASSUME IInv, NEW p \in Pages, Receive(p)
  PROVE  IInv'
<1>. DEFINE r    == page[p].req
            view == IF r.status = 401 THEN "login" ELSE IF r.route = "me" THEN "app"
                                                        ELSE page[p].view
            token == IF r.status = 401 THEN None ELSE page[p].token
            q    == Shown(view, token, NoRequest)
<1>1. Page(p, q) /\ UNCHANGED cache /\ r.pc = "answered"
  BY DEF Receive, Shown
<1>2. view \in {"login", "app"} /\ token \in Token \cup {None} /\ Minted(token)
  BY PageLocals DEF Good, Locals, Minted
<1>3. NoRequest \in Request
  BY AccessAssumption DEF NoRequest, Request, Routes
<1>4. q \in Locals /\ Minted(q.token) /\ Minted(q.req.token)
  BY <1>2, <1>3 DEF Locals, Shown, NoRequest, Minted
<1>5. view = "login" => token = None
  BY <1>1, PageLocals DEF Good, SignedIn, Locals
<1>6. view = "app" => token # None
  BY <1>1, PageLocals DEF Good, SignedIn, Locals
<1>. HIDE DEF view, token
<1>7. SignedIn(q) /\ Young(q) /\ Current(q)
  BY <1>5, <1>6 DEF SignedIn, Young, Current, Shown, NoRequest
<1>8. Good(q)
  BY <1>4, <1>7 DEF Good
<1>. QED  BY <1>1, <1>8, QuietStep

-----------------------------------------------------------------------------
(* The verifier's steps.  An answer is good if a refusal of the present    *)
(* key is one for not having been able to ask.                             *)
LEMMA AnswerStep ==
  ASSUME IInv, NEW p \in Pages, NEW status \in {401, 429},
         NEW why \in {"no_token", "unasked", "key", "expired", "rate"},
         Answer(p, status, why), UNCHANGED cache,
         status # 401 => page[p].req.token # None,
         page[p].req.token # None /\ page[p].req.token.key = idp.key /\ status = 401 =>
           why = "unasked"
  PROVE  IInv'
<1>. DEFINE r == page[p].req
            q == With(page[p], Req("answered", r.route, r.token, 0, status, why))
<1>1. Good(page[p]) /\ page[p] \in Locals
  BY PageLocals
<1>2. Page(p, q)
  <2>1. Page(p, Answered(page[p], status, why))
    BY DEF Answer, Answered
  <2>. QED  BY <1>1, <2>1, AnsweredRequest
<1>3. 0 \in 0..MaxFlight
  BY AccessAssumption
<1>4. q \in Locals
  BY <1>1, <1>3 DEF Locals, Request, With, Shown, Req
<1>5. Minted(q.token) /\ Minted(q.req.token) /\ SignedIn(q)
  BY <1>1 DEF Good, SignedIn, With, Shown, Req
<1>6. Young(q) /\ Current(q)
  BY DEF Young, Current, With, Shown, Req
<1>7. Good(q)
  BY <1>4, <1>5, <1>6 DEF Good
<1>. QED  BY <1>2, <1>7, QuietStep

(* A request that goes on from the header to the key or to the question.   *)
LEMMA GoIsGood ==
  ASSUME IInv, NEW p \in Pages, NEW pc \in {"ask", "check"},
         page[p].req.pc \in {"sent", "ask"}, page[p].req.token # None,
         NEW q, q = Moved(page[p], pc)
  PROVE  /\ q \in Locals /\ Minted(q.token) /\ Minted(q.req.token)
         /\ SignedIn(q) /\ Young(q)
         /\ q.req.pc = pc /\ q.req.token = page[p].req.token
         /\ q.req.status = page[p].req.status /\ q.req.why = page[p].req.why
<1>. DEFINE r == page[p].req
<1>1. Good(page[p]) /\ page[p] \in Locals
  BY PageLocals
<1>2. q = With(page[p], Req(pc, r.route, r.token, r.flight, r.status, r.why))
  BY <1>1, MovedRequest
<1>3. q \in Locals
  BY <1>1, <1>2 DEF Locals, Request, With, Shown, Req
<1>4. Minted(q.token) /\ Minted(q.req.token)
  BY <1>1, <1>2 DEF Good, With, Shown, Req
<1>5. SignedIn(q) /\ Young(q)
  BY <1>1, <1>2 DEF Good, SignedIn, Young, With, Shown, Req
<1>. QED  BY <1>2, <1>3, <1>4, <1>5 DEF With, Shown, Req

(* If the key id is the copy's, so is the key: a token that names the      *)
(* present key is checked against it.                                      *)
LEMMA ArriveStep ==
  ASSUME IInv, NEW p \in Pages, Arrive(p)
  PROVE  IInv'
<1>. DEFINE token == page[p].req.token
<1>1. page[p].req.pc = "sent" /\ UNCHANGED cache
  BY DEF Arrive
<1>2. CASE token = None /\ Answer(p, 401, "no_token")
  BY <1>1, <1>2, AnswerStep
<1>3. ASSUME NEW pc \in {"ask", "check"}, token # None, Go(p, pc),
             pc = "check" => token.kid = cache.kid
      PROVE  IInv'
  <2>1. PICK q : q = Moved(page[p], pc)
    OBVIOUS
  <2>2. /\ q \in Locals /\ Minted(q.token) /\ Minted(q.req.token)
        /\ SignedIn(q) /\ Young(q)
        /\ q.req.pc = pc /\ q.req.token = token
        /\ q.req.status = page[p].req.status /\ q.req.why = page[p].req.why
    BY <1>1, <1>3, <2>1, GoIsGood
  <2>3. pc = "check" => token.key = cache.key
    BY <1>3, PageLocals DEF Good, Minted, KidOf, IInv, Provider
  <2>4. Current(page[p])
    BY PageLocals DEF Good
  <2>5. Current(q)
    BY <2>2, <2>3, <2>4 DEF Current
  <2>6. Good(q)
    BY <2>2, <2>5 DEF Good
  <2>7. Page(p, q)
    BY <1>3, <2>1 DEF Go, Moved
  <2>. QED  BY <1>1, <2>6, <2>7, QuietStep
<1>. QED  BY <1>2, <1>3 DEF Arrive

LEMMA AskStep ==
  ASSUME IInv, NEW p \in Pages, Ask(p)
  PROVE  IInv'
<1>1. /\ page[p].req.pc = "ask" /\ cache' = Published
      /\ Page(p, Moved(page[p], "check"))
  BY DEF Ask, Go, Moved
<1>2. page[p].req.token # None /\ Current(page[p])
  BY <1>1, PageLocals DEF Good, SignedIn
<1>3. PICK q : q = Moved(page[p], "check")
  OBVIOUS
<1>4. /\ q \in Locals /\ Minted(q.token) /\ Minted(q.req.token)
      /\ SignedIn(q) /\ Young(q)
      /\ q.req.pc = "check" /\ q.req.token = page[p].req.token
      /\ q.req.status = page[p].req.status /\ q.req.why = page[p].req.why
  BY <1>1, <1>2, <1>3, GoIsGood
<1>5. MovesOn /\ UNCHANGED <<idp, accounts>> /\ page' = [page EXCEPT ![p] = q]
      /\ cache'.key = idp.key
  BY <1>1, <1>3 DEF Page, MovesOn, Published
<1>6. Current(q)'
  BY <1>2, <1>4, <1>5 DEF Current
<1>7. Good(q)'
  BY <1>4, <1>5, <1>6 DEF Good, Minted, SignedIn, Young
<1>8. Visits'
  BY <1>5, <1>7, PageStep
<1>9. Provider' /\ Accounts'
  <2>1. idp.key \in Nat
    BY AccessAssumption DEF IInv, Provider, Keys
  <2>. QED  BY <1>1, <1>5, <2>1 DEF IInv, Provider, Accounts, Published, KidOf
<1>. QED  BY <1>8, <1>9 DEF IInv

LEMMA AskFailsStep ==
  ASSUME IInv, NEW p \in Pages, AskFails(p)
  PROVE  IInv'
  BY AnswerStep DEF AskFails

(* A token cannot expire while its request is on the way, and one of the   *)
(* present key is not found to be of another.                              *)
LEMMA FlawIsOfAnotherKey ==
  ASSUME IInv, NEW p \in Pages, page[p].req.pc = "check",
         Flaw(page[p].req.token) # "nothing"
  PROVE  /\ Flaw(page[p].req.token) = "key"
         /\ page[p].req.token # None /\ page[p].req.token.key # idp.key
<1>. DEFINE t == page[p].req.token
<1>1. Good(page[p]) /\ t # None /\ t \in Token
  BY PageLocals DEF Good, SignedIn
<1>2. t.left >= Slack - page[p].req.flight
  BY <1>1 DEF Good, Young
<1>3. ~Expired(t)
  <2>1. t.left \in Int /\ page[p].req.flight \in 0..MaxFlight
    BY <1>1, AccessAssumption, PageLocals DEF Token, Request
  <2>. QED  BY <1>2, <2>1, AccessAssumption DEF Expired
<1>4. t.kid # cache.kid \/ t.key # cache.key
  BY <1>3 DEF Flaw
<1>5. t.key # cache.key
  BY <1>1, <1>4 DEF Good, Minted, KidOf, IInv, Provider
<1>6. t.key # idp.key
  BY <1>1, <1>5 DEF Good, Current
<1>. QED  BY <1>1, <1>4, <1>6 DEF Flaw

LEMMA CheckStep ==
  ASSUME IInv, NEW p \in Pages, Check(p)
  PROVE  IInv'
<1>. DEFINE r   == page[p].req
            why == Flaw(r.token)
<1>1. r.pc = "check" /\ UNCHANGED cache
  BY DEF Check
<1>2. CASE why # "nothing"
  <2>1. why = "key" /\ r.token # None /\ r.token.key # idp.key
    BY <1>1, <1>2, FlawIsOfAnotherKey
  <2>2. Answer(p, 401, why)
    BY <1>2 DEF Check
  <2>. QED  BY <1>1, <2>1, <2>2, AnswerStep
<1>3. CASE why = "nothing"
  <2>. DEFINE q == With(page[p], Req("handler", r.route, r.token, 0, r.status, r.why))
  <2>1. Good(page[p]) /\ page[p] \in Locals /\ r.token # None
    BY <1>1, PageLocals DEF Good, SignedIn
  <2>2. Page(p, q)
    <3>1. Page(p, Verified(page[p]))
      BY <1>3 DEF Check, Verified
    <3>. QED  BY <2>1, <3>1, VerifiedRequest
  <2>3. 0 \in 0..MaxFlight
    BY AccessAssumption
  <2>4. q \in Locals
    BY <2>1, <2>3 DEF Locals, Request, With, Shown, Req
  <2>5. Minted(q.token) /\ Minted(q.req.token)
    BY <2>1 DEF Good, With, Shown, Req
  <2>6. SignedIn(q) /\ Young(q) /\ Current(q)
    BY <2>1 DEF Good, SignedIn, Young, Current, With, Shown, Req
  <2>7. Good(q)
    BY <2>4, <2>5, <2>6 DEF Good
  <2>. QED  BY <1>1, <2>2, <2>7, QuietStep
<1>. QED  BY <1>2, <1>3

-----------------------------------------------------------------------------
(* The handlers' steps.                                                    *)
LEMMA HandledPage ==
  ASSUME NEW p \in Pages, page \in [Pages -> Locals],
         page' = [page EXCEPT ![p].req.pc = "answered", ![p].req.status = 200]
  PROVE  LET r == page[p].req
         IN  page' = [page EXCEPT ![p] =
               With(page[p], Req("answered", r.route, r.token, r.flight, 200, r.why))]
<1>. DEFINE r == page[p].req
            a == [page EXCEPT ![p].req.pc = "answered"]
            n == With(page[p], Req("answered", r.route, r.token, r.flight, r.status, r.why))
            m == With(page[p], Req("answered", r.route, r.token, r.flight, 200, r.why))
<1>1. DOMAIN a = Pages /\ a[p] = [page[p] EXCEPT !.req.pc = "answered"]
      /\ \A s \in Pages : s # p => a[s] = page[s]
  OBVIOUS
<1>2. a[p] = n
  BY <1>1 DEF Locals, Request, With, Shown, Req
<1>3. page' = [a EXCEPT ![p].req.status = 200]
  OBVIOUS
<1>. HIDE DEF a
<1>4. [a[p] EXCEPT !.req.status = 200] = m
  BY <1>2 DEF With, Shown, Req
<1>. HIDE DEF n, m
<1>5. page' = [s \in Pages |-> IF s = p THEN m ELSE page[s]]
  BY <1>1, <1>3, <1>4
<1>. QED  BY <1>5 DEF n, m, r

LEMMA HandleStep ==
  ASSUME IInv, NEW p \in Pages, Handle(p)
  PROVE  IInv'
<1>. DEFINE r == page[p].req
            a == [user |-> r.token.user, owner |-> r.token.sub]
            m == With(page[p], Req("answered", r.route, r.token, r.flight, 200, r.why))
<1>1. r.pc = "handler" /\ UNCHANGED <<idp, cache>>
  BY DEF Handle
<1>2. Good(page[p]) /\ page[p] \in Locals /\ r.token \in Token /\ r.token # None
  BY <1>1, PageLocals DEF Good, SignedIn
<1>3. page' = [page EXCEPT ![p] = m]
  BY HandledPage DEF Handle, IInv, Visits
<1>4. m \in Locals
  BY <1>2 DEF Locals, Request, With, Shown, Req
<1>5. Minted(m.token) /\ Minted(m.req.token)
  BY <1>2 DEF Good, With, Shown, Req
<1>6. SignedIn(m) /\ Young(m) /\ Current(m)
  BY <1>2 DEF Good, SignedIn, Young, Current, With, Shown, Req
<1>7. PICK q : q = m
  OBVIOUS
<1>8. MovesOn /\ Good(q)
  BY <1>1, <1>4, <1>5, <1>6, <1>7 DEF Good, MovesOn
<1>9. Good(q)'
  BY <1>8, StaysGood DEF IInv
<1>10. Visits'
  BY <1>3, <1>7, <1>8, <1>9, PageStep
<1>11. Accounts'
  <2>1. CASE UNCHANGED accounts
    BY <2>1 DEF IInv, Accounts
  <2>2. CASE Cardinality(accounts) < MaxAccounts /\ accounts' = accounts \cup {a}
    <3>1. a \in [user : Users, owner : Users] /\ a.owner = Subject(a.user)
      BY <1>2 DEF Token, Good, Minted
    <3>. HIDE DEF a
    <3>2. IsFiniteSet(accounts) /\ Cardinality(accounts) \in Nat
      BY FS_CardinalityType DEF IInv, Accounts
    <3>3. /\ IsFiniteSet(accounts')
          /\ Cardinality(accounts') = Cardinality(accounts)
             \/ Cardinality(accounts') = Cardinality(accounts) + 1
      BY <2>2, <3>2, FS_AddElement
    <3>4. Cardinality(accounts') <= MaxAccounts
      BY <2>2, <3>2, <3>3, AccessAssumption
    <3>. QED  BY <2>2, <3>1, <3>3, <3>4 DEF IInv, Accounts, Subject
  <2>. QED  BY <2>1, <2>2 DEF Handle
<1>12. Provider'
  BY <1>1 DEF IInv, Provider
<1>. QED  BY <1>10, <1>11, <1>12 DEF IInv

LEMMA ThrottleStep ==
  ASSUME IInv, NEW p \in Pages, Throttle(p)
  PROVE  IInv'
<1>1. page[p].req.pc = "handler" /\ Answer(p, 429, "rate") /\ UNCHANGED cache
  BY DEF Throttle
<1>2. page[p].req.token # None
  BY <1>1, PageLocals DEF Good, SignedIn
<1>. QED  BY <1>1, <1>2, AnswerStep

-----------------------------------------------------------------------------
(* Time takes as much from a token as it adds to its request.              *)
LEMMA TickStep ==
  ASSUME IInv, Tick
  PROVE  IInv'
<1>1. UNCHANGED <<idp, cache, accounts>>
  BY DEF Tick
<1>2. ASSUME NEW p \in Pages
      PROVE  Good(page'[p])
  <2>. DEFINE r      == page[p].req
              flight == IF InFlight(p) THEN r.flight + 1 ELSE r.flight
              q == Shown(page[p].view, Older(page[p].token),
                         Req(r.pc, r.route, Older(r.token), flight, r.status, r.why))
  <2>1. /\ Good(page[p]) /\ page[p] \in Locals /\ r \in Request
        /\ page[p].token \in Token \cup {None} /\ r.token \in Token \cup {None}
    BY PageLocals
  <2>2. page'[p] = Aged(page[p], flight)
    BY DEF Tick, Aged
  <2>3. r.flight \in 0..MaxFlight /\ flight \in 0..MaxFlight
    <3>1. r.flight \in 0..MaxFlight
      BY <2>1 DEF Request
    <3>2. InFlight(p) => r.flight < MaxFlight
      BY DEF Tick
    <3>. QED  BY <3>1, <3>2, AccessAssumption
  <2>4. r.pc \in {"sent", "ask", "check"} => flight = r.flight + 1
    BY DEF InFlight
  <2>. HIDE DEF flight
  <2>5. page'[p] = q
    BY <2>1, <2>2, AgedPage
  <2>6. /\ Older(page[p].token) \in Token \cup {None} /\ Minted(Older(page[p].token))
        /\ Older(page[p].token) = None <=> page[p].token = None
    BY <2>1, OlderToken DEF Good
  <2>7. /\ Older(r.token) \in Token \cup {None} /\ Minted(Older(r.token))
        /\ Older(r.token) = None <=> r.token = None
        /\ r.token # None => Older(r.token).key = r.token.key
                          /\ Older(r.token).left >= r.token.left - 1
    BY <2>1, OlderToken DEF Good
  <2>8. q \in Locals
    BY <2>1, <2>3, <2>6, <2>7 DEF Locals, Request, Shown, Req
  <2>9. Minted(q.token) /\ Minted(q.req.token)
    BY <2>6, <2>7 DEF Shown, Req
  <2>10. SignedIn(q)
    BY <2>1, <2>6, <2>7 DEF Good, SignedIn, Shown, Req
  <2>11. Young(q)
    <3>1. SUFFICES ASSUME r.pc \in {"sent", "ask", "check"}, Older(r.token) # None
                   PROVE  Older(r.token).left >= Slack - flight
      BY DEF Young, Shown, Req
    <3>2. r.token \in Token /\ r.token.left >= Slack - r.flight
      BY <2>1, <2>7, <3>1 DEF Good, Young
    <3>3. r.token.left \in Int /\ Older(r.token).left \in Int
      BY <2>7, <3>1, <3>2, AccessAssumption DEF Token
    <3>. QED  BY <2>3, <2>4, <2>7, <3>1, <3>2, <3>3, AccessAssumption
  <2>12. Current(q)
    BY <2>1, <2>7 DEF Good, Current, Shown, Req
  <2>13. Good(q)
    BY <2>8, <2>9, <2>10, <2>11, <2>12 DEF Good
  <2>. QED  BY <2>5, <2>13
<1>3. page' \in [Pages -> Locals]
  <2>1. DOMAIN page' = Pages /\ page' = [p \in Pages |-> page'[p]]
    BY DEF Tick
  <2>. QED  BY <1>2, <2>1 DEF Good
<1>4. ASSUME NEW p \in Pages PROVE Good(page[p])'
  BY <1>1, <1>2, <1>4 DEF Good, Minted, SignedIn, Young, Current
<1>. QED  BY <1>1, <1>3, <1>4 DEF IInv, Provider, Accounts, Visits

LEMMA NextIInv ==
  ASSUME IInv, [Next]_vars
  PROVE  IInv'
<1>1. CASE Stop \/ Start \/ Refresh
  BY <1>1, ProviderStep
<1>2. CASE Tick
  BY <1>2, TickStep
<1>3. ASSUME NEW p \in Pages, Step(p) PROVE IInv'
  BY <1>3, SignInStep, SendStep, ReceiveStep, ArriveStep, AskStep, AskFailsStep,
     CheckStep, HandleStep, ThrottleStep DEF Step, Verify
<1>4. CASE UNCHANGED vars
  BY <1>4 DEF vars, IInv, Provider, Accounts, Visits,
              Good, Minted, SignedIn, Young, Current
<1>. QED  BY <1>1, <1>2, <1>3, <1>4 DEF Next

-----------------------------------------------------------------------------
(* The inductive invariant.                                                *)
THEOREM AccessInvariant == Spec => []IInv
<1>1. Init => IInv
  BY InitIInv
<1>2. IInv /\ [Next]_vars => IInv'
  BY NextIInv
<1>. QED  BY <1>1, <1>2, PTL DEF Spec

(* Type correctness: the copy is of a key the provider has had, a page is  *)
(* in only with a token, and no request reaches a handler without one.     *)
THEOREM AccessTypeCorrect == Spec => []TypeOK
<1>1. ASSUME NEW t \in Token \cup {None} PROVE TokenOK(t)
  BY DEF Token, TokenOK
<1>2. ASSUME IInv PROVE TypeOK
  <2>1. idp.up \in BOOLEAN /\ idp.key \in Keys /\ cache.key \in Keys /\ cache.key <= idp.key
        /\ Cardinality(accounts) <= MaxAccounts
    BY <1>2 DEF IInv, Provider, Accounts
  <2>2. ASSUME NEW p \in Pages
        PROVE  /\ page[p].view \in {"login", "app"} /\ TokenOK(page[p].token)
               /\ page[p].view = "app" => page[p].token # None
               /\ page[p].req.pc \in {"none", "sent", "ask", "check", "handler", "answered"}
               /\ page[p].req.flight \in 0..MaxFlight /\ TokenOK(page[p].req.token)
               /\ page[p].req.pc \in {"ask", "check", "handler"} => page[p].req.token # None
    BY <1>1, <1>2, PageLocals DEF Good, SignedIn, Locals, Request
  <2>. QED  BY <2>1, <2>2 DEF TypeOK
<1>. QED  BY <1>2, AccessInvariant, PTL

(* Verify and keyIDFor: a token signed with the key in use is refused only *)
(* when the provider could not be asked, whatever restarts in between,     *)
(* whichever page has the copy replaced, and however long a request the    *)
(* page's slack and the server's leeway allow for is on its way.           *)
THEOREM CurrentKeyGetsIn == Spec => []CurrentKeyIsAccepted
<1>1. IInv => CurrentKeyIsAccepted
  BY DEF IInv, Visits, Good, Current, CurrentKeyIsAccepted
<1>. QED  BY <1>1, AccessInvariant, PTL

(* stableSubject: the subject of any token there is owns what its user     *)
(* created under any start of the provider, and what no other user did.    *)
THEOREM AccountsOutliveKeys == Spec => []AccountsSurviveRestarts
<1>1. ASSUME IInv, NEW p \in Pages, NEW a \in accounts, page[p].token # None
      PROVE  a.owner = page[p].token.sub <=> a.user = page[p].token.user
  BY <1>1 DEF IInv, Accounts, Visits, Good, Minted, Subject
<1>2. IInv => AccountsSurviveRestarts
  BY <1>1 DEF AccountsSurviveRestarts
<1>. QED  BY <1>2, AccessInvariant, PTL

=============================================================================
