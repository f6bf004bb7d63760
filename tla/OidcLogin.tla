----------------------------- MODULE OidcLogin -----------------------------
(***************************************************************************)
(* Single sign-on: GET /auth/login, GET /auth/callback, POST /auth/exchange.*)
(*                                                                         *)
(* A login stores a row for its state and binds it to the browser with a   *)
(* cookie.  The callback consumes the row, redeems the identity provider's *)
(* authorization code and stores a login code, which the SPA exchanges for *)
(* the session token.  Handlers run concurrently, their database work in   *)
(* threads; one action is one statement or commit, or one call to the      *)
(* identity provider.                                                      *)
(*                                                                         *)
(* An attempt stands for its state, its binder and its authorization code, *)
(* which are drawn together and never repeat.  What the sign-in does to    *)
(* the account is in module Accounts.                                      *)
(***************************************************************************)
EXTENDS Naturals, FiniteSets

CONSTANTS
    Attempts,    \* states the login handler can draw
    Codes,       \* login codes the callback can draw
    Browsers,
    Workers,
    MaxPending,  \* oidc_max_pending_states
    None

ASSUME LoginAssumption ==
    /\ MaxPending \in Nat \ {0}
    /\ None \notin Attempts \union Codes \union Browsers
    /\ None \notin [attempt : Attempts, browser : Browsers]

VARIABLES
    pkce,        \* rows of oidc_pkce_states
    old,         \* attempts begun more than ten minutes ago
    startedBy,   \* attempt -> browser redirected to the identity provider
    cookie,      \* browser -> the binder it holds
    idp,         \* attempt -> its authorization code: "none" | "granted" | "redeemed"
    loginCodes,  \* rows of login_codes
    oldCodes,    \* login codes issued more than a minute ago
    issued,      \* login code -> attempt and browser it was sent to
    sessions,    \* attempt -> browser -> session tokens it was given
    pc, job      \* requests

tables == <<pkce, loginCodes>>
vars == <<tables, old, startedBy, cookie, idp, oldCodes, issued, sessions, pc, job>>

Issue == [attempt : Attempts, browser : Browsers]
Job == [browser : Browsers \union {None}, attempt : Attempts \union {None},
        cookie : Attempts \union {None}, code : Codes \union {None}]
NoJob == [browser |-> None, attempt |-> None, cookie |-> None, code |-> None]

LoginPc == {"loginPurge", "loginCount", "loginInsert"}
CallbackPc == {"consume", "redeem", "signIn"}
ExchangePc == {"exchange", "mint"}
Pc == {"idle"} \union LoginPc \union CallbackPc \union ExchangePc

TypeOK ==
    /\ pkce \subseteq Attempts /\ old \subseteq Attempts
    /\ startedBy \in [Attempts -> Browsers \union {None}]
    /\ cookie \in [Browsers -> Attempts \union {None}]
    /\ idp \in [Attempts -> {"none", "granted", "redeemed"}]
    /\ loginCodes \subseteq Codes /\ oldCodes \subseteq Codes
    /\ issued \in [Codes -> Issue \union {None}]
    /\ sessions \in [Attempts -> [Browsers -> Nat]]
    /\ pc \in [Workers -> Pc]
    /\ job \in [Workers -> Job]

----------------------------------------------------------------------------
Goto(w, to) == pc' = [pc EXCEPT ![w] = to]

(* The request ends, with whatever answer. *)
Respond(w) ==
    /\ Goto(w, "idle")
    /\ job' = [job EXCEPT ![w] = NoJob]

Accept(w, j, to) ==
    /\ pc[w] = "idle"
    /\ job' = [job EXCEPT ![w] = j]
    /\ Goto(w, to)

----------------------------------------------------------------------------
(* GET /auth/login, once the discovery document is there.                  *)

Drawn(a) == startedBy[a] # None \/ \E w \in Workers : pc[w] \in LoginPc /\ job[w].attempt = a

Login(w, b, a) ==
    /\ ~Drawn(a)
    /\ Accept(w, [NoJob EXCEPT !.browser = b, !.attempt = a], "loginPurge")
    /\ UNCHANGED <<tables, old, startedBy, cookie, idp, oldCodes, issued, sessions>>

LoginPurge(w) ==
    /\ pc[w] = "loginPurge"
    /\ pkce' = pkce \ old
    /\ Goto(w, "loginCount")
    /\ UNCHANGED <<loginCodes, old, startedBy, cookie, idp, oldCodes, issued, sessions, job>>

LoginCount(w) ==
    /\ pc[w] = "loginCount"
    /\ \/ Cardinality(pkce) >= MaxPending /\ Respond(w)
       \/ Cardinality(pkce) < MaxPending /\ Goto(w, "loginInsert") /\ UNCHANGED job
    /\ UNCHANGED <<tables, old, startedBy, cookie, idp, oldCodes, issued, sessions>>

(* The row is stored; the redirect sets the binder cookie, replacing that  *)
(* of an earlier attempt of the browser.                                   *)
LoginInsert(w) ==
    /\ pc[w] = "loginInsert"
    /\ LET a == job[w].attempt
       IN  /\ pkce' = pkce \union {a}
           /\ startedBy' = [startedBy EXCEPT ![a] = job[w].browser]
           /\ cookie' = [cookie EXCEPT ![job[w].browser] = a]
    /\ Respond(w)
    /\ UNCHANGED <<loginCodes, old, idp, oldCodes, issued, sessions>>

(* The user signs in at the identity provider, which redirects back. *)
Grant(a) ==
    /\ startedBy[a] # None /\ idp[a] = "none"
    /\ idp' = [idp EXCEPT ![a] = "granted"]
    /\ UNCHANGED <<tables, old, startedBy, cookie, oldCodes, issued, sessions, pc, job>>

----------------------------------------------------------------------------
(* GET /auth/callback, requested by any browser that has the redirect, as  *)
(* often as it likes.                                                      *)

(* _consume_pkce_state reads the row; 400 when there is none. *)
Callback(w, b, a) ==
    /\ idp[a] # "none" /\ a \in pkce
    /\ Accept(w, [NoJob EXCEPT !.browser = b, !.attempt = a, !.cookie = cookie[b]], "consume")
    /\ UNCHANGED <<tables, old, startedBy, cookie, idp, oldCodes, issued, sessions>>

(* Mutant: the age of the row that was read is not checked. *)
ConsumeAnyAge(w) ==
    /\ pc[w] = "consume"
    /\ LET a == job[w].attempt
       IN  /\ pkce' = pkce \ {a}
           /\ \/ job[w].cookie # a /\ Respond(w)
              \/ /\ job[w].cookie = a
                 /\ Goto(w, "redeem") /\ UNCHANGED job
    /\ UNCHANGED <<loginCodes, old, startedBy, cookie, idp, oldCodes, issued, sessions>>

(* It deletes the row it read - the ORM only warns when another request    *)
(* was faster - and then checks the age and the cookie.                    *)
Consume(w) ==
    /\ pc[w] = "consume"
    /\ LET a == job[w].attempt
       IN  /\ pkce' = pkce \ {a}
           /\ \/ /\ a \in old \/ job[w].cookie # a
                 /\ Respond(w)
              \/ /\ a \notin old /\ job[w].cookie = a
                 /\ Goto(w, "redeem") /\ UNCHANGED job
    /\ UNCHANGED <<loginCodes, old, startedBy, cookie, idp, oldCodes, issued, sessions>>

(* The token and userinfo requests.  An authorization code is good for one *)
(* redemption; the requests may fail, or the answer be lost.               *)
Redeem(w) ==
    /\ pc[w] = "redeem"
    /\ \/ /\ idp[job[w].attempt] = "granted"
          /\ idp' = [idp EXCEPT ![job[w].attempt] = "redeemed"]
          /\ (Goto(w, "signIn") /\ UNCHANGED job) \/ Respond(w)
       \/ Respond(w) /\ UNCHANGED idp
    /\ UNCHANGED <<tables, old, startedBy, cookie, oldCodes, issued, sessions>>

(* _sign_in: the account is refused, or a login code is stored and sent in *)
(* the redirect, which also drops the binder cookie of the browser.        *)
SignIn(w) ==
    /\ pc[w] = "signIn"
    /\ LET b == job[w].browser
       IN  \/ UNCHANGED <<loginCodes, issued, cookie>>
           \/ \E c \in Codes :
                  /\ issued[c] = None
                  /\ loginCodes' = (loginCodes \ oldCodes) \union {c}
                  /\ issued' = [issued EXCEPT ![c] = [attempt |-> job[w].attempt, browser |-> b]]
                  /\ cookie' = [cookie EXCEPT ![b] = None]
    /\ Respond(w)
    /\ UNCHANGED <<pkce, old, startedBy, idp, oldCodes, sessions>>

----------------------------------------------------------------------------
(* POST /auth/exchange, by the SPA that got the code; it may ask twice.    *)

(* _consume_login_code finds the row ... *)
Exchange(w, c) ==
    /\ c \in loginCodes
    /\ Accept(w, [NoJob EXCEPT !.browser = issued[c].browser, !.attempt = issued[c].attempt,
                               !.code = c], "exchange")
    /\ UNCHANGED <<tables, old, startedBy, cookie, idp, oldCodes, issued, sessions>>

(* Mutant: the number of deleted rows is not looked at. *)
ExchangeDeleteAny(w) ==
    /\ pc[w] = "exchange"
    /\ loginCodes' = loginCodes \ {job[w].code}
    /\ \/ job[w].code \in oldCodes /\ Respond(w)
       \/ job[w].code \notin oldCodes /\ Goto(w, "mint") /\ UNCHANGED job
    /\ UNCHANGED <<pkce, old, startedBy, cookie, idp, oldCodes, issued, sessions>>

(* ... and deletes it: whoever deletes no row has lost the race. *)
ExchangeDelete(w) ==
    /\ pc[w] = "exchange"
    /\ LET c == job[w].code
       IN  /\ loginCodes' = loginCodes \ {c}
           /\ \/ c \notin loginCodes \ oldCodes /\ Respond(w)
              \/ c \in loginCodes \ oldCodes /\ Goto(w, "mint") /\ UNCHANGED job
    /\ UNCHANGED <<pkce, old, startedBy, cookie, idp, oldCodes, issued, sessions>>

(* The token is issued unless the account is gone. *)
Mint(w) ==
    /\ pc[w] = "mint"
    /\ \/ sessions' = [sessions EXCEPT ![job[w].attempt][job[w].browser] = @ + 1]
       \/ UNCHANGED sessions
    /\ Respond(w)
    /\ UNCHANGED <<tables, old, startedBy, cookie, idp, oldCodes, issued>>

----------------------------------------------------------------------------
StateExpires(a) ==
    /\ startedBy[a] # None
    /\ old' = old \union {a}
    /\ UNCHANGED <<tables, startedBy, cookie, idp, oldCodes, issued, sessions, pc, job>>

CodeExpires(c) ==
    /\ issued[c] # None
    /\ oldCodes' = oldCodes \union {c}
    /\ UNCHANGED <<tables, old, startedBy, cookie, idp, issued, sessions, pc, job>>

(* The backend restarts. *)
Crash ==
    /\ pc' = [w \in Workers |-> "idle"]
    /\ job' = [w \in Workers |-> NoJob]
    /\ UNCHANGED <<tables, old, startedBy, cookie, idp, oldCodes, issued, sessions>>

Init ==
    /\ pkce = {} /\ old = {}
    /\ startedBy = [a \in Attempts |-> None]
    /\ cookie = [b \in Browsers |-> None]
    /\ idp = [a \in Attempts |-> "none"]
    /\ loginCodes = {} /\ oldCodes = {}
    /\ issued = [c \in Codes |-> None]
    /\ sessions = [a \in Attempts |-> [b \in Browsers |-> 0]]
    /\ pc = [w \in Workers |-> "idle"]
    /\ job = [w \in Workers |-> NoJob]

Start(w) ==
    \/ \E b \in Browsers, a \in Attempts : Login(w, b, a) \/ Callback(w, b, a)
    \/ \E c \in Codes : Exchange(w, c)

Step(w) ==
    \/ LoginPurge(w) \/ LoginCount(w) \/ LoginInsert(w)
    \/ Consume(w) \/ Redeem(w) \/ SignIn(w)
    \/ ExchangeDelete(w) \/ Mint(w)

Next ==
    \/ \E w \in Workers : Start(w) \/ Step(w)
    \/ \E a \in Attempts : Grant(a) \/ StateExpires(a)
    \/ \E c \in Codes : CodeExpires(c)
    \/ Crash

Spec == Init /\ [][Next]_vars

----------------------------------------------------------------------------
(* One attempt ends in at most one session, and in the browser that began  *)
(* it, although two callbacks may pass the check of one state and two      *)
(* exchanges find one login code (F-008, F-017).                           *)
OneSessionAtHome ==
    \A a \in Attempts, b \in Browsers :
        /\ sessions[a][b] <= 1
        /\ sessions[a][b] > 0 => b = startedBy[a]

(* The implementation of LoginAttempts.  An attempt is open while its row  *)
(* or a callback that consumed it can still sign in, and accepted while    *)
(* its login code can still be exchanged or is being exchanged.            *)
InFlight(a) ==
    \E w \in Workers :
        /\ job[w].attempt = a
        /\ pc[w] \in {"redeem", "signIn"} \/ (pc[w] = "consume" /\ a \notin old)

Exchangeable(c) ==
    c \in loginCodes \ oldCodes \/ \E w \in Workers : pc[w] = "mint" /\ job[w].code = c

CodesOf(a) == {c \in Codes : issued[c] # None /\ issued[c].attempt = a}

Phase(a) ==
    IF startedBy[a] = None THEN "new"
    ELSE IF CodesOf(a) = {} /\ (a \in pkce \ old \/ InFlight(a)) THEN "open"
    ELSE IF \E c \in CodesOf(a) : Exchangeable(c) THEN "accepted"
    ELSE "closed"

Attempt == INSTANCE LoginAttempts WITH
    phase <- [a \in Attempts |-> Phase(a)], owner <- startedBy, session <- sessions

(* Each attempt goes its way once: it is accepted only while open, gives a *)
(* session only while accepted, and a closed one stays closed - expired,   *)
(* refused, used, or lost in a restart.                                    *)
ImplementsAttempts == Attempt!Spec
=============================================================================
