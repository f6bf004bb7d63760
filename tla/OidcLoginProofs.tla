-------------------------- MODULE OidcLoginProofs --------------------------
(***************************************************************************)
(* Proofs about OidcLogin: types, that an attempt ends in at most one      *)
(* session, in the browser that began it, and that the concurrent handlers *)
(* implement LoginAttempts, for any number of attempts, browsers, login    *)
(* codes and requests.                                                     *)
(*                                                                         *)
(* The right to a session is passed on and never copied: from the only     *)
(* redemption of the authorization code to the request that signs in, from *)
(* it to the row of a login code, from the row to the one request that     *)
(* deletes it, and from that to the session.                               *)
(***************************************************************************)
EXTENDS OidcLogin, TLAPS

(* A state is drawn by one request, and nothing is known of it before its  *)
(* row is stored.                                                          *)
LoginsDrawn ==
    /\ \A w \in Workers : pc[w] \in LoginPc =>
          /\ job[w].attempt \in Attempts /\ job[w].browser \in Browsers
          /\ startedBy[job[w].attempt] = None
          /\ \A v \in Workers \ {w} : pc[v] \in LoginPc => job[v].attempt # job[w].attempt
    /\ \A a \in Attempts : startedBy[a] = None => idp[a] = "none"

(* The binder cookie is that of an attempt of the browser that holds it.   *)
CookiesHome == \A b \in Browsers : cookie[b] # None => startedBy[cookie[b]] = b

(* A callback that passed the check of the cookie came from the browser    *)
(* that began the attempt.                                                 *)
CallbacksHome ==
    \A w \in Workers : pc[w] \in CallbackPc =>
        /\ job[w].attempt \in Attempts /\ job[w].browser \in Browsers
        /\ idp[job[w].attempt] # "none"
        /\ \/ pc[w] = "consume" /\ job[w].cookie # job[w].attempt
           \/ startedBy[job[w].attempt] = job[w].browser

(* Only one request signs in for an attempt, and none has before. *)
SigningIn ==
    \A w \in Workers : pc[w] = "signIn" =>
        /\ idp[job[w].attempt] = "redeemed"
        /\ \A c \in Codes : issued[c] # None => issued[c].attempt # job[w].attempt
        /\ \A v \in Workers \ {w} : pc[v] = "signIn" => job[v].attempt # job[w].attempt

(* An attempt has one login code, for its own browser. *)
CodesIssued ==
    \A c \in Codes : issued[c] # None =>
        /\ idp[issued[c].attempt] = "redeemed"
        /\ startedBy[issued[c].attempt] = issued[c].browser
        /\ \A d \in Codes \ {c} : issued[d] # None => issued[d].attempt # issued[c].attempt

(* A login code that has its row was not exchanged. *)
RowsUnspent ==
    \A c \in loginCodes :
        /\ issued[c] # None
        /\ sessions[issued[c].attempt][issued[c].browser] = 0
        /\ \A w \in Workers : pc[w] = "mint" => job[w].code # c

Exchanging ==
    \A w \in Workers : pc[w] \in ExchangePc =>
        /\ job[w].code \in Codes /\ issued[job[w].code] # None
        /\ job[w].attempt = issued[job[w].code].attempt
        /\ job[w].browser = issued[job[w].code].browser

(* One request mints the session of a login code, and none has before. *)
Minting ==
    \A w \in Workers : pc[w] = "mint" =>
        /\ sessions[job[w].attempt][job[w].browser] = 0
        /\ \A v \in Workers \ {w} : pc[v] = "mint" => job[v].code # job[w].code

(* A session stems from a login code. *)
SessionsIssued ==
    \A a \in Attempts, b \in Browsers :
        /\ sessions[a][b] <= 1
        /\ sessions[a][b] > 0 =>
              startedBy[a] = b /\ \E c \in Codes : issued[c] # None /\ issued[c].attempt = a

IInv ==
    /\ TypeOK
    /\ LoginsDrawn /\ CookiesHome /\ CallbacksHome
    /\ SigningIn /\ CodesIssued
    /\ RowsUnspent /\ Exchanging /\ Minting /\ SessionsIssued

LEMMA NoJobTyped == NoJob \in Job
BY DEF NoJob, Job

LEMMA InitInvariant == Init => IInv
<1> SUFFICES ASSUME Init PROVE IInv  OBVIOUS
<1>1. TypeOK  BY NoJobTyped DEF Init, TypeOK, Pc
<1>2. LoginsDrawn /\ CookiesHome /\ CallbacksHome
  BY DEF Init, LoginsDrawn, CookiesHome, CallbacksHome, LoginPc, CallbackPc
<1>3. SigningIn /\ CodesIssued /\ RowsUnspent /\ Exchanging /\ Minting
  BY DEF Init, SigningIn, CodesIssued, RowsUnspent, Exchanging, Minting, ExchangePc
<1>4. SessionsIssued  BY DEF Init, SessionsIssued
<1> QED BY <1>1, <1>2, <1>3, <1>4 DEF IInv

----------------------------------------------------------------------------
LEMMA LoginKeeps ==
    ASSUME IInv, NEW w \in Workers, NEW b \in Browsers, NEW a \in Attempts, Login(w, b, a)
    PROVE  IInv'
<1> DEFINE j == [NoJob EXCEPT !.browser = b, !.attempt = a]
<1>1. j \in Job /\ j.browser = b /\ j.attempt = a  BY DEF NoJob, Job
<1>2. /\ ~Drawn(a) /\ pc[w] = "idle"
      /\ pc' = [pc EXCEPT ![w] = "loginPurge"] /\ job' = [job EXCEPT ![w] = j]
      /\ UNCHANGED <<pkce, loginCodes, old, startedBy, cookie, idp, oldCodes, issued, sessions>>
  BY DEF Login, Accept, Goto, tables
<1> HIDE DEF j
<1>3. TypeOK'  BY <1>1, <1>2 DEF IInv, TypeOK, Pc, LoginPc
<1>4. LoginsDrawn'  BY <1>1, <1>2 DEF IInv, TypeOK, LoginsDrawn, Drawn, LoginPc
<1>5. (CookiesHome /\ CallbacksHome)'
  BY <1>2 DEF IInv, TypeOK, CookiesHome, CallbacksHome, CallbackPc
<1>6. (SigningIn /\ CodesIssued)'  BY <1>2 DEF IInv, TypeOK, SigningIn, CodesIssued
<1>7. (RowsUnspent /\ Exchanging /\ Minting)'
  BY <1>2 DEF IInv, TypeOK, RowsUnspent, Exchanging, Minting, ExchangePc
<1>8. SessionsIssued'  BY <1>2 DEF IInv, SessionsIssued
<1> QED BY <1>3, <1>4, <1>5, <1>6, <1>7, <1>8 DEF IInv

LEMMA LoginPurgeKeeps ==
    ASSUME IInv, NEW w \in Workers, LoginPurge(w)
    PROVE  IInv'
<1>2. /\ pc[w] = "loginPurge" /\ pkce' \subseteq pkce
      /\ pc' = [pc EXCEPT ![w] = "loginCount"]
      /\ UNCHANGED <<loginCodes, old, startedBy, cookie, idp, oldCodes, issued, sessions, job>>
  BY DEF LoginPurge, Goto
<1>3. TypeOK'  BY <1>2 DEF IInv, TypeOK, Pc, LoginPc
<1>4. LoginsDrawn'  BY <1>2 DEF IInv, TypeOK, LoginsDrawn, LoginPc
<1>5. (CookiesHome /\ CallbacksHome)'
  BY <1>2 DEF IInv, TypeOK, CookiesHome, CallbacksHome, CallbackPc
<1>6. (SigningIn /\ CodesIssued)'  BY <1>2 DEF IInv, TypeOK, SigningIn, CodesIssued
<1>7. (RowsUnspent /\ Exchanging /\ Minting)'
  BY <1>2 DEF IInv, TypeOK, RowsUnspent, Exchanging, Minting, ExchangePc
<1>8. SessionsIssued'  BY <1>2 DEF IInv, SessionsIssued
<1> QED BY <1>3, <1>4, <1>5, <1>6, <1>7, <1>8 DEF IInv

(* A request that ends takes with it what it alone was allowed to do. *)
LEMMA RespondKeeps ==
    ASSUME IInv, NEW w \in Workers, Respond(w), pkce' \subseteq pkce, loginCodes' \subseteq loginCodes,
           UNCHANGED <<old, startedBy, cookie, oldCodes, issued, sessions>>,
           \/ UNCHANGED idp
           \/ /\ pc[w] = "redeem" /\ idp[job[w].attempt] = "granted"
              /\ idp' = [idp EXCEPT ![job[w].attempt] = "redeemed"]
    PROVE  IInv'
<1>1. pc' = [pc EXCEPT ![w] = "idle"] /\ job' = [job EXCEPT ![w] = NoJob]
  BY DEF Respond, Goto
<1>2. /\ idp' \in [Attempts -> {"none", "granted", "redeemed"}]
      /\ \A a \in Attempts : idp[a] = "none" <=> idp'[a] = "none"
      /\ \A a \in Attempts : idp[a] = "redeemed" => idp'[a] = "redeemed"
  BY DEF IInv, TypeOK, CallbacksHome, CallbackPc
<1>3. TypeOK'  BY <1>1, <1>2, NoJobTyped DEF IInv, TypeOK, Pc
<1>4. LoginsDrawn'  BY <1>1, <1>2 DEF IInv, TypeOK, LoginsDrawn, LoginPc
<1>5. (CookiesHome /\ CallbacksHome)'
  BY <1>1, <1>2 DEF IInv, TypeOK, CookiesHome, CallbacksHome, CallbackPc
<1>6. SigningIn'
  BY <1>1, <1>2 DEF IInv, TypeOK, SigningIn, CallbacksHome, CallbackPc
<1>9. CodesIssued'  BY <1>2, LoginAssumption DEF LoginAssumption, IInv, TypeOK, CodesIssued, Issue
<1>7. (RowsUnspent /\ Exchanging /\ Minting)'
  BY <1>1 DEF IInv, TypeOK, RowsUnspent, Exchanging, Minting, ExchangePc
<1>8. SessionsIssued'  BY DEF IInv, SessionsIssued
<1> QED BY <1>3, <1>4, <1>5, <1>6, <1>7, <1>8, <1>9 DEF IInv

LEMMA LoginCountKeeps ==
    ASSUME IInv, NEW w \in Workers, LoginCount(w)
    PROVE  IInv'
<1>1. CASE Respond(w)  BY <1>1, RespondKeeps DEF LoginCount, tables
<1>2. CASE ~Respond(w)
  <2>2. /\ pc[w] = "loginCount" /\ pc' = [pc EXCEPT ![w] = "loginInsert"]
        /\ UNCHANGED <<pkce, loginCodes, old, startedBy, cookie, idp, oldCodes, issued, sessions, job>>
    BY <1>2 DEF LoginCount, Goto, tables
  <2>3. TypeOK'  BY <2>2 DEF IInv, TypeOK, Pc, LoginPc
  <2>4. LoginsDrawn'  BY <2>2 DEF IInv, TypeOK, LoginsDrawn, LoginPc
  <2>5. (CookiesHome /\ CallbacksHome)'
    BY <2>2 DEF IInv, TypeOK, CookiesHome, CallbacksHome, CallbackPc
  <2>6. (SigningIn /\ CodesIssued)'  BY <2>2 DEF IInv, TypeOK, SigningIn, CodesIssued
  <2>7. (RowsUnspent /\ Exchanging /\ Minting)'
    BY <2>2 DEF IInv, TypeOK, RowsUnspent, Exchanging, Minting, ExchangePc
  <2>8. SessionsIssued'  BY <2>2 DEF IInv, SessionsIssued
  <2> QED BY <2>3, <2>4, <2>5, <2>6, <2>7, <2>8 DEF IInv
<1> QED BY <1>1, <1>2

(* The attempt gets its browser: nobody knew of it before, so nothing that *)
(* was home elsewhere moves.                                               *)
LEMMA LoginInsertKeeps ==
    ASSUME IInv, NEW w \in Workers, LoginInsert(w)
    PROVE  IInv'
<1> DEFINE a == job[w].attempt  b == job[w].browser
<1>1. /\ a \in Attempts /\ b \in Browsers /\ startedBy[a] = None /\ b # None
      /\ \A v \in Workers \ {w} : pc[v] \in LoginPc => job[v].attempt # a
  BY LoginAssumption DEF LoginAssumption, IInv, LoginsDrawn, LoginInsert, LoginPc
<1>2. /\ pc' = [pc EXCEPT ![w] = "idle"] /\ job' = [job EXCEPT ![w] = NoJob]
      /\ pkce' = pkce \union {a}
      /\ startedBy' = [startedBy EXCEPT ![a] = b] /\ cookie' = [cookie EXCEPT ![b] = a]
      /\ UNCHANGED <<loginCodes, old, idp, oldCodes, issued, sessions>>
  BY DEF LoginInsert, Respond, Goto
<1> HIDE DEF a, b
<1>3. TypeOK'  BY <1>1, <1>2, NoJobTyped DEF IInv, TypeOK, Pc
<1>9. \A x \in Attempts : startedBy[x] # None => startedBy'[x] = startedBy[x]
  BY <1>1, <1>2 DEF IInv, TypeOK
<1>10. None \notin Attempts /\ None \notin Browsers
  BY LoginAssumption DEF LoginAssumption
<1>4. LoginsDrawn'  BY <1>1, <1>2 DEF IInv, TypeOK, LoginsDrawn, LoginPc
<1>5. CookiesHome'  BY <1>1, <1>2, <1>9, <1>10 DEF IInv, TypeOK, CookiesHome
<1>11. CallbacksHome'  BY <1>1, <1>2, <1>9, <1>10 DEF IInv, TypeOK, CallbacksHome, CallbackPc
<1>6. SigningIn'  BY <1>2 DEF IInv, TypeOK, SigningIn
<1>12. CodesIssued'
  BY <1>2, <1>9, <1>10 DEF IInv, TypeOK, CodesIssued, Issue
<1>7. (RowsUnspent /\ Exchanging /\ Minting)'
  BY <1>2 DEF IInv, TypeOK, RowsUnspent, Exchanging, Minting, ExchangePc
<1>8. SessionsIssued'  BY <1>2, <1>9, <1>10 DEF IInv, SessionsIssued
<1> QED BY <1>3, <1>4, <1>5, <1>6, <1>7, <1>8, <1>11, <1>12 DEF IInv

LEMMA GrantKeeps ==
    ASSUME IInv, NEW a \in Attempts, Grant(a)
    PROVE  IInv'
<1>2. /\ startedBy[a] # None /\ idp[a] = "none" /\ idp' = [idp EXCEPT ![a] = "granted"]
      /\ UNCHANGED <<pkce, loginCodes, old, startedBy, cookie, oldCodes, issued, sessions, pc, job>>
  BY DEF Grant, tables
<1>3. TypeOK'  BY <1>2 DEF IInv, TypeOK
<1>4. LoginsDrawn'  BY <1>2 DEF IInv, TypeOK, LoginsDrawn
<1>5. (CookiesHome /\ CallbacksHome)'  BY <1>2 DEF IInv, TypeOK, CookiesHome, CallbacksHome
<1>6. SigningIn'  BY <1>2 DEF IInv, TypeOK, SigningIn
<1>9. CodesIssued'  BY <1>2 DEF IInv, TypeOK, CodesIssued
<1>7. (RowsUnspent /\ Exchanging /\ Minting)'  BY <1>2 DEF IInv, RowsUnspent, Exchanging, Minting
<1>8. SessionsIssued'  BY <1>2 DEF IInv, SessionsIssued
<1> QED BY <1>3, <1>4, <1>5, <1>6, <1>7, <1>8, <1>9 DEF IInv

----------------------------------------------------------------------------
LEMMA CallbackKeeps ==
    ASSUME IInv, NEW w \in Workers, NEW b \in Browsers, NEW a \in Attempts, Callback(w, b, a)
    PROVE  IInv'
<1> DEFINE j == [NoJob EXCEPT !.browser = b, !.attempt = a, !.cookie = cookie[b]]
<1>1. j \in Job /\ j.browser = b /\ j.attempt = a /\ j.cookie = cookie[b]
  BY DEF NoJob, Job, IInv, TypeOK
<1>2. /\ idp[a] # "none" /\ pc[w] = "idle"
      /\ pc' = [pc EXCEPT ![w] = "consume"] /\ job' = [job EXCEPT ![w] = j]
      /\ UNCHANGED <<pkce, loginCodes, old, startedBy, cookie, idp, oldCodes, issued, sessions>>
  BY DEF Callback, Accept, Goto, tables
<1>10. cookie[b] = a => startedBy[a] = b
  BY LoginAssumption DEF LoginAssumption, IInv, CookiesHome
<1> HIDE DEF j
<1>3. TypeOK'  BY <1>1, <1>2 DEF IInv, TypeOK, Pc, CallbackPc
<1>4. LoginsDrawn'  BY <1>1, <1>2 DEF IInv, TypeOK, LoginsDrawn, LoginPc
<1>5. (CookiesHome /\ CallbacksHome)'
  BY <1>1, <1>2, <1>10 DEF IInv, TypeOK, CookiesHome, CallbacksHome, CallbackPc
<1>6. (SigningIn /\ CodesIssued)'  BY <1>2 DEF IInv, TypeOK, SigningIn, CodesIssued
<1>7. (RowsUnspent /\ Exchanging /\ Minting)'
  BY <1>2 DEF IInv, TypeOK, RowsUnspent, Exchanging, Minting, ExchangePc
<1>8. SessionsIssued'  BY <1>2 DEF IInv, SessionsIssued
<1> QED BY <1>3, <1>4, <1>5, <1>6, <1>7, <1>8 DEF IInv

LEMMA ConsumeKeeps ==
    ASSUME IInv, NEW w \in Workers, Consume(w)
    PROVE  IInv'
<1>1. CASE Respond(w)  BY <1>1, RespondKeeps DEF Consume
<1>2. CASE ~Respond(w)
  <2>2. /\ pc[w] = "consume" /\ pc' = [pc EXCEPT ![w] = "redeem"]
        /\ job[w].cookie = job[w].attempt /\ pkce' \subseteq pkce
        /\ UNCHANGED <<loginCodes, old, startedBy, cookie, idp, oldCodes, issued, sessions, job>>
    BY <1>2 DEF Consume, Goto
  <2>3. TypeOK'  BY <2>2 DEF IInv, TypeOK, Pc, CallbackPc
  <2>4. LoginsDrawn'  BY <2>2 DEF IInv, TypeOK, LoginsDrawn, LoginPc
  <2>5. (CookiesHome /\ CallbacksHome)'
    BY <2>2 DEF IInv, TypeOK, CookiesHome, CallbacksHome, CallbackPc
  <2>6. (SigningIn /\ CodesIssued)'  BY <2>2 DEF IInv, TypeOK, SigningIn, CodesIssued
  <2>7. (RowsUnspent /\ Exchanging /\ Minting)'
    BY <2>2 DEF IInv, TypeOK, RowsUnspent, Exchanging, Minting, ExchangePc
  <2>8. SessionsIssued'  BY <2>2 DEF IInv, SessionsIssued
  <2> QED BY <2>3, <2>4, <2>5, <2>6, <2>7, <2>8 DEF IInv
<1> QED BY <1>1, <1>2

(* The authorization code is redeemed once, so nobody else signs in for    *)
(* the attempt, or has.                                                    *)
LEMMA RedeemKeeps ==
    ASSUME IInv, NEW w \in Workers, Redeem(w)
    PROVE  IInv'
<1>1. CASE Respond(w)  BY <1>1, RespondKeeps DEF Redeem, tables
<1>2. CASE ~Respond(w)
  <2> DEFINE a == job[w].attempt
  <2>2. /\ pc[w] = "redeem" /\ pc' = [pc EXCEPT ![w] = "signIn"] /\ idp[a] = "granted"
        /\ idp' = [idp EXCEPT ![a] = "redeemed"]
        /\ UNCHANGED <<pkce, loginCodes, old, startedBy, cookie, oldCodes, issued, sessions, job>>
    BY <1>2 DEF Redeem, Goto, tables
  <2>9. a \in Attempts /\ startedBy[a] # None
    BY <2>2, LoginAssumption DEF LoginAssumption, IInv, CallbacksHome, LoginsDrawn, CallbackPc
  <2> HIDE DEF a
  <2>3. TypeOK'  BY <2>2 DEF IInv, TypeOK, Pc, CallbackPc
  <2>4. LoginsDrawn'  BY <2>2, <2>9 DEF IInv, TypeOK, LoginsDrawn, LoginPc
  <2>5. (CookiesHome /\ CallbacksHome)'
    BY <2>2, <2>9 DEF IInv, TypeOK, CookiesHome, CallbacksHome, CallbackPc
  <2>10. CodesIssued'
    BY <2>2, <2>9, LoginAssumption DEF LoginAssumption, IInv, TypeOK, CodesIssued, Issue
  <2>6. SigningIn'
    <3>1. \A c \in Codes : issued[c] # None => issued[c].attempt # a
      BY <2>2 DEF IInv, CodesIssued
    <3>2. \A v \in Workers : pc[v] = "signIn" => job[v].attempt # a
      BY <2>2 DEF IInv, SigningIn
    <3> QED BY <2>2, <2>9, <3>1, <3>2 DEF IInv, TypeOK, SigningIn, a
  <2>7. (RowsUnspent /\ Exchanging /\ Minting)'
    BY <2>2 DEF IInv, TypeOK, RowsUnspent, Exchanging, Minting, ExchangePc
  <2>8. SessionsIssued'  BY <2>2 DEF IInv, SessionsIssued
  <2> QED BY <2>3, <2>4, <2>5, <2>6, <2>7, <2>8, <2>10 DEF IInv
<1> QED BY <1>1, <1>2

(* The right to a session moves from the request to the row of a new code. *)
LEMMA SignInKeeps ==
    ASSUME IInv, NEW w \in Workers, SignIn(w)
    PROVE  IInv'
<1>1. CASE UNCHANGED <<loginCodes, issued, cookie>>
  BY <1>1, RespondKeeps DEF SignIn
<1>2. CASE ~UNCHANGED <<loginCodes, issued, cookie>>
  <2> DEFINE a == job[w].attempt  b == job[w].browser
             i == [attempt |-> a, browser |-> b]
  <2>0. PICK c \in Codes :
            /\ issued[c] = None
            /\ loginCodes' = (loginCodes \ oldCodes) \union {c}
            /\ issued' = [issued EXCEPT ![c] = i]
            /\ cookie' = [cookie EXCEPT ![b] = None]
    BY <1>2 DEF SignIn
  <2>1. /\ pc[w] = "signIn" /\ pc' = [pc EXCEPT ![w] = "idle"] /\ job' = [job EXCEPT ![w] = NoJob]
        /\ UNCHANGED <<pkce, old, startedBy, idp, oldCodes, sessions>>
    BY DEF SignIn, Respond, Goto
  <2>2. /\ a \in Attempts /\ b \in Browsers /\ startedBy[a] = b /\ idp[a] = "redeemed"
        /\ \A d \in Codes : issued[d] # None => issued[d].attempt # a
        /\ \A v \in Workers \ {w} : pc[v] = "signIn" => job[v].attempt # a
    BY <2>1 DEF IInv, CallbacksHome, SigningIn, CallbackPc
  <2>3. i \in Issue /\ i # None /\ i.attempt = a /\ i.browser = b
    BY <2>2, LoginAssumption DEF LoginAssumption, Issue
  <2>4. issued'[c] = i /\ \A d \in Codes \ {c} : issued'[d] = issued[d]
    BY <2>0 DEF IInv, TypeOK
  <2>5. c \notin loginCodes /\ \A v \in Workers : pc[v] \in ExchangePc => job[v].code # c
    BY <2>0 DEF IInv, RowsUnspent, Exchanging
  <2> HIDE DEF a, b, i
  <2>6. sessions[a][b] = 0
    <3>1. ~(sessions[a][b] > 0)  BY <2>2 DEF IInv, SessionsIssued
    <3>2. sessions[a][b] \in Nat  BY <2>2 DEF IInv, TypeOK
    <3> QED BY <3>1, <3>2
  <2>7. TypeOK'  BY <2>0, <2>1, <2>2, <2>3, NoJobTyped DEF IInv, TypeOK, Pc
  <2>8. LoginsDrawn'  BY <2>1 DEF IInv, TypeOK, LoginsDrawn, LoginPc
  <2>9. CookiesHome'  BY <2>0, <2>1 DEF IInv, TypeOK, CookiesHome
  <2>10. CallbacksHome'  BY <2>1 DEF IInv, TypeOK, CallbacksHome, CallbackPc
  <2>11. SigningIn'
    BY <2>1, <2>2, <2>3, <2>4 DEF IInv, TypeOK, SigningIn, a
  <2>12. CodesIssued'
    BY <2>1, <2>2, <2>3, <2>4 DEF IInv, CodesIssued
  <2>13. RowsUnspent'
    <3> SUFFICES ASSUME NEW d \in loginCodes'
                 PROVE  /\ issued'[d] # None
                        /\ sessions'[issued'[d].attempt][issued'[d].browser] = 0
                        /\ \A v \in Workers : pc'[v] = "mint" => job'[v].code # d
      BY DEF RowsUnspent
    <3>1. \A v \in Workers : pc'[v] = "mint" => pc[v] = "mint" /\ job'[v] = job[v]
      BY <2>1 DEF IInv, TypeOK
    <3>2. CASE d = c  BY <2>0, <2>1, <2>3, <2>4, <2>5, <2>6, <3>1, <3>2 DEF ExchangePc
    <3>3. CASE d # c
      <4>1. d \in loginCodes /\ d \in Codes  BY <2>0, <3>3 DEF IInv, TypeOK
      <4> QED BY <2>1, <2>4, <3>1, <3>3, <4>1 DEF IInv, RowsUnspent
    <3> QED BY <3>2, <3>3
  <2>14. (Exchanging /\ Minting)'
    BY <2>1, <2>4, <2>5 DEF IInv, TypeOK, Exchanging, Minting, ExchangePc
  <2>15. SessionsIssued'
    BY <2>0, <2>1, <2>4 DEF IInv, SessionsIssued
  <2> QED BY <2>7, <2>8, <2>9, <2>10, <2>11, <2>12, <2>13, <2>14, <2>15 DEF IInv
<1> QED BY <1>1, <1>2

----------------------------------------------------------------------------
LEMMA ExchangeKeeps ==
    ASSUME IInv, NEW w \in Workers, NEW c \in Codes, Exchange(w, c)
    PROVE  IInv'
<1> DEFINE j == [NoJob EXCEPT !.browser = issued[c].browser, !.attempt = issued[c].attempt, !.code = c]
<1>1. c \in loginCodes /\ issued[c] # None /\ issued[c] \in Issue
  BY DEF Exchange, IInv, TypeOK, RowsUnspent
<1>2. /\ j \in Job /\ j.browser = issued[c].browser /\ j.attempt = issued[c].attempt /\ j.code = c
  BY <1>1 DEF NoJob, Job, Issue
<1>3. /\ pc[w] = "idle" /\ pc' = [pc EXCEPT ![w] = "exchange"] /\ job' = [job EXCEPT ![w] = j]
      /\ UNCHANGED <<pkce, loginCodes, old, startedBy, cookie, idp, oldCodes, issued, sessions>>
  BY DEF Exchange, Accept, Goto, tables
<1> HIDE DEF j
<1>4. TypeOK'  BY <1>2, <1>3 DEF IInv, TypeOK, Pc, ExchangePc
<1>5. LoginsDrawn'  BY <1>3 DEF IInv, TypeOK, LoginsDrawn, LoginPc
<1>6. (CookiesHome /\ CallbacksHome)'
  BY <1>3 DEF IInv, TypeOK, CookiesHome, CallbacksHome, CallbackPc
<1>7. (SigningIn /\ CodesIssued)'  BY <1>3 DEF IInv, TypeOK, SigningIn, CodesIssued
<1>8. (RowsUnspent /\ Exchanging /\ Minting)'
  BY <1>1, <1>2, <1>3 DEF IInv, TypeOK, RowsUnspent, Exchanging, Minting, ExchangePc
<1>9. SessionsIssued'  BY <1>3 DEF IInv, SessionsIssued
<1> QED BY <1>4, <1>5, <1>6, <1>7, <1>8, <1>9 DEF IInv

(* Who deletes the row has the right to the session: it was unspent.       *)
LEMMA ExchangeDeleteKeeps ==
    ASSUME IInv, NEW w \in Workers, ExchangeDelete(w)
    PROVE  IInv'
<1>1. CASE Respond(w)  BY <1>1, RespondKeeps DEF ExchangeDelete
<1>2. CASE ~Respond(w)
  <2> DEFINE c == job[w].code
  <2>1. /\ pc[w] = "exchange" /\ pc' = [pc EXCEPT ![w] = "mint"]
        /\ c \in loginCodes /\ loginCodes' = loginCodes \ {c}
        /\ UNCHANGED <<pkce, old, startedBy, cookie, idp, oldCodes, issued, sessions, job>>
    BY <1>2 DEF ExchangeDelete, Goto
  <2>2. /\ sessions[job[w].attempt][job[w].browser] = 0
        /\ \A v \in Workers : pc[v] = "mint" => job[v].code # c
    BY <2>1 DEF IInv, RowsUnspent, Exchanging, ExchangePc
  <2> HIDE DEF c
  <2>3. TypeOK'  BY <2>1 DEF IInv, TypeOK, Pc, ExchangePc
  <2>4. LoginsDrawn'  BY <2>1 DEF IInv, TypeOK, LoginsDrawn, LoginPc
  <2>5. (CookiesHome /\ CallbacksHome)'
    BY <2>1 DEF IInv, TypeOK, CookiesHome, CallbacksHome, CallbackPc
  <2>6. (SigningIn /\ CodesIssued)'  BY <2>1 DEF IInv, TypeOK, SigningIn, CodesIssued
  <2>7. RowsUnspent'  BY <2>1 DEF IInv, TypeOK, RowsUnspent, c
  <2>8. Exchanging'  BY <2>1 DEF IInv, TypeOK, Exchanging, ExchangePc
  <2>9. Minting'  BY <2>1, <2>2 DEF IInv, TypeOK, Minting, c
  <2>10. SessionsIssued'  BY <2>1 DEF IInv, SessionsIssued
  <2> QED BY <2>3, <2>4, <2>5, <2>6, <2>7, <2>8, <2>9, <2>10 DEF IInv
<1> QED BY <1>1, <1>2

(* The session is the first of its attempt; nobody else holds the code,    *)
(* and no other code is that of the attempt.                               *)
LEMMA MintKeeps ==
    ASSUME IInv, NEW w \in Workers, Mint(w)
    PROVE  IInv'
<1>1. CASE UNCHANGED sessions  BY <1>1, RespondKeeps DEF Mint, tables
<1>2. CASE ~UNCHANGED sessions
  <2> DEFINE c == job[w].code  a == job[w].attempt  b == job[w].browser
  <2>1. /\ pc[w] = "mint" /\ sessions' = [sessions EXCEPT ![a][b] = @ + 1]
        /\ pc' = [pc EXCEPT ![w] = "idle"] /\ job' = [job EXCEPT ![w] = NoJob]
        /\ UNCHANGED <<pkce, loginCodes, old, startedBy, cookie, idp, oldCodes, issued>>
    BY <1>2 DEF Mint, Respond, Goto, tables
  <2>2. /\ c \in Codes /\ issued[c] # None /\ a = issued[c].attempt /\ b = issued[c].browser
        /\ a \in Attempts /\ b \in Browsers
    BY SMTT(30), <2>1 DEF IInv, TypeOK, Exchanging, ExchangePc, Issue
  <2>3. sessions[a][b] = 0 /\ startedBy[a] = b
    BY <2>1, <2>2 DEF IInv, Minting, CodesIssued
  <2>4. \A d \in loginCodes : issued[d].attempt # a
    BY SMTT(30), <2>1, <2>2 DEF IInv, TypeOK, RowsUnspent, CodesIssued
  <2>5. \A v \in Workers \ {w} : pc[v] = "mint" => job[v].attempt # a
    BY <2>1, <2>2 DEF IInv, Exchanging, Minting, CodesIssued, ExchangePc
  <2> HIDE DEF a, b, c
  <2>6. /\ sessions' \in [Attempts -> [Browsers -> Nat]]
        /\ \A x \in Attempts \ {a} : sessions'[x] = sessions[x]
        /\ sessions'[a][b] = 1
        /\ \A y \in Browsers \ {b} : sessions'[a][y] = sessions[a][y]
    BY <2>1, <2>2, <2>3 DEF IInv, TypeOK
  <2>7. TypeOK'  BY <2>1, <2>6, NoJobTyped DEF IInv, TypeOK, Pc
  <2>8. LoginsDrawn'  BY <2>1 DEF IInv, TypeOK, LoginsDrawn, LoginPc
  <2>9. (CookiesHome /\ CallbacksHome)'
    BY <2>1 DEF IInv, TypeOK, CookiesHome, CallbacksHome, CallbackPc
  <2>10. (SigningIn /\ CodesIssued)'  BY <2>1 DEF IInv, TypeOK, SigningIn, CodesIssued
  <2>11. RowsUnspent'
    <3>1. \A d \in loginCodes : issued[d] # None /\ issued[d] \in Issue
      BY DEF IInv, TypeOK, RowsUnspent
    <3>2. \A d \in loginCodes : issued[d].attempt \in Attempts
      BY <3>1 DEF Issue
    <3> QED BY <2>1, <2>4, <2>6, <3>2 DEF IInv, TypeOK, RowsUnspent
  <2>12. Exchanging'  BY <2>1 DEF IInv, TypeOK, Exchanging, ExchangePc
  <2>13. Minting'
    <3>1. \A v \in Workers : pc[v] = "mint" =>
              job[v].code \in Codes /\ issued[job[v].code] \in Issue /\ job[v].attempt = issued[job[v].code].attempt
      BY DEF IInv, TypeOK, Exchanging, ExchangePc
    <3>2. \A v \in Workers : pc[v] = "mint" => job[v].attempt \in Attempts
      BY <3>1 DEF Issue
    <3> QED BY <2>1, <2>5, <2>6, <3>2 DEF IInv, TypeOK, Minting
  <2>14. SessionsIssued'
    BY <2>1, <2>2, <2>3, <2>6 DEF IInv, SessionsIssued
  <2> QED BY <2>7, <2>8, <2>9, <2>10, <2>11, <2>12, <2>13, <2>14 DEF IInv
<1> QED BY <1>1, <1>2

----------------------------------------------------------------------------
LEMMA ExpiryKeeps ==
    ASSUME IInv, \/ \E a \in Attempts : StateExpires(a)
                 \/ \E c \in Codes : CodeExpires(c)
    PROVE  IInv'
<1>1. /\ old' \subseteq Attempts /\ oldCodes' \subseteq Codes
      /\ UNCHANGED <<pkce, loginCodes, startedBy, cookie, idp, issued, sessions, pc, job>>
  BY DEF StateExpires, CodeExpires, tables, IInv, TypeOK
<1> QED BY <1>1 DEF IInv, TypeOK, LoginsDrawn, CookiesHome, CallbacksHome, SigningIn, CodesIssued,
                    RowsUnspent, Exchanging, Minting, SessionsIssued

LEMMA CrashKeeps ==
    ASSUME IInv, Crash
    PROVE  IInv'
<1>1. /\ pc' = [w \in Workers |-> "idle"] /\ job' = [w \in Workers |-> NoJob]
      /\ UNCHANGED <<pkce, loginCodes, old, startedBy, cookie, idp, oldCodes, issued, sessions>>
  BY DEF Crash, tables
<1>2. TypeOK'  BY <1>1, NoJobTyped DEF IInv, TypeOK, Pc
<1>3. (LoginsDrawn /\ CookiesHome /\ CallbacksHome)'
  BY <1>1 DEF IInv, LoginsDrawn, CookiesHome, CallbacksHome, LoginPc, CallbackPc
<1>4. (SigningIn /\ CodesIssued)'  BY <1>1 DEF IInv, SigningIn, CodesIssued
<1>5. (RowsUnspent /\ Exchanging /\ Minting)'
  BY <1>1 DEF IInv, RowsUnspent, Exchanging, Minting, ExchangePc
<1>6. SessionsIssued'  BY <1>1 DEF IInv, SessionsIssued
<1> QED BY <1>2, <1>3, <1>4, <1>5, <1>6 DEF IInv

LEMMA NextInvariant == IInv /\ [Next]_vars => IInv'
<1> SUFFICES ASSUME IInv, [Next]_vars PROVE IInv'
  OBVIOUS
<1>1. ASSUME NEW w \in Workers, Start(w) PROVE IInv'
  BY <1>1, LoginKeeps, CallbackKeeps, ExchangeKeeps DEF Start
<1>2. ASSUME NEW w \in Workers, Step(w) PROVE IInv'
  BY <1>2, LoginPurgeKeeps, LoginCountKeeps, LoginInsertKeeps, ConsumeKeeps, RedeemKeeps, SignInKeeps,
     ExchangeDeleteKeeps, MintKeeps DEF Step
<1>3. ASSUME NEW a \in Attempts, Grant(a) \/ StateExpires(a) PROVE IInv'
  BY <1>3, GrantKeeps, ExpiryKeeps
<1>4. ASSUME NEW c \in Codes, CodeExpires(c) PROVE IInv'
  BY <1>4, ExpiryKeeps
<1>5. CASE Crash  BY <1>5, CrashKeeps
<1>6. CASE UNCHANGED vars
  BY <1>6 DEF vars, tables, IInv, TypeOK, LoginsDrawn, CookiesHome, CallbacksHome, SigningIn, CodesIssued,
              RowsUnspent, Exchanging, Minting, SessionsIssued
<1> QED BY <1>1, <1>2, <1>3, <1>4, <1>5, <1>6 DEF Next

LEMMA Invariance == Spec => []IInv
BY InitInvariant, NextInvariant, PTL DEF Spec

----------------------------------------------------------------------------
(* The tables, the cookies and the requests of single sign-on are well     *)
(* typed at every step of concurrent handlers, through every restart.      *)
THEOREM TypeCorrect == Spec => []TypeOK
BY Invariance, PTL DEF IInv

(* However many browsers follow a redirect, however often and in whatever  *)
(* order their requests read and delete the state and the login code, an   *)
(* attempt ends in at most one session, in the browser that began it.      *)
THEOREM SessionsCorrect == Spec => []OneSessionAtHome
<1>1. IInv => OneSessionAtHome
  BY DEF IInv, TypeOK, SessionsIssued, OneSessionAtHome
<1> QED BY <1>1, Invariance, PTL

----------------------------------------------------------------------------
(* The implementation of LoginAttempts.                                    *)

(* Nothing is old before it exists. *)
Aging ==
    /\ \A a \in Attempts : startedBy[a] = None => a \notin old
    /\ \A c \in Codes : issued[c] = None => c \notin oldCodes

LEMMA NextAging == IInv /\ Aging /\ [Next]_vars => Aging'
<1> SUFFICES ASSUME IInv, Aging, [Next]_vars PROVE Aging'
  OBVIOUS
<1>1. CASE UNCHANGED <<startedBy, old, issued, oldCodes>>
  BY <1>1 DEF Aging
<1>2. ASSUME NEW w \in Workers, LoginInsert(w) PROVE Aging'
  <2>1. job[w].attempt \in Attempts /\ job[w].browser # None
    BY <1>2, LoginAssumption DEF LoginAssumption, IInv, LoginsDrawn, LoginInsert, LoginPc
  <2> QED BY <1>2, <2>1 DEF IInv, TypeOK, LoginInsert, Aging
<1>3. ASSUME NEW w \in Workers, SignIn(w) PROVE Aging'
  <2>1. [attempt |-> job[w].attempt, browser |-> job[w].browser] # None
    BY <1>3, LoginAssumption DEF LoginAssumption, IInv, CallbacksHome, SignIn, CallbackPc
  <2> QED BY <1>3, <2>1 DEF IInv, TypeOK, SignIn, Aging
<1>4. ASSUME NEW a \in Attempts, StateExpires(a) PROVE Aging'
  BY <1>4 DEF StateExpires, Aging
<1>5. ASSUME NEW c \in Codes, CodeExpires(c) PROVE Aging'
  BY SMTT(30), <1>5 DEF CodeExpires, Aging
<1>6. ASSUME NEW w \in Workers, Start(w) PROVE Aging'
  BY <1>1, <1>6 DEF Start, Login, Callback, Exchange
<1>7. ASSUME NEW w \in Workers, Step(w) PROVE Aging'
  <2>1. CASE LoginPurge(w) \/ LoginCount(w)  BY <1>1, <2>1 DEF LoginPurge, LoginCount
  <2>2. CASE Consume(w) \/ Redeem(w)  BY <1>1, <2>2 DEF Consume, Redeem
  <2>3. CASE ExchangeDelete(w) \/ Mint(w)  BY <1>1, <2>3 DEF ExchangeDelete, Mint
  <2> QED BY <1>2, <1>3, <1>7, <2>1, <2>2, <2>3 DEF Step
<1>8. ASSUME NEW a \in Attempts, Grant(a) PROVE Aging'  BY <1>1, <1>8 DEF Grant
<1>9. CASE Crash \/ UNCHANGED vars  BY <1>1, <1>9 DEF Crash, vars
<1> QED BY <1>4, <1>5, <1>6, <1>7, <1>8, <1>9 DEF Next

(* Steps after which an attempt is alive only where it was before: some    *)
(* attempts are closed, or nothing happens.                                *)
LEMMA ShrinkRefines ==
    ASSUME UNCHANGED <<startedBy, issued, sessions>>,
           \A a \in Attempts : (a \in pkce \ old \/ InFlight(a))' => a \in pkce \ old \/ InFlight(a),
           \A c \in Codes : Exchangeable(c)' => Exchangeable(c)
    PROVE  Attempt!Next
<1> DEFINE gone == {a \in Attempts : Phase(a)' # Phase(a)}
<1>1. \A a \in Attempts : CodesOf(a)' = CodesOf(a) /\ CodesOf(a) \subseteq Codes
  BY DEF CodesOf
<1>2. \A a \in gone : Phase(a) \in {"open", "accepted"} /\ Phase(a)' = "closed"
  BY <1>1 DEF Phase
<1>3. gone \in SUBSET Attempts /\ \A a \in Attempts \ gone : Phase(a)' = Phase(a)
  OBVIOUS
<1> HIDE DEF gone
<1>4. Attempt!Close(gone)
  BY <1>2, <1>3 DEF Attempt!Close
<1> QED BY <1>3, <1>4 DEF Attempt!Next

LEMMA RespondRefines ==
    ASSUME IInv, NEW w \in Workers, Respond(w), pkce' \subseteq pkce, loginCodes' \subseteq loginCodes,
           UNCHANGED <<old, startedBy, oldCodes, issued, sessions>>
    PROVE  Attempt!Next
<1>1. pc' = [pc EXCEPT ![w] = "idle"] /\ job' = [job EXCEPT ![w] = NoJob]
  BY DEF Respond, Goto
<1>2. \A a \in Attempts : (a \in pkce \ old \/ InFlight(a))' => a \in pkce \ old \/ InFlight(a)
  BY <1>1 DEF IInv, TypeOK, InFlight
<1>3. \A c \in Codes : Exchangeable(c)' => Exchangeable(c)
  BY <1>1 DEF IInv, TypeOK, Exchangeable
<1> QED BY <1>2, <1>3, ShrinkRefines

LEMMA StartRefines ==
    ASSUME IInv, NEW w \in Workers, Start(w)
    PROVE  Attempt!Next
<1>1. CASE \E b \in Browsers, a \in Attempts : Login(w, b, a)
  <2>1. /\ pc[w] = "idle" /\ pc' = [pc EXCEPT ![w] = "loginPurge"]
        /\ \A v \in Workers \ {w} : job'[v] = job[v]
        /\ UNCHANGED <<pkce, loginCodes, old, startedBy, oldCodes, issued, sessions>>
    BY <1>1 DEF Login, Accept, Goto, tables, IInv, TypeOK
  <2>2. \A a \in Attempts : (a \in pkce \ old \/ InFlight(a))' => a \in pkce \ old \/ InFlight(a)
    BY <2>1 DEF IInv, TypeOK, InFlight
  <2>3. \A c \in Codes : Exchangeable(c)' => Exchangeable(c)
    BY <2>1 DEF IInv, TypeOK, Exchangeable
  <2> QED BY <2>1, <2>2, <2>3, ShrinkRefines
<1>2. CASE \E b \in Browsers, a \in Attempts : Callback(w, b, a)
  <2>0. PICK b \in Browsers : \E a \in Attempts : Callback(w, b, a)  BY <1>2
  <2>a. PICK a \in Attempts : Callback(w, b, a)  BY <2>0
  <2>1. /\ pc[w] = "idle" /\ pc' = [pc EXCEPT ![w] = "consume"] /\ a \in pkce
        /\ job'[w].attempt = a /\ \A v \in Workers \ {w} : job'[v] = job[v]
        /\ UNCHANGED <<pkce, loginCodes, old, startedBy, oldCodes, issued, sessions>>
    BY <2>a DEF Callback, Accept, Goto, tables, NoJob, IInv, TypeOK
  <2>2. \A x \in Attempts : (x \in pkce \ old \/ InFlight(x))' => x \in pkce \ old \/ InFlight(x)
    BY <2>1 DEF IInv, TypeOK, InFlight
  <2>3. \A c \in Codes : Exchangeable(c)' => Exchangeable(c)
    BY <2>1 DEF IInv, TypeOK, Exchangeable
  <2> QED BY <2>1, <2>2, <2>3, ShrinkRefines
<1>3. CASE \E c \in Codes : Exchange(w, c)
  <2>1. /\ pc[w] = "idle" /\ pc' = [pc EXCEPT ![w] = "exchange"]
        /\ \A v \in Workers \ {w} : job'[v] = job[v]
        /\ UNCHANGED <<pkce, loginCodes, old, startedBy, oldCodes, issued, sessions>>
    BY <1>3 DEF Exchange, Accept, Goto, tables, IInv, TypeOK
  <2>2. \A a \in Attempts : (a \in pkce \ old \/ InFlight(a))' => a \in pkce \ old \/ InFlight(a)
    BY <2>1 DEF IInv, TypeOK, InFlight
  <2>3. \A c \in Codes : Exchangeable(c)' => Exchangeable(c)
    BY <2>1 DEF IInv, TypeOK, Exchangeable
  <2> QED BY <2>1, <2>2, <2>3, ShrinkRefines
<1> QED BY <1>1, <1>2, <1>3 DEF Start

(* A request goes on to its next statement. *)
LEMMA GoOnRefines ==
    ASSUME IInv, NEW w \in Workers, NEW to, Goto(w, to),
           \/ pc[w] = "loginPurge" /\ to = "loginCount"
           \/ pc[w] = "loginCount" /\ to = "loginInsert"
           \/ pc[w] = "consume" /\ to = "redeem" /\ job[w].attempt \notin old
           \/ pc[w] = "redeem" /\ to = "signIn"
           \/ pc[w] = "exchange" /\ to = "mint" /\ job[w].code \in loginCodes \ oldCodes,
           pkce' \ old \subseteq pkce \ old, loginCodes' \subseteq loginCodes,
           UNCHANGED <<old, startedBy, oldCodes, issued, sessions, job>>
    PROVE  Attempt!Next
<1>1. pc' = [pc EXCEPT ![w] = to]  BY DEF Goto
<1>2. \A a \in Attempts : (a \in pkce \ old \/ InFlight(a))' => a \in pkce \ old \/ InFlight(a)
  BY <1>1 DEF IInv, TypeOK, InFlight
<1>3. \A c \in Codes : Exchangeable(c)' => Exchangeable(c)
  BY <1>1 DEF IInv, TypeOK, Exchangeable
<1> QED BY <1>2, <1>3, ShrinkRefines

LEMMA LoginInsertRefines ==
    ASSUME IInv, Aging, NEW w \in Workers, LoginInsert(w)
    PROVE  Attempt!Next
<1>0. PICK a \in Attempts, b \in Browsers : a = job[w].attempt /\ b = job[w].browser
  BY DEF IInv, LoginsDrawn, LoginInsert, LoginPc
<1>1. /\ startedBy[a] = None /\ b # None /\ a \notin old
  BY <1>0, LoginAssumption DEF LoginAssumption, IInv, LoginsDrawn, LoginInsert, LoginPc, Aging
<1>2. /\ pc[w] = "loginInsert" /\ pc' = [pc EXCEPT ![w] = "idle"]
      /\ \A v \in Workers \ {w} : job'[v] = job[v]
      /\ pkce' = pkce \union {a} /\ startedBy' = [startedBy EXCEPT ![a] = b]
      /\ UNCHANGED <<loginCodes, old, oldCodes, issued, sessions>>
  BY <1>0 DEF LoginInsert, Respond, Goto, IInv, TypeOK
<1>3. \A x \in Attempts : CodesOf(x)' = CodesOf(x)  BY <1>2 DEF CodesOf
<1>4. CodesOf(a) = {}
  BY <1>1, LoginAssumption DEF LoginAssumption, IInv, TypeOK, CodesOf, CodesIssued, Issue
<1>5. \A x \in Attempts \ {a} :
          /\ startedBy'[x] = startedBy[x]
          /\ (x \in pkce \ old)' <=> x \in pkce \ old
          /\ InFlight(x)' <=> InFlight(x)
  BY <1>1, <1>2 DEF IInv, TypeOK, InFlight
<1>6. \A c \in Codes : Exchangeable(c)' <=> Exchangeable(c)
  BY <1>2 DEF IInv, TypeOK, Exchangeable
<1>7. \A x \in Attempts \ {a} : Phase(x)' = Phase(x)
  BY <1>3, <1>5, <1>6 DEF Phase, CodesOf
<1>8. Phase(a) = "new" /\ Phase(a)' = "open"
  BY <1>1, <1>2, <1>3, <1>4 DEF Phase, IInv, TypeOK
<1>9. Attempt!Open(a, b)
  BY <1>1, <1>2, <1>7, <1>8 DEF Attempt!Open
<1> QED BY <1>1, <1>9 DEF Attempt!Next

LEMMA SignInRefines ==
    ASSUME IInv, Aging, NEW w \in Workers, SignIn(w)
    PROVE  Attempt!Next
<1>1. CASE UNCHANGED <<loginCodes, issued, cookie>>
  BY <1>1, RespondRefines DEF SignIn
<1>2. CASE ~UNCHANGED <<loginCodes, issued, cookie>>
  <2>0. PICK a \in Attempts, b \in Browsers : a = job[w].attempt /\ b = job[w].browser
    BY DEF SignIn, IInv, CallbacksHome, CallbackPc
  <2> DEFINE i == [attempt |-> a, browser |-> b]
  <2>1. PICK c \in Codes :
            /\ issued[c] = None
            /\ loginCodes' = (loginCodes \ oldCodes) \union {c}
            /\ issued' = [issued EXCEPT ![c] = i]
    BY <1>2, <2>0 DEF SignIn
  <2>2. /\ pc[w] = "signIn" /\ pc' = [pc EXCEPT ![w] = "idle"]
        /\ \A v \in Workers \ {w} : job'[v] = job[v]
        /\ UNCHANGED <<pkce, old, startedBy, oldCodes, sessions>>
    BY DEF SignIn, Respond, Goto, IInv, TypeOK
  <2>3. /\ startedBy[a] # None
        /\ \A d \in Codes : issued[d] # None => issued[d].attempt # a
    BY <2>0, <2>2, LoginAssumption DEF LoginAssumption, IInv, CallbacksHome, SigningIn, CallbackPc
  <2>4. i # None /\ i.attempt = a
    BY LoginAssumption DEF LoginAssumption
  <2>5. issued'[c] = i /\ \A d \in Codes \ {c} : issued'[d] = issued[d]
    BY <2>1 DEF IInv, TypeOK
  <2>6. c \notin oldCodes /\ \A v \in Workers : pc[v] = "mint" => job[v].code # c
    BY <2>1 DEF IInv, Exchanging, Aging, ExchangePc
  <2>7. CodesOf(a) = {} /\ InFlight(a)
    BY <2>0, <2>2, <2>3 DEF CodesOf, InFlight
  <2> HIDE DEF i
  <2>8. CodesOf(a)' = {c}
    BY <2>3, <2>4, <2>5 DEF CodesOf
  <2>9. \A x \in Attempts \ {a} : CodesOf(x)' = CodesOf(x)
    BY <2>1, <2>4, <2>5 DEF CodesOf
  <2>10. \A d \in Codes \ {c} : Exchangeable(d)' <=> Exchangeable(d)
    BY <2>1, <2>2 DEF IInv, TypeOK, Exchangeable
  <2>11. Exchangeable(c)'
    BY <2>1, <2>2, <2>6 DEF Exchangeable
  <2>12. \A x \in Attempts \ {a} : InFlight(x)' <=> InFlight(x)
    BY <2>0, <2>2 DEF IInv, TypeOK, InFlight
  <2>13. \A x \in Attempts \ {a} : c \notin CodesOf(x) /\ CodesOf(x) \subseteq Codes
    BY <2>1 DEF CodesOf
  <2>14. \A x \in Attempts \ {a} : Phase(x)' = Phase(x)
    BY <2>2, <2>9, <2>10, <2>12, <2>13 DEF Phase
  <2>15. Phase(a) = "open" /\ Phase(a)' = "accepted"
    BY <2>2, <2>3, <2>7, <2>8, <2>11 DEF Phase
  <2>16. Attempt!Accept(a)
    BY <2>2, <2>3, <2>14, <2>15 DEF Attempt!Accept
  <2> QED BY <2>3, <2>16 DEF Attempt!Next
<1> QED BY <1>1, <1>2

LEMMA MintRefines ==
    ASSUME IInv, NEW w \in Workers, Mint(w)
    PROVE  Attempt!Next
<1>1. CASE UNCHANGED sessions  BY <1>1, RespondRefines DEF Mint, tables
<1>2. CASE ~UNCHANGED sessions
  <2>0. PICK a \in Attempts, c \in Codes : a = job[w].attempt /\ c = job[w].code
    BY DEF Mint, IInv, TypeOK, Exchanging, ExchangePc, Issue
  <2> DEFINE b == job[w].browser
  <2>1. /\ pc[w] = "mint" /\ sessions' = [sessions EXCEPT ![a][b] = @ + 1]
        /\ pc' = [pc EXCEPT ![w] = "idle"]
        /\ \A v \in Workers \ {w} : job'[v] = job[v]
        /\ UNCHANGED <<pkce, loginCodes, old, startedBy, oldCodes, issued>>
    BY <1>2, <2>0 DEF Mint, Respond, Goto, tables, IInv, TypeOK
  <2>2. issued[c] # None /\ a = issued[c].attempt /\ b = issued[c].browser
    BY <2>0, <2>1 DEF IInv, Exchanging, ExchangePc
  <2>3. startedBy[a] = b /\ b # None
    BY <2>2, LoginAssumption DEF LoginAssumption, IInv, TypeOK, CodesIssued, Issue
  <2>4. /\ c \notin loginCodes
        /\ \A v \in Workers \ {w} : pc[v] = "mint" => job[v].code # c
    BY <2>0, <2>1 DEF IInv, Minting, RowsUnspent
  <2>5. CodesOf(a) = {c}
    BY <2>2 DEF CodesOf, IInv, CodesIssued
  <2> HIDE DEF b
  <2>6. \A x \in Attempts : CodesOf(x)' = CodesOf(x)
    BY <2>1 DEF CodesOf
  <2>7. Exchangeable(c) /\ ~Exchangeable(c)'
    BY <2>0, <2>1, <2>4 DEF IInv, TypeOK, Exchangeable
  <2>8. \A d \in Codes \ {c} : Exchangeable(d)' <=> Exchangeable(d)
    BY <2>0, <2>1 DEF IInv, TypeOK, Exchangeable
  <2>9. \A x \in Attempts : InFlight(x)' <=> InFlight(x)
    BY <2>1 DEF IInv, TypeOK, InFlight
  <2>10. \A x \in Attempts \ {a} : c \notin CodesOf(x) /\ CodesOf(x) \subseteq Codes
    BY <2>2 DEF CodesOf
  <2>11. \A x \in Attempts \ {a} : Phase(x)' = Phase(x)
    BY <2>1, <2>6, <2>8, <2>9, <2>10 DEF Phase
  <2>12. Phase(a) = "accepted" /\ Phase(a)' = "closed"
    BY <2>1, <2>3, <2>5, <2>6, <2>7 DEF Phase
  <2>13. Attempt!Complete(a)
    BY <2>1, <2>2, <2>3, <2>11, <2>12 DEF Attempt!Complete
  <2> QED BY <2>2, <2>13 DEF Attempt!Next
<1> QED BY <1>1, <1>2

LEMMA NextRefines == IInv /\ Aging /\ [Next]_vars => [Attempt!Next]_(Attempt!vars)
<1> SUFFICES ASSUME IInv, Aging, [Next]_vars PROVE Attempt!Next \/ UNCHANGED Attempt!vars
  OBVIOUS
<1>1. ASSUME NEW w \in Workers, Start(w) PROVE Attempt!Next
  BY <1>1, StartRefines
<1>2. ASSUME NEW w \in Workers, Step(w) PROVE Attempt!Next
  <2>1. CASE LoginPurge(w)  BY <2>1, GoOnRefines DEF LoginPurge
  <2>2. CASE LoginCount(w)
    BY <2>2, GoOnRefines, RespondRefines DEF LoginCount, tables
  <2>3. CASE Consume(w)
    BY <2>3, GoOnRefines, RespondRefines DEF Consume
  <2>4. CASE Redeem(w)
    BY <2>4, GoOnRefines, RespondRefines DEF Redeem, tables
  <2>5. CASE ExchangeDelete(w)
    BY <2>5, GoOnRefines, RespondRefines DEF ExchangeDelete
  <2> QED BY <1>2, <2>1, <2>2, <2>3, <2>4, <2>5, LoginInsertRefines, SignInRefines, MintRefines DEF Step
<1>3. ASSUME NEW a \in Attempts, Grant(a) \/ StateExpires(a) PROVE Attempt!Next
  <2>1. /\ old \subseteq old'
        /\ UNCHANGED <<pkce, loginCodes, startedBy, oldCodes, issued, sessions, pc, job>>
    BY <1>3 DEF Grant, StateExpires, tables
  <2>2. \A x \in Attempts : (x \in pkce \ old \/ InFlight(x))' => x \in pkce \ old \/ InFlight(x)
    BY <2>1 DEF InFlight
  <2>3. \A c \in Codes : Exchangeable(c)' => Exchangeable(c)
    BY <2>1 DEF Exchangeable
  <2> QED BY <2>1, <2>2, <2>3, ShrinkRefines
<1>4. ASSUME NEW c \in Codes, CodeExpires(c) PROVE Attempt!Next
  <2>1. /\ oldCodes \subseteq oldCodes'
        /\ UNCHANGED <<pkce, loginCodes, startedBy, old, issued, sessions, pc, job>>
    BY <1>4 DEF CodeExpires, tables
  <2>2. \A x \in Attempts : (x \in pkce \ old \/ InFlight(x))' => x \in pkce \ old \/ InFlight(x)
    BY <2>1 DEF InFlight
  <2>3. \A d \in Codes : Exchangeable(d)' => Exchangeable(d)
    BY <2>1 DEF Exchangeable
  <2> QED BY <2>1, <2>2, <2>3, ShrinkRefines
<1>5. CASE Crash
  <2>1. /\ pc' = [w \in Workers |-> "idle"]
        /\ UNCHANGED <<pkce, loginCodes, startedBy, old, oldCodes, issued, sessions>>
    BY <1>5 DEF Crash, tables
  <2>2. \A x \in Attempts : (x \in pkce \ old \/ InFlight(x))' => x \in pkce \ old \/ InFlight(x)
    BY <2>1 DEF InFlight
  <2>3. \A d \in Codes : Exchangeable(d)' => Exchangeable(d)
    BY <2>1 DEF Exchangeable
  <2> QED BY <2>1, <2>2, <2>3, ShrinkRefines
<1>6. CASE UNCHANGED vars
  BY <1>6 DEF vars, tables, Attempt!vars, Phase, CodesOf, InFlight, Exchangeable
<1> QED BY <1>1, <1>2, <1>3, <1>4, <1>5, <1>6 DEF Next

(* The handlers of single sign-on, statement by statement and through      *)
(* restarts, implement LoginAttempts: an attempt opens once, is accepted   *)
(* only while open, and a session begins only where one was accepted.      *)
THEOREM AttemptsImplemented == Spec => ImplementsAttempts
<1>1. Init => Attempt!Init /\ Aging
  BY DEF Init, Attempt!Init, Phase, Aging
<1>2. Spec => []Aging
  <2>1. IInv /\ Aging /\ [Next]_vars => Aging'  BY NextAging
  <2> QED BY <1>1, <2>1, Invariance, PTL DEF Spec
<1> QED BY <1>1, <1>2, NextRefines, Invariance, PTL DEF Spec, ImplementsAttempts, Attempt!Spec
=============================================================================
