-------------------------------- MODULE Edge -------------------------------
(***************************************************************************)
(* What a request meets before the application (app/body_limit.py and      *)
(* app/limiter.py): the limit on the body of POST /api/ocr/bulk-scan, a    *)
(* middleware between the server and an application that reads the body in *)
(* chunks and answers, raises or gives up when it likes; and the key under *)
(* which the rate limiter counts a client.                                 *)
(*                                                                         *)
(* Once the application (external) answers it reads no more of the body.   *)
(***************************************************************************)
EXTENDS Naturals, Sequences, FiniteSets, FiniteSetsExt

CONSTANTS
    Limit,              \* max_bulk_total_bytes + MULTIPART_SLACK
    Chunks,             \* sizes of the chunks a body comes in
    Declarations,       \* what content-length may say: a number, Garbage, or None
    Garbage, None

VARIABLES
    declared,
    received, exceeded, sent_413,       \* the locals of BodyLimitMiddleware
    app,                                \* what the application is doing
    taken,                              \* history: how much of the body it was given
    wire                                \* history: what the client was sent

vars == <<declared, received, exceeded, sent_413, app, taken, wire>>

Rejection == <<"413 start", "413 body">>

----------------------------------------------------------------------------
TooBig == declared = Garbage \/ (declared \in Nat /\ declared > Limit)

Start ==
    /\ app = "called"
    /\ IF TooBig
       THEN wire' = Rejection /\ app' = "done"
       ELSE app' = "reading" /\ UNCHANGED wire
    /\ UNCHANGED <<declared, received, exceeded, sent_413, taken>>

(* limited_receive: the server ends a body at its declared length.  Past   *)
(* the limit the application sees a client that is gone.                   *)
Receive(n, last) ==
    /\ app = "reading"
    /\ declared \in Nat => received + n <= declared
    /\ received' = received + n
    /\ IF received + n > Limit
       THEN exceeded' = TRUE /\ app' = "cut off" /\ UNCHANGED taken
       ELSE /\ taken' = taken + n
            /\ app' = IF last THEN "has all" ELSE "reading"
            /\ UNCHANGED exceeded
    /\ UNCHANGED <<declared, sent_413, wire>>

(* The client really is gone. *)
Disconnected ==
    /\ app = "reading" /\ app' = "cut off"
    /\ UNCHANGED <<declared, received, exceeded, sent_413, taken, wire>>

(* Mutant: each message of the application is replaced. *)
SendEveryTime(message) ==
    /\ IF exceeded THEN wire' = wire \o Rejection ELSE wire' = Append(wire, message)
    /\ sent_413' = (sent_413 \/ exceeded)

(* guarded_send *)
Send(message) ==
    /\ wire' = IF ~exceeded THEN Append(wire, message)
               ELSE IF ~sent_413 THEN wire \o Rejection ELSE wire
    /\ sent_413' = (sent_413 \/ exceeded)

(* The application may answer at any time: too many requests, too many     *)
(* parts, the answer itself, or the 400 the framework makes of a broken    *)
(* body.                                                                   *)
AnswerStarts ==
    /\ app \in {"reading", "has all", "cut off"} /\ app' = "answering"
    /\ Send("start")
    /\ UNCHANGED <<declared, received, exceeded, taken>>

AnswerGoesOn ==
    /\ app = "answering" /\ app' = "answered"
    /\ Send("body")
    /\ UNCHANGED <<declared, received, exceeded, taken>>

(* It returns or raises; what it raises goes to the server unless the      *)
(* limit was the reason.                                                   *)
Ends ==
    /\ app \in {"reading", "has all", "cut off", "answering", "answered"} /\ app' = "done"
    /\ wire' = IF exceeded /\ ~sent_413 THEN wire \o Rejection ELSE wire
    /\ UNCHANGED <<declared, received, exceeded, sent_413, taken>>

Init ==
    /\ declared \in Declarations
    /\ received = 0 /\ exceeded = FALSE /\ sent_413 = FALSE
    /\ app = "called" /\ taken = 0 /\ wire = <<>>

Next ==
    \/ Start \/ Disconnected \/ AnswerStarts \/ AnswerGoesOn \/ Ends
    \/ \E n \in Chunks, last \in BOOLEAN : Receive(n, last)

Spec == Init /\ [][Next]_vars

----------------------------------------------------------------------------
(* client_key: the peer, unless that is a trusted proxy; then the nearest  *)
(* address of X-Forwarded-For that is not one, unless there is garbage     *)
(* before it.                                                              *)
ClientKey(peer, chain, trusted, addresses) ==
    LET strangers == {i \in DOMAIN chain : chain[i] \notin trusted}
    IN  IF peer \notin trusted \/ strangers = {} THEN peer
        ELSE LET nearest == chain[Max(strangers)]
             IN  IF nearest \in addresses THEN nearest ELSE peer

----------------------------------------------------------------------------
(* However the body is cut into chunks and whatever the application does   *)
(* with it: it is given no more than the limit; a body that exceeds it, or *)
(* is declared to, is answered by one 413 and by nothing else; and no      *)
(* other body is.                                                          *)
OversizedRefused ==
    /\ taken <= Limit
    /\ exceeded => wire \in {<<>>, Rejection}
    /\ app = "done" /\ (exceeded \/ TooBig) => wire = Rejection
    /\ ~exceeded /\ ~TooBig => wire \in {<<>>, <<"start">>, <<"start", "body">>}
=============================================================================
