--------------------------- MODULE LoginAttempts ---------------------------
(***************************************************************************)
(* What single sign-on promises of one attempt to log in, whatever the     *)
(* browsers, the identity provider and concurrent requests do: it opens    *)
(* once, is accepted at most once and ends in at most one session, in the  *)
(* browser that began it; or it ends in none.                              *)
(***************************************************************************)
EXTENDS Naturals

CONSTANTS Attempts, Browsers, None

VARIABLES
    phase,   \* attempt -> how far it got
    owner,   \* attempt -> the browser that began it
    session  \* attempt -> browser -> sessions it was given

vars == <<phase, owner, session>>

Init ==
    /\ phase = [a \in Attempts |-> "new"]
    /\ owner = [a \in Attempts |-> None]
    /\ session = [a \in Attempts |-> [b \in Browsers |-> 0]]

Open(a, b) ==
    /\ phase[a] = "new"
    /\ phase' = [phase EXCEPT ![a] = "open"]
    /\ owner' = [owner EXCEPT ![a] = b]
    /\ UNCHANGED session

(* The identity provider has vouched for the user. *)
Accept(a) ==
    /\ phase[a] = "open"
    /\ phase' = [phase EXCEPT ![a] = "accepted"]
    /\ UNCHANGED <<owner, session>>

Complete(a) ==
    /\ phase[a] = "accepted"
    /\ phase' = [phase EXCEPT ![a] = "closed"]
    /\ session' = [session EXCEPT ![a][owner[a]] = @ + 1]
    /\ UNCHANGED owner

(* Attempts that expired, failed or were lost; a restart ends several.     *)
Close(gone) ==
    /\ \A a \in gone : phase[a] \in {"open", "accepted"}
    /\ phase' = [a \in Attempts |-> IF a \in gone THEN "closed" ELSE phase[a]]
    /\ UNCHANGED <<owner, session>>

Next ==
    \/ \E a \in Attempts : (\E b \in Browsers : Open(a, b)) \/ Accept(a) \/ Complete(a)
    \/ \E gone \in SUBSET Attempts : Close(gone)

Spec == Init /\ [][Next]_vars
=============================================================================
