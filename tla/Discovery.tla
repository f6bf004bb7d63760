----------------------------- MODULE Discovery -----------------------------
(***************************************************************************)
(* The OIDC discovery document of the identity provider and its cache      *)
(* (_oidc_config in routers/auth.py): coroutines that begin or finish a    *)
(* sign-in share one cached document, one lock around the request, and the *)
(* memory of the last failure.  Between two awaits a coroutine runs alone; *)
(* it waits for the lock and for the answer of the identity provider.      *)
(*                                                                         *)
(* A document is named by the instant it was answered.                     *)
(***************************************************************************)
EXTENDS Naturals

CONSTANTS
    Callers,
    CacheTTL, NegativeTTL,      \* _OIDC_CACHE_TTL, _OIDC_NEGATIVE_TTL
    MaxTime,                    \* bound: the clock
    None

ASSUME DiscoveryAssumption ==
    /\ CacheTTL \in Nat \ {0} /\ NegativeTTL \in Nat \ {0} /\ MaxTime \in Nat
    /\ None \notin Callers /\ None \notin Nat

VARIABLES
    now,
    config, fetchedAt, failedAt,    \* _oidc_config_cache, _oidc_config_fetched_at, _oidc_failed_at
    lock,                           \* the coroutine that holds _oidc_lock
    pc,                             \* where a coroutine is
    started,                        \* its "now", taken when it got the lock
    given,                          \* the answer a coroutine was given last
    outcome, attempt, failure       \* history: of the last completed request its outcome
                                    \* and beginning, and when a request failed last

vars == <<now, config, fetchedAt, failedAt, lock, pc, started, given, outcome, attempt, failure>>

cache   == <<config, fetchedAt, failedAt>>
history == <<outcome, attempt, failure>>

Maybe(S) == S \union {None}

Answer == [doc : Nat] \union [error : {"unavailable", "empty"}]

TypeOK ==
    /\ now \in Nat
    /\ config \in Maybe(Nat) /\ fetchedAt \in Maybe(Nat) /\ failedAt \in Maybe(Nat)
    /\ lock \in Maybe(Callers)
    /\ pc \in [Callers -> {"idle", "waiting", "fetching"}]
    /\ started \in [Callers -> Nat]
    /\ given \in [Callers -> Maybe(Answer)]
    /\ outcome \in {"none", "ok", "failed", "empty"}
    /\ attempt \in Nat /\ failure \in Maybe(Nat)

----------------------------------------------------------------------------
Fresh == config # None /\ fetchedAt # None /\ now < fetchedAt + CacheTTL

FailedLately == failedAt # None /\ now < failedAt + NegativeTTL

(* The document at hand, stale or not; without one, 503 or the error the   *)
(* failed request is mapped to.                                            *)
AtHand == IF config # None THEN [doc |-> config] ELSE [error |-> "unavailable"]

Give(c, answer) == given' = [given EXCEPT ![c] = answer]

(* Mutant: a document that has expired is given without asking again. *)
AskAnyDocument(c) ==
    /\ pc[c] = "idle"
    /\ IF config # None \/ FailedLately
       THEN Give(c, AtHand) /\ UNCHANGED pc
       ELSE pc' = [pc EXCEPT ![c] = "waiting"] /\ UNCHANGED given
    /\ UNCHANGED <<now, cache, lock, started, history>>

(* The check before the lock. *)
Ask(c) ==
    /\ pc[c] = "idle"
    /\ IF Fresh \/ FailedLately
       THEN Give(c, AtHand) /\ UNCHANGED pc
       ELSE pc' = [pc EXCEPT ![c] = "waiting"] /\ UNCHANGED given
    /\ UNCHANGED <<now, cache, lock, started, history>>

(* Mutant: the check is not repeated. *)
AcquireUnchecked(c) ==
    /\ pc[c] = "waiting" /\ lock = None
    /\ lock' = c
    /\ pc' = [pc EXCEPT ![c] = "fetching"]
    /\ started' = [started EXCEPT ![c] = now]
    /\ UNCHANGED <<now, cache, given, history>>

(* The lock is free; the check is repeated with a new "now", and only then *)
(* the request is sent.                                                    *)
Acquire(c) ==
    /\ pc[c] = "waiting" /\ lock = None
    /\ IF Fresh \/ FailedLately
       THEN /\ Give(c, AtHand)
            /\ pc' = [pc EXCEPT ![c] = "idle"]
            /\ UNCHANGED <<lock, started>>
       ELSE /\ lock' = c
            /\ pc' = [pc EXCEPT ![c] = "fetching"]
            /\ started' = [started EXCEPT ![c] = now]
            /\ UNCHANGED given
    /\ UNCHANGED <<now, cache, history>>

Leave(c) ==
    /\ pc[c] = "fetching"
    /\ pc' = [pc EXCEPT ![c] = "idle"]
    /\ lock' = None

FetchOk(c) ==
    /\ Leave(c)
    /\ config' = now /\ fetchedAt' = started[c] /\ failedAt' = None
    /\ Give(c, [doc |-> now])
    /\ outcome' = "ok" /\ attempt' = started[c]
    /\ UNCHANGED <<now, started, failure>>

(* An empty JSON answer is no error, and counts as no document. *)
FetchEmpty(c) ==
    /\ Leave(c)
    /\ config' = None /\ fetchedAt' = started[c] /\ failedAt' = None
    /\ Give(c, [error |-> "empty"])
    /\ outcome' = "empty" /\ attempt' = started[c]
    /\ UNCHANGED <<now, started, failure>>

FetchFails(c) ==
    /\ Leave(c)
    /\ failedAt' = now
    /\ Give(c, AtHand)
    /\ outcome' = "failed" /\ attempt' = started[c] /\ failure' = now
    /\ UNCHANGED <<now, config, fetchedAt, started>>

(* The client of the request is gone, or an exception nobody expects: the  *)
(* lock is released, and nothing remembered.                               *)
Cancel(c) ==
    /\ pc[c] # "idle"
    /\ pc' = [pc EXCEPT ![c] = "idle"]
    /\ lock' = IF lock = c THEN None ELSE lock
    /\ UNCHANGED <<now, cache, started, given, history>>

Tick ==
    /\ now < MaxTime
    /\ now' = now + 1
    /\ UNCHANGED <<cache, lock, pc, started, given, history>>

Finish(c) == FetchOk(c) \/ FetchEmpty(c) \/ FetchFails(c) \/ Cancel(c)

Init ==
    /\ now = 0
    /\ config = None /\ fetchedAt = None /\ failedAt = None
    /\ lock = None
    /\ pc = [c \in Callers |-> "idle"]
    /\ started = [c \in Callers |-> 0]
    /\ given = [c \in Callers |-> None]
    /\ outcome = "none" /\ attempt = 0 /\ failure = None

Next ==
    \/ \E c \in Callers : Ask(c) \/ Acquire(c) \/ Finish(c)
    \/ Tick

Spec == Init /\ [][Next]_vars

----------------------------------------------------------------------------
(* Coroutines that waited for one request do not repeat it: after a        *)
(* document was fetched none is asked for until it is CacheTTL old, counted *)
(* from the beginning of its request, and after a failure the identity     *)
(* provider is left alone for NegativeTTL; one request at a time.          *)
FetchesSpaced ==
    [][\A c \in Callers : pc[c] # "fetching" /\ pc'[c] = "fetching" =>
          /\ \A d \in Callers : pc[d] # "fetching"
          /\ outcome = "ok" => now >= attempt + CacheTTL
          /\ outcome = "failed" => now >= failure + NegativeTTL]_vars

(* "stale beats unavailable": a document that was answered CacheTTL ago or *)
(* longer is handed out only while a failure is at most NegativeTTL old,   *)
(* and an error only when there is no document at all.                     *)
AnswersJustified ==
    [][\A c \in Callers : given'[c] # given[c] =>
          /\ "doc" \in DOMAIN given'[c] =>
                \/ now < given'[c].doc + CacheTTL
                \/ failure' # None /\ now < failure' + NegativeTTL
          /\ given'[c] = [error |-> "unavailable"] => config' = None]_vars
=============================================================================
