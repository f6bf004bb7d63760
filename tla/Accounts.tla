------------------------------ MODULE Accounts ------------------------------
(***************************************************************************)
(* Accounts, their application roles and their sessions.                   *)
(*                                                                         *)
(* A session is a signed token that carries the id and the role of its     *)
(* account and the account's revocation counter (tv); it is valid while    *)
(* the row exists and the counters agree.  Administrators change roles and *)
(* delete accounts, users log out, the identity provider decides a role    *)
(* at every sign-in, and the break-glass login restores the superadmin.    *)
(* Each is a request of its own made of several statements and commits, so *)
(* what one read may be stale when it writes; one action below is one      *)
(* statement, or one statement with the checks on its result.              *)
(*                                                                         *)
(* A worker is a request thread or, for a sign-in, the flow from the       *)
(* callback to the exchange of its login code.  Tokens also expire after   *)
(* an hour: here they never do, so nothing relies on it.                   *)
(*                                                                         *)
(* User names are unique.  All that is kept of one is whether it is        *)
(* SUPERADMIN_USER: the break-glass login goes by that name, and nothing   *)
(* keeps a first sign-in from taking it while no account has it.           *)
(***************************************************************************)
EXTENDS Naturals, FiniteSets

CONSTANTS
    Ids,          \* ids uuid4 can draw for accounts, each drawn once
    Subs, Local,  \* OIDC subjects; who the break-glass login makes a row for
    Existing,     \* the tables there may be at the start, everybody signed in
    PatchRoles,   \* roles an administrator may ask for
    IdpRoles,     \* what the groups of a subject may map to ("none": refused)
    Workers,
    MaxRequests,  \* bound: requests ever accepted
    None

AppRole == {"superadmin", "admin", "manager", "user"}
Identity == Subs \union {Local}
UserName == {"superadmin_user", "other"}
Row == [who : Identity, name : UserName, role : AppRole, tv : Nat]

(* Unique columns: oidc_sub and username. *)
Clash(row, other) ==
    row.who = other.who \/ (row.name = "superadmin_user" /\ other.name = "superadmin_user")

ASSUME AccountsAssumption ==
    /\ Existing \subseteq [Ids -> Row \union {None}]
    /\ \A table \in Existing : \A i, j \in Ids :
           table[i] # None /\ table[j] # None /\ Clash(table[i], table[j]) => i = j
    /\ \A table \in Existing : \A i \in Ids :
           table[i] # None /\ table[i].who = Local => table[i].name = "superadmin_user"
    /\ PatchRoles \subseteq AppRole
    /\ IdpRoles \subseteq {"admin", "manager", "user", "none"}
    /\ MaxRequests \in Nat
    /\ Local \notin Subs
    /\ None \notin Row \union Ids \union Identity

VARIABLES
    users,        \* id -> row of users or None
    used,         \* ids drawn so far
    tokens,       \* session tokens handed out
    pc, job,      \* requests
    requests,     \* number of requests accepted
    revoked,      \* history: tokens there were when their account's were revoked
    unrevoked     \* history: accounts whose role changed and whose sessions were
                  \* not revoked since: the revocation was lost, or it was restored

vars == <<users, used, tokens, pc, job, requests, revoked, unrevoked>>

----------------------------------------------------------------------------
Token == [sub : Ids, role : AppRole, tv : Nat]

Job == [actor : Ids \union {None}, actorRole : AppRole \union {"none"},
        target : Ids \union {None}, row : Row \union {None},
        role : AppRole \union {"none"}, who : Identity \union {None}]

NoJob == [actor |-> None, actorRole |-> "none", target |-> None, row |-> None,
          role |-> "none", who |-> None]

AdminPc  == {"patchLoad", "patchCount", "patchWrite", "patchRevoke",
             "deleteLoad", "deleteCount", "deleteWrite"}
SignInPc == {"signInUpdate", "signInInsert", "signInRetry", "signInCode", "code", "mint"}
LocalPc  == {"localInsert", "localRestore", "localRefresh", "localMint"}
Pc == {"idle", "revoke"} \union AdminPc \union SignInPc \union LocalPc

TypeOK ==
    /\ users \in [Ids -> Row \union {None}]
    /\ used \subseteq Ids
    /\ tokens \subseteq Token
    /\ pc \in [Workers -> Pc]
    /\ job \in [Workers -> Job]
    /\ requests \in 0..MaxRequests
    /\ revoked \subseteq Token
    /\ unrevoked \subseteq Ids

----------------------------------------------------------------------------
Exists(id) == users[id] # None

(* get_current_user: the account is there and the counters agree. *)
Valid(t) == Exists(t.sub) /\ users[t.sub].tv = t.tv

Superadmins == {id \in Ids : Exists(id) /\ users[id].role = "superadmin"}

Known(who) == \E id \in Ids : Exists(id) /\ users[id].who = who

BreakGlass(id) == Exists(id) /\ users[id].name = "superadmin_user"

(* issue_user_token from a row as it was read. *)
TokenOf(id, row) == [sub |-> id, role |-> row.role, tv |-> row.tv]

Goto(w, to) == pc' = [pc EXCEPT ![w] = to]

(* The request ends, with whatever answer. *)
Respond(w) ==
    /\ Goto(w, "idle")
    /\ job' = [job EXCEPT ![w] = NoJob]

Accept(w, j, to) ==
    /\ pc[w] = "idle"
    /\ requests < MaxRequests
    /\ requests' = requests + 1
    /\ job' = [job EXCEPT ![w] = j]
    /\ Goto(w, to)

(* Mutant: the counter is computed from the row as it was loaded. *)
RevokeFromLoaded(w) ==
    LET id == job[w].target
    IN  IF Exists(id)
        THEN /\ users' = [users EXCEPT ![id].tv =
                            IF job[w].row = None THEN @ + 1 ELSE job[w].row.tv + 1]
             /\ revoked' = revoked \union {t \in tokens : t.sub = id}
             /\ unrevoked' = unrevoked \ {id}
        ELSE UNCHANGED <<users, revoked, unrevoked>>

(* revoke_sessions: the increment is computed by the database, and touches *)
(* no row when the account is gone.                                        *)
RevokeAll(w) ==
    LET id == job[w].target
    IN  IF Exists(id)
        THEN /\ users' = [users EXCEPT ![id].tv = @ + 1]
             /\ revoked' = revoked \union {t \in tokens : t.sub = id}
             /\ unrevoked' = unrevoked \ {id}
        ELSE UNCHANGED <<users, revoked, unrevoked>>

----------------------------------------------------------------------------
(* PATCH /admin/users/{id}/role and DELETE /admin/users/{id}.              *)

IsAdmin(t) == Valid(t) /\ users[t.sub].role \in {"admin", "superadmin"}

(* The session's identity map keeps the caller's own row as first read.    *)
AdminJob(t, id, r) ==
    [actor |-> t.sub, actorRole |-> users[t.sub].role, target |-> id,
     row |-> IF id = t.sub THEN users[id] ELSE None, role |-> r, who |-> None]

PatchStart(w, t, id, r) ==
    /\ IsAdmin(t)
    /\ r = "superadmin" => users[t.sub].role = "superadmin"
    /\ Accept(w, AdminJob(t, id, r), "patchLoad")
    /\ UNCHANGED <<users, used, tokens, revoked, unrevoked>>

DeleteStart(w, t, id) ==
    /\ IsAdmin(t)
    /\ Accept(w, AdminJob(t, id, "none"), "deleteLoad")
    /\ UNCHANGED <<users, used, tokens, revoked, unrevoked>>

(* The target is read and guarded: a superadmin that is not to stay one    *)
(* needs a superadmin to ask, and another one to remain.                   *)
Load(w, count, write) ==
    LET j   == job[w]
        row == IF j.target = j.actor THEN j.row ELSE users[j.target]
    IN  \/ row = None /\ Respond(w)
        \/ /\ row # None /\ (row.role # "superadmin" \/ j.role = "superadmin")
           /\ job' = [job EXCEPT ![w].row = row]
           /\ Goto(w, write)
        \/ /\ row # None /\ row.role = "superadmin" /\ j.role # "superadmin"
           /\ \/ j.actorRole # "superadmin" /\ Respond(w)
              \/ /\ j.actorRole = "superadmin"
                 /\ job' = [job EXCEPT ![w].row = row]
                 /\ Goto(w, count)

PatchLoad(w) ==
    /\ pc[w] = "patchLoad"
    /\ Load(w, "patchCount", "patchWrite")
    /\ UNCHANGED <<users, used, tokens, requests, revoked, unrevoked>>

DeleteLoad(w) ==
    /\ pc[w] = "deleteLoad"
    /\ Load(w, "deleteCount", "deleteWrite")
    /\ UNCHANGED <<users, used, tokens, requests, revoked, unrevoked>>

Count(w) ==
    /\ pc[w] \in {"patchCount", "deleteCount"}
    /\ \/ Cardinality(Superadmins) <= 1 /\ Respond(w)
       \/ /\ Cardinality(Superadmins) > 1
          /\ Goto(w, IF pc[w] = "patchCount" THEN "patchWrite" ELSE "deleteWrite")
          /\ UNCHANGED job
    /\ UNCHANGED <<users, used, tokens, requests, revoked, unrevoked>>

(* The role is written and committed.  The ORM writes nothing when it is   *)
(* the role it loaded, and fails when the row to update is gone.           *)
PatchWrite(w) ==
    /\ pc[w] = "patchWrite"
    /\ LET id == job[w].target
       IN  \/ /\ job[w].row.role = job[w].role
              /\ Goto(w, "patchRevoke") /\ UNCHANGED <<users, job>>
           \/ /\ job[w].row.role # job[w].role /\ Exists(id)
              /\ users' = [users EXCEPT ![id].role = job[w].role]
              /\ Goto(w, "patchRevoke") /\ UNCHANGED job
           \/ /\ job[w].row.role # job[w].role /\ ~Exists(id)
              /\ Respond(w) /\ UNCHANGED users
    /\ UNCHANGED <<used, tokens, requests, revoked, unrevoked>>

(* The sessions are revoked in a commit of its own.  The caller's expired  *)
(* row is read again for the log entry before: an error when it is gone.   *)
PatchRevoke(w) ==
    /\ pc[w] = "patchRevoke"
    /\ \/ Exists(job[w].actor) /\ RevokeAll(w)
       \/ /\ ~Exists(job[w].actor)
          /\ unrevoked' = unrevoked \union {job[w].target}
          /\ UNCHANGED <<users, revoked>>
    /\ Respond(w)
    /\ UNCHANGED <<used, tokens, requests>>

DeleteWrite(w) ==
    /\ pc[w] = "deleteWrite"
    /\ users' = [users EXCEPT ![job[w].target] = None]
    /\ Respond(w)
    /\ UNCHANGED <<used, tokens, requests, revoked, unrevoked>>

----------------------------------------------------------------------------
(* POST /auth/logout with a valid token; with any other it does nothing.   *)

Logout(w, t) ==
    /\ Valid(t)
    /\ Accept(w, [NoJob EXCEPT !.target = t.sub, !.row = users[t.sub]], "revoke")
    /\ UNCHANGED <<users, used, tokens, revoked, unrevoked>>

Revoke(w) ==
    /\ pc[w] = "revoke"
    /\ RevokeAll(w)
    /\ Respond(w)
    /\ UNCHANGED <<used, tokens, requests>>

----------------------------------------------------------------------------
(* Sign-in: GET /auth/callback, then POST /auth/exchange.                  *)

SignInJob(s, id, r) ==
    [NoJob EXCEPT !.who = s, !.target = id, !.row = users[id], !.role = r]

(* The subject's row is looked up.  A subject in no permitted group is     *)
(* refused, and loses the sessions it has.                                 *)
SignIn(w, s, r) ==
    /\ \/ \E id \in Ids :
              /\ Exists(id) /\ users[id].who = s
              /\ Accept(w, SignInJob(s, id, r), IF r = "none" THEN "revoke" ELSE "signInUpdate")
       \/ /\ ~Known(s) /\ r # "none"
          /\ Accept(w, [NoJob EXCEPT !.who = s, !.role = r], "signInInsert")
    /\ UNCHANGED <<users, used, tokens, revoked, unrevoked>>

(* Mutant: a role changed at sign-in leaves the sessions alone. *)
SignInUpdateKeepsSessions(w) ==
    /\ pc[w] = "signInUpdate"
    /\ LET id == job[w].target
       IN  \/ /\ Exists(id)
              /\ users' = [users EXCEPT ![id].role = job[w].role]
              /\ Goto(w, "signInCode")
              /\ UNCHANGED <<job, revoked, unrevoked>>
           \/ /\ ~Exists(id)
              /\ Respond(w) /\ UNCHANGED <<users, revoked, unrevoked>>
    /\ UNCHANGED <<used, tokens, requests>>

(* _update_existing: role and counter in one commit; nothing to write when *)
(* the loaded role is the one the groups map to.                           *)
SignInUpdate(w) ==
    /\ pc[w] = "signInUpdate"
    /\ LET id == job[w].target
       IN  \/ /\ Exists(id) /\ job[w].row.role # job[w].role
              /\ users' = [users EXCEPT ![id].role = job[w].role, ![id].tv = @ + 1]
              /\ revoked' = revoked \union {t \in tokens : t.sub = id}
              /\ unrevoked' = unrevoked \ {id}
              /\ Goto(w, "signInCode") /\ UNCHANGED job
           \/ /\ Exists(id) /\ job[w].row.role = job[w].role
              /\ Goto(w, "signInCode") /\ UNCHANGED <<users, job, revoked, unrevoked>>
           \/ /\ ~Exists(id)
              /\ Respond(w) /\ UNCHANGED <<users, revoked, unrevoked>>
    /\ UNCHANGED <<used, tokens, requests>>

InsertAs(w, id, name) ==
    /\ id \notin used
    /\ users' = [users EXCEPT ![id] = [who |-> job[w].who, name |-> name,
                                       role |-> job[w].role, tv |-> 0]]
    /\ used' = used \union {id}
    /\ job' = [job EXCEPT ![w].target = id]

(* _unique_username: any name nobody has. *)
Free(name) == name = "superadmin_user" => \A id \in Ids : ~BreakGlass(id)

(* Mutant: oidc_sub is not unique, the look-up alone decides. *)
SignInInsertAnyway(w) ==
    /\ pc[w] = "signInInsert"
    /\ \E id \in Ids, name \in UserName : Free(name) /\ InsertAs(w, id, name)
    /\ Goto(w, "signInCode")
    /\ UNCHANGED <<tokens, requests, revoked, unrevoked>>

(* The first login of a subject.  By now its oidc_sub, the user name found *)
(* free or the e-mail may be another row's: the insert fails.              *)
SignInInsert(w) ==
    /\ pc[w] = "signInInsert"
    /\ \/ /\ ~Known(job[w].who)
          /\ \E id \in Ids, name \in UserName : Free(name) /\ InsertAs(w, id, name)
          /\ Goto(w, "signInCode")
       \/ /\ Goto(w, "signInRetry")
          /\ UNCHANGED <<users, used, job>>
    /\ UNCHANGED <<tokens, requests, revoked, unrevoked>>

(* The winner's row is used.  When it is gone again: another attempt, or   *)
(* 409 after the third or when another account holds the e-mail.           *)
SignInRetry(w) ==
    /\ pc[w] = "signInRetry"
    /\ LET j == job[w]
       IN  \/ \E id \in Ids :
                  /\ Exists(id) /\ users[id].who = j.who
                  /\ job' = [job EXCEPT ![w] = SignInJob(j.who, id, j.role)]
                  /\ Goto(w, "signInUpdate")
           \/ ~Known(j.who) /\ Goto(w, "signInInsert") /\ UNCHANGED job
           \/ ~Known(j.who) /\ Respond(w)
    /\ UNCHANGED <<users, used, tokens, requests, revoked, unrevoked>>

(* _sign_in stores the login code; its foreign key needs the account.      *)
SignInCode(w) ==
    /\ pc[w] = "signInCode"
    /\ \/ Exists(job[w].target) /\ Goto(w, "code") /\ UNCHANGED job
       \/ ~Exists(job[w].target) /\ Respond(w)
    /\ UNCHANGED <<users, used, tokens, requests, revoked, unrevoked>>

(* The SPA exchanges the code: it is consumed and the account read.  The   *)
(* code went with the account when that was deleted.                       *)
Exchange(w) ==
    /\ pc[w] = "code"
    /\ \/ /\ Exists(job[w].target)
          /\ job' = [job EXCEPT ![w].row = users[job[w].target]]
          /\ Goto(w, "mint")
       \/ ~Exists(job[w].target) /\ Respond(w)
    /\ UNCHANGED <<users, used, tokens, requests, revoked, unrevoked>>

(* Nobody exchanges the code within its minute. *)
CodeExpires(w) ==
    /\ pc[w] = "code"
    /\ Respond(w)
    /\ UNCHANGED <<users, used, tokens, requests, revoked, unrevoked>>

(* issue_user_token, from the row as it was read. *)
Mint(w) ==
    /\ pc[w] \in {"mint", "localMint"}
    /\ tokens' = tokens \union {TokenOf(job[w].target, job[w].row)}
    /\ Respond(w)
    /\ UNCHANGED <<users, used, requests, revoked, unrevoked>>

----------------------------------------------------------------------------
(* POST /auth/superadmin-login with the configured credentials.  The       *)
(* handler runs on the event loop and never awaits: one at a time.  It     *)
(* looks for the user name, whosever account has it.                       *)

LocalLookup(w) ==
    /\ \A v \in Workers : pc[v] \notin LocalPc
    /\ \/ \E id \in Ids :
              /\ BreakGlass(id)
              /\ Accept(w, SignInJob(Local, id, "superadmin"),
                        IF users[id].role = "superadmin" THEN "localMint" ELSE "localRestore")
       \/ /\ \A id \in Ids : ~BreakGlass(id)
          /\ Accept(w, [NoJob EXCEPT !.who = Local, !.role = "superadmin"], "localInsert")
    /\ UNCHANGED <<users, used, tokens, revoked, unrevoked>>

(* The insert fails when a sign-in took the name or holds the e-mail.      *)
LocalInsert(w) ==
    /\ pc[w] = "localInsert"
    /\ \/ /\ Free("superadmin_user")
          /\ \E id \in Ids : InsertAs(w, id, "superadmin_user")
          /\ Goto(w, "localRefresh")
       \/ Respond(w) /\ UNCHANGED <<users, used>>
    /\ UNCHANGED <<tokens, requests, revoked, unrevoked>>

(* The role is written; the sessions the account has are left alone.       *)
LocalRestore(w) ==
    /\ pc[w] = "localRestore"
    /\ \/ /\ Exists(job[w].target)
          /\ users' = [users EXCEPT ![job[w].target].role = "superadmin"]
          /\ unrevoked' = unrevoked \union {job[w].target}
          /\ Goto(w, "localRefresh") /\ UNCHANGED job
       \/ /\ ~Exists(job[w].target)
          /\ Respond(w) /\ UNCHANGED <<users, unrevoked>>
    /\ UNCHANGED <<used, tokens, requests, revoked>>

LocalRefresh(w) ==
    /\ pc[w] = "localRefresh"
    /\ \/ /\ Exists(job[w].target)
          /\ job' = [job EXCEPT ![w].row = users[job[w].target]]
          /\ Goto(w, "localMint")
       \/ ~Exists(job[w].target) /\ Respond(w)
    /\ UNCHANGED <<users, used, tokens, requests, revoked, unrevoked>>

(* The backend restarts; login codes are in the database and stay.         *)
Crash ==
    /\ pc' = [w \in Workers |-> IF pc[w] = "code" THEN "code" ELSE "idle"]
    /\ job' = [w \in Workers |-> IF pc[w] = "code" THEN job[w] ELSE NoJob]
    /\ unrevoked' = unrevoked \union
           {id \in Ids : \E w \in Workers : pc[w] = "patchRevoke" /\ job[w].target = id}
    /\ UNCHANGED <<users, used, tokens, requests, revoked>>

----------------------------------------------------------------------------
Init ==
    /\ users \in Existing
    /\ used = {id \in Ids : users[id] # None}
    /\ tokens = {TokenOf(id, users[id]) : id \in used}
    /\ pc = [w \in Workers |-> "idle"]
    /\ job = [w \in Workers |-> NoJob]
    /\ requests = 0
    /\ revoked = {}
    /\ unrevoked = {}

Start(w) ==
    \/ \E t \in tokens, id \in Ids :
           DeleteStart(w, t, id) \/ \E r \in PatchRoles : PatchStart(w, t, id, r)
    \/ \E t \in tokens : Logout(w, t)
    \/ \E s \in Subs, r \in IdpRoles : SignIn(w, s, r)
    \/ LocalLookup(w)

Step(w) ==
    \/ PatchLoad(w) \/ DeleteLoad(w) \/ Count(w) \/ PatchWrite(w) \/ PatchRevoke(w)
    \/ DeleteWrite(w) \/ Revoke(w)
    \/ SignInUpdate(w) \/ SignInInsert(w) \/ SignInRetry(w) \/ SignInCode(w)
    \/ Exchange(w) \/ CodeExpires(w) \/ Mint(w)
    \/ LocalInsert(w) \/ LocalRestore(w) \/ LocalRefresh(w)

Next == (\E w \in Workers : Start(w) \/ Step(w)) \/ Crash

Spec == Init /\ [][Next]_vars

----------------------------------------------------------------------------
(* A token that existed when the sessions of its account were revoked - by *)
(* logout, a role change or a refused sign-in - never becomes valid again, *)
(* although rows are read, sessions revoked and tokens minted in separate  *)
(* steps of concurrent requests (F-007).                                   *)
RevokedStayRevoked == \A t \in revoked : ~Valid(t)

PendingRevocation(id) == \E w \in Workers : pc[w] = "patchRevoke" /\ job[w].target = id

(* No session outlives a role change: a valid token carries its account's  *)
(* present role, except between the two commits of set_user_role, and      *)
(* until the next revocation when the second of them never ran or when the *)
(* break-glass login restored the role, of its own row or of the account   *)
(* that had taken its user name.                                           *)
SessionsCarryTheRole ==
    \A t \in tokens :
        /\ Valid(t)
        /\ ~PendingRevocation(t.sub) /\ t.sub \notin unrevoked
        => t.role = users[t.sub].role

(* Concurrent first logins of one subject end up in one account, and so do *)
(* break-glass logins: a sign-in that takes the user name between their    *)
(* look-up and their insert leaves no second account of that name.         *)
OneAccountPerIdentity ==
    \A i, j \in Ids : Exists(i) /\ Exists(j) /\ Clash(users[i], users[j]) => i = j

----------------------------------------------------------------------------
(* What documents and comments say, and the code does not do.              *)

(* specs/006, US3.2: "The last superadmin cannot be demoted or deleted,    *)
(* not even by itself."  Two requests may both count two superadmins.      *)
LastSuperadminProtected ==
    [][\A w \in Workers :
          (PatchWrite(w) \/ DeleteWrite(w)) /\ Superadmins # {} => Superadmins' # {}]_vars
=============================================================================
