--------------------------- MODULE AccountsProofs ---------------------------
(***************************************************************************)
(* For any accounts, subjects, requests and workers: Accounts keeps its    *)
(* types, one account per identity, revoked sessions revoked, and valid    *)
(* sessions in the role of their account.                                  *)
(***************************************************************************)
EXTENDS Accounts, TLAPS

(* What the program counter of a worker says about its job. *)
JobShape ==
    \A w \in Workers :
        /\ pc[w] \in AdminPc => job[w].target \in Ids /\ job[w].actor \in Ids
        /\ pc[w] \in {"patchLoad", "patchCount", "patchWrite", "signInUpdate",
                      "signInInsert", "signInRetry", "localInsert"} => job[w].role \in AppRole
        /\ pc[w] \in {"revoke", "signInUpdate", "signInCode", "code", "mint", "localMint",
                      "localRestore", "localRefresh"} => job[w].target \in Ids
        /\ pc[w] \in {"patchWrite", "patchCount", "signInUpdate", "mint", "localMint"} =>
               job[w].row \in Row
        /\ pc[w] \in {"signInUpdate", "signInInsert", "signInRetry"} => job[w].who \in Subs
        /\ pc[w] = "localInsert" => job[w].who = Local

TypeInv == TypeOK /\ JobShape

(* The rows the break-glass login made have its name.                      *)
Identities ==
    /\ \A id \in Ids : Exists(id) => id \in used
    /\ OneAccountPerIdentity
    /\ \A id \in Ids : Exists(id) /\ users[id].who = Local => BreakGlass(id)

(* Counters only grow: what was read earlier is not ahead of the row. *)
Minting(w) == pc[w] \in {"mint", "localMint"}

Counters ==
    /\ \A t \in tokens : t.sub \in used /\ (Exists(t.sub) => t.tv <= users[t.sub].tv)
    /\ \A w \in Workers : Minting(w) =>
           /\ job[w].target \in used
           /\ Exists(job[w].target) => job[w].row.tv <= users[job[w].target].tv
    /\ \A t \in revoked : t.sub \in used /\ (Exists(t.sub) => t.tv < users[t.sub].tv)

Settled(id) ==
    Exists(id) /\ ~PendingRevocation(id) /\ id \notin unrevoked

(* A row read for a token still to be minted is as good as a token. *)
Roles ==
    /\ SessionsCarryTheRole
    /\ \A w \in Workers : Minting(w) /\ Settled(job[w].target)
                          /\ job[w].row.tv = users[job[w].target].tv
           => job[w].row.role = users[job[w].target].role

IInv == Identities /\ Counters /\ Roles

----------------------------------------------------------------------------
USE AccountsAssumption

LEMMA NoneIsNoRow == None \notin Row /\ None \notin Ids /\ None \notin Subs /\ None # Local
BY DEF Identity

LEMMA TypeInit == Init => TypeInv
<1> SUFFICES ASSUME Init PROVE TypeInv
  OBVIOUS
<1>1. tokens \subseteq Token
  BY DEF Init, TokenOf, Token, Row
<1> QED
  BY <1>1 DEF Init, TypeInv, TypeOK, JobShape, NoJob, Job, Pc, AdminPc

LEMMA RespondTypes ==
    ASSUME TypeInv, NEW w \in Workers, Respond(w)
    PROVE  pc' \in [Workers -> Pc] /\ job' \in [Workers -> Job] /\ JobShape'
BY DEF Respond, Goto, TypeInv, TypeOK, JobShape, NoJob, Job, Pc, AdminPc

LEMMA RevokeTypes ==
    ASSUME TypeInv, NEW w \in Workers, job[w].target \in Ids, RevokeAll(w)
    PROVE  /\ users' \in [Ids -> Row \union {None}]
           /\ revoked' \subseteq Token /\ unrevoked' \subseteq Ids
<1>1. CASE Exists(job[w].target)
  <2>1. users[job[w].target] \in Row
    BY <1>1 DEF TypeInv, TypeOK, Exists
  <2> QED
    BY <1>1, <2>1 DEF RevokeAll, TypeInv, TypeOK, Row
<1> QED
  BY <1>1 DEF RevokeAll, TypeInv, TypeOK

LEMMA AcceptTypes ==
    ASSUME TypeInv, NEW w \in Workers, NEW j \in Job, NEW to \in Pc, Accept(w, j, to),
           to \in {"patchLoad", "deleteLoad"} => j.target \in Ids /\ j.actor \in Ids,
           to \in {"patchLoad", "signInUpdate", "signInInsert", "localInsert"} =>
               j.role \in AppRole,
           to \in {"revoke", "signInUpdate", "localMint", "localRestore"} => j.target \in Ids,
           to \in {"signInUpdate", "localMint"} => j.row \in Row,
           to \in {"signInUpdate", "signInInsert"} => j.who \in Subs,
           to = "localInsert" => j.who = Local,
           to \in {"patchLoad", "deleteLoad", "revoke", "signInUpdate", "signInInsert",
                   "localMint", "localRestore", "localInsert"}
    PROVE  pc' \in [Workers -> Pc] /\ job' \in [Workers -> Job] /\ JobShape'
           /\ requests' \in 0..MaxRequests
BY DEF Accept, Goto, TypeInv, TypeOK, JobShape, AdminPc

LEMMA TypeStart ==
    ASSUME TypeInv, NEW w \in Workers, Start(w)
    PROVE  TypeInv'
<1> USE DEF TypeInv, TypeOK
<1>1. ASSUME NEW t \in tokens, NEW id \in Ids, NEW r \in PatchRoles, PatchStart(w, t, id, r)
      PROVE  TypeInv'
  <2>1. AdminJob(t, id, r) \in Job /\ r \in AppRole /\ t.sub \in Ids
    BY <1>1 DEF PatchStart, IsAdmin, Valid, Exists, AdminJob, Job, Token, Row, AppRole
  <2> QED
    BY <1>1, <2>1, AcceptTypes DEF PatchStart, AdminJob, Pc, AdminPc
<1>2. ASSUME NEW t \in tokens, NEW id \in Ids, DeleteStart(w, t, id)
      PROVE  TypeInv'
  <2>1. AdminJob(t, id, "none") \in Job /\ t.sub \in Ids
    BY <1>2 DEF DeleteStart, IsAdmin, Valid, Exists, AdminJob, Job, Token, Row, AppRole
  <2> QED
    BY <1>2, <2>1, AcceptTypes DEF DeleteStart, AdminJob, Pc, AdminPc
<1>3. ASSUME NEW t \in tokens, Logout(w, t) PROVE TypeInv'
  <2>1. [NoJob EXCEPT !.target = t.sub, !.row = users[t.sub]] \in Job /\ t.sub \in Ids
    BY <1>3 DEF NoJob, Job, Token
  <2> QED
    BY <1>3, <2>1, AcceptTypes DEF Logout, Pc, NoJob
<1>4. ASSUME NEW s \in Subs, NEW r \in IdpRoles, SignIn(w, s, r) PROVE TypeInv'
  <2>1. ASSUME NEW id \in Ids, Exists(id),
               Accept(w, SignInJob(s, id, r), IF r = "none" THEN "revoke" ELSE "signInUpdate")
        PROVE  TypeInv'
    <3>1. SignInJob(s, id, r) \in Job /\ users[id] \in Row /\ (r = "none" \/ r \in AppRole)
      BY <2>1 DEF Exists, SignInJob, NoJob, Job, AppRole, Identity
    <3> QED
      BY ZenonT(40), <1>4, <2>1, <3>1, AcceptTypes DEF SignIn, SignInJob, NoJob, Pc, SignInPc
  <2>2. ASSUME r # "none", Accept(w, [NoJob EXCEPT !.who = s, !.role = r], "signInInsert")
        PROVE  TypeInv'
    <3>1. [NoJob EXCEPT !.who = s, !.role = r] \in Job /\ r \in AppRole
      BY <2>2 DEF NoJob, Job, AppRole, Identity
    <3> QED
      BY <1>4, <2>2, <3>1, AcceptTypes DEF SignIn, NoJob, Pc, SignInPc
  <2> QED
    BY <1>4, <2>1, <2>2 DEF SignIn
<1>5. ASSUME LocalLookup(w) PROVE TypeInv'
  <2>1. ASSUME NEW id \in Ids, Exists(id),
               Accept(w, SignInJob(Local, id, "superadmin"),
                      IF users[id].role = "superadmin" THEN "localMint" ELSE "localRestore")
        PROVE  TypeInv'
    <3>1. SignInJob(Local, id, "superadmin") \in Job /\ users[id] \in Row
      BY <2>1 DEF Exists, SignInJob, NoJob, Job, AppRole, Identity
    <3> QED
      BY ZenonT(40), <1>5, <2>1, <3>1, AcceptTypes DEF LocalLookup, SignInJob, NoJob, Pc, LocalPc
  <2>2. ASSUME Accept(w, [NoJob EXCEPT !.who = Local, !.role = "superadmin"], "localInsert")
        PROVE  TypeInv'
    <3>1. [NoJob EXCEPT !.who = Local, !.role = "superadmin"] \in Job
      BY DEF NoJob, Job, AppRole, Identity
    <3> QED
      BY <1>5, <2>2, <3>1, AcceptTypes DEF LocalLookup, NoJob, Pc, LocalPc, AppRole
  <2> QED
    BY <1>5, <2>1, <2>2 DEF LocalLookup, BreakGlass
<1> QED
  BY <1>1, <1>2, <1>3, <1>4, <1>5 DEF Start

LEMMA LoadTypes ==
    ASSUME TypeInv, NEW w \in Workers,
           \/ pc[w] = "patchLoad" /\ Load(w, "patchCount", "patchWrite")
           \/ pc[w] = "deleteLoad" /\ Load(w, "deleteCount", "deleteWrite")
    PROVE  pc' \in [Workers -> Pc] /\ job' \in [Workers -> Job] /\ JobShape'
<1> DEFINE row == IF job[w].target = job[w].actor THEN job[w].row ELSE users[job[w].target]
<1>1. CASE Respond(w)
  BY <1>1, RespondTypes
<1>2. CASE ~Respond(w)
  <2>1. row # None /\ job' = [job EXCEPT ![w].row = row]
    BY <1>2 DEF Load
  <2>2. job[w] \in Job /\ job[w].target \in Ids /\ row \in Row
    BY <2>1 DEF TypeInv, TypeOK, JobShape, AdminPc, Job
  <2>3. [job[w] EXCEPT !.row = row] \in Job
    BY <2>2 DEF Job
  <2>4. \/ pc[w] = "patchLoad" /\ (Goto(w, "patchCount") \/ Goto(w, "patchWrite"))
        \/ pc[w] = "deleteLoad" /\ (Goto(w, "deleteCount") \/ Goto(w, "deleteWrite"))
    BY <1>2 DEF Load
  <2>5. job' \in [Workers -> Job] /\ pc' \in [Workers -> Pc]
    BY <2>1, <2>3, <2>4 DEF Goto, TypeInv, TypeOK, Pc, AdminPc
  <2> QED
    BY <2>1, <2>2, <2>4, <2>5 DEF Goto, TypeInv, TypeOK, JobShape, AdminPc, Job
<1> QED
  BY <1>1, <1>2

LEMMA TypeStep == TypeInv /\ [Next]_vars => TypeInv'
<1> SUFFICES ASSUME TypeInv, [Next]_vars PROVE TypeInv'
  OBVIOUS
<1> USE DEF TypeInv, TypeOK, JobShape
<1>1. ASSUME NEW w \in Workers, PatchLoad(w) \/ DeleteLoad(w) PROVE TypeInv'
  BY <1>1, LoadTypes DEF PatchLoad, DeleteLoad
<1>2. ASSUME NEW w \in Workers, Count(w) PROVE TypeInv'
  BY <1>2, RespondTypes DEF Count, Goto, Pc, AdminPc
<1>3. ASSUME NEW w \in Workers, PatchWrite(w) PROVE TypeInv'
  <2>1. CASE Exists(job[w].target) /\ users' = [users EXCEPT ![job[w].target].role = job[w].role]
             /\ Goto(w, "patchRevoke") /\ UNCHANGED job
    BY <1>3, <2>1 DEF PatchWrite, Goto, Exists, Row, Pc, AdminPc
  <2>2. CASE Goto(w, "patchRevoke") /\ UNCHANGED <<users, job>>
    BY <1>3, <2>2 DEF PatchWrite, Goto, Pc, AdminPc
  <2>3. CASE Respond(w) /\ UNCHANGED users
    BY <1>3, <2>3, RespondTypes DEF PatchWrite
  <2> QED
    BY <1>3, <2>1, <2>2, <2>3 DEF PatchWrite
<1>4. ASSUME NEW w \in Workers, PatchRevoke(w) PROVE TypeInv'
  <2>1. job[w].target \in Ids
    BY <1>4 DEF PatchRevoke, AdminPc
  <2> QED
    BY <1>4, <2>1, RespondTypes, RevokeTypes DEF PatchRevoke
<1>5. ASSUME NEW w \in Workers, DeleteWrite(w) PROVE TypeInv'
  BY <1>5, RespondTypes DEF DeleteWrite
<1>6. ASSUME NEW w \in Workers, Revoke(w) PROVE TypeInv'
  BY <1>6, RespondTypes, RevokeTypes DEF Revoke
<1>7. ASSUME NEW w \in Workers, SignInUpdate(w) PROVE TypeInv'
  <2>1. CASE Exists(job[w].target) /\ job[w].row.role # job[w].role
    <3>1. users[job[w].target] \in Row /\ job[w].target \in Ids /\ job[w].role \in AppRole
      BY <1>7, <2>1 DEF SignInUpdate, Exists
    <3> QED
      BY <1>7, <2>1, <3>1 DEF SignInUpdate, Goto, Row, Pc, SignInPc, AdminPc
  <2>2. CASE Goto(w, "signInCode") /\ UNCHANGED <<users, job, revoked, unrevoked>>
    BY <1>7, <2>2 DEF SignInUpdate, Goto, Pc, SignInPc, AdminPc
  <2>3. CASE Respond(w) /\ UNCHANGED <<users, revoked, unrevoked>>
    BY <1>7, <2>3, RespondTypes DEF SignInUpdate
  <2> QED
    BY <1>7, <2>1, <2>2, <2>3 DEF SignInUpdate
<1>8. ASSUME NEW w \in Workers, SignInInsert(w) \/ LocalInsert(w) PROVE TypeInv'
  <2>1. ASSUME NEW id \in Ids, NEW name \in UserName, InsertAs(w, id, name),
               Goto(w, "signInCode") \/ Goto(w, "localRefresh")
        PROVE  TypeInv'
    <3>1. [who |-> job[w].who, name |-> name, role |-> job[w].role, tv |-> 0] \in Row
      BY <1>8 DEF SignInInsert, LocalInsert, Row, Identity
    <3>2. [job[w] EXCEPT !.target = id] \in Job
      BY DEF Job
    <3>3. users' \in [Ids -> Row \union {None}] /\ used' \subseteq Ids
          /\ job' \in [Workers -> Job] /\ job'[w].target \in Ids
      BY <2>1, <3>1, <3>2 DEF InsertAs, Job
    <3>4. pc' \in [Workers -> Pc]
      BY <2>1 DEF Goto, Pc, SignInPc, LocalPc
    <3>5. JobShape'
      BY <2>1, <3>3 DEF InsertAs, Goto, AdminPc
    <3> QED
      BY <1>8, <3>3, <3>4, <3>5 DEF SignInInsert, LocalInsert, Respond
  <2>2. CASE SignInInsert(w) /\ Goto(w, "signInRetry") /\ UNCHANGED <<users, used, job>>
    BY <2>2 DEF SignInInsert, Goto, Pc, SignInPc, AdminPc
  <2>3. CASE Respond(w) /\ UNCHANGED <<users, used>>
    BY <1>8, <2>3, RespondTypes DEF SignInInsert, LocalInsert
  <2> QED
    BY <1>8, <2>1, <2>2, <2>3 DEF SignInInsert, LocalInsert, UserName
<1>9. ASSUME NEW w \in Workers, SignInRetry(w) PROVE TypeInv'
  <2>1. ASSUME NEW id \in Ids, Exists(id), Goto(w, "signInUpdate"),
               job' = [job EXCEPT ![w] = SignInJob(job[w].who, id, job[w].role)]
        PROVE  TypeInv'
    <3>1. SignInJob(job[w].who, id, job[w].role) \in Job /\ users[id] \in Row
      BY <1>9, <2>1 DEF SignInRetry, SignInJob, NoJob, Job, Exists
    <3> QED
      BY <1>9, <2>1, <3>1 DEF SignInRetry, SignInJob, NoJob, Goto, Pc, SignInPc, AdminPc
  <2>2. CASE Goto(w, "signInInsert") /\ UNCHANGED job
    BY <1>9, <2>2 DEF SignInRetry, Goto, Pc, SignInPc, AdminPc
  <2>3. CASE Respond(w)
    BY <1>9, <2>3, RespondTypes DEF SignInRetry
  <2> QED
    BY <1>9, <2>1, <2>2, <2>3 DEF SignInRetry
<1>10. ASSUME NEW w \in Workers, SignInCode(w) \/ CodeExpires(w) PROVE TypeInv'
  BY <1>10, RespondTypes DEF SignInCode, CodeExpires, Goto, Pc, SignInPc, AdminPc
<1>11. ASSUME NEW w \in Workers, Exchange(w) \/ LocalRefresh(w) PROVE TypeInv'
  <2>1. CASE Exists(job[w].target) /\ job' = [job EXCEPT ![w].row = users[job[w].target]]
             /\ (Goto(w, "mint") \/ Goto(w, "localMint"))
    <3>1. users[job[w].target] \in Row /\ job[w].target \in Ids
      BY <1>11, <2>1 DEF Exchange, LocalRefresh, Exists
    <3>2. [job[w] EXCEPT !.row = users[job[w].target]] \in Job
      BY <3>1 DEF Job
    <3> QED
      BY <1>11, <2>1, <3>1, <3>2
         DEF Exchange, LocalRefresh, Goto, Pc, SignInPc, LocalPc, AdminPc, Job
  <2> QED
    BY <1>11, <2>1, RespondTypes DEF Exchange, LocalRefresh
<1>12. ASSUME NEW w \in Workers, Mint(w) PROVE TypeInv'
  <2>1. TokenOf(job[w].target, job[w].row) \in Token
    BY <1>12 DEF Mint, TokenOf, Token, Row
  <2> QED
    BY <1>12, <2>1, RespondTypes DEF Mint
<1>13. ASSUME NEW w \in Workers, LocalRestore(w) PROVE TypeInv'
  <2>1. CASE Exists(job[w].target)
    <3>1. users[job[w].target] \in Row
      BY <1>13, <2>1 DEF LocalRestore, Exists
    <3> QED
      BY <1>13, <2>1, <3>1 DEF LocalRestore, Goto, Row, AppRole, Pc, LocalPc, AdminPc
  <2> QED
    BY <1>13, <2>1, RespondTypes DEF LocalRestore
<1>14. CASE Crash
  BY <1>14 DEF Crash, NoJob, Job, Pc, AdminPc
<1>15. CASE UNCHANGED vars
  BY <1>15 DEF vars
<1> QED
  BY <1>1, <1>2, <1>3, <1>4, <1>5, <1>6, <1>7, <1>8, <1>9, <1>10, <1>11, <1>12, <1>13, <1>14,
     <1>15, TypeStart DEF Next, Step

(* Every variable keeps its type.                                          *)
THEOREM TypeCorrect == Spec => []TypeOK
<1>1. Spec => []TypeInv
  BY TypeInit, TypeStep, PTL DEF Spec
<1> QED
  BY <1>1, PTL DEF TypeInv
----------------------------------------------------------------------------
(* A row keeps its identity and its name, and its counter does not go      *)
(* back; a new row has a new id and clashes with no row.                   *)
Evolves ==
    /\ used \subseteq used'
    /\ \A id \in Ids : Exists(id)' =>
          \/ /\ Exists(id)
             /\ users'[id].who = users[id].who /\ users'[id].name = users[id].name
             /\ users[id].tv <= users'[id].tv
          \/ /\ id \notin used /\ id \in used'
             /\ users'[id].who = Local => users'[id].name = "superadmin_user"
             /\ \A i \in Ids \ {id} :
                   users'[i] = users[i] /\ (Exists(i) => ~Clash(users'[id], users[i]))

LEMMA RevokeEvolves ==
    ASSUME TypeInv, NEW w \in Workers, job[w].target \in Ids, RevokeAll(w), UNCHANGED used
    PROVE  /\ Evolves
           /\ \A id \in Ids : Exists(id)' =>
                  users'[id].role = users[id].role /\ users'[id].who = users[id].who
           /\ Exists(job[w].target) =>
                  users'[job[w].target].tv = users[job[w].target].tv + 1
BY DEF RevokeAll, Evolves, TypeInv, TypeOK, Exists, Row

LEMMA InsertEvolves ==
    ASSUME TypeInv, Identities, NEW w \in Workers, NEW id \in Ids, NEW name \in UserName,
           InsertAs(w, id, name), Free(name),
           \/ ~Known(job[w].who) /\ job[w].who # Local
           \/ job[w].who = Local /\ name = "superadmin_user"
    PROVE  Evolves
<1>1. users'[id] = [who |-> job[w].who, name |-> name, role |-> job[w].role, tv |-> 0]
  BY DEF InsertAs, TypeInv, TypeOK
<1>2. \A i \in Ids \ {id} : users'[i] = users[i]
  BY DEF InsertAs, TypeInv, TypeOK
<1>3. \A i \in Ids : Exists(i) => users[i].tv <= users[i].tv
  BY DEF Exists, TypeInv, TypeOK, Row
<1>4. ASSUME NEW i \in Ids, Exists(i) PROVE ~Clash(users'[id], users[i])
  <2>1. name # "superadmin_user" \/ users[i].name # "superadmin_user"
    BY <1>4 DEF Free, BreakGlass
  <2>2. job[w].who # users[i].who
    BY <1>4, <2>1 DEF Known, Identities, BreakGlass
  <2> QED
    BY <1>1, <2>1, <2>2 DEF Clash
<1>5. users'[id].who = Local => users'[id].name = "superadmin_user"
  BY <1>1
<1> QED
  BY <1>1, <1>2, <1>3, <1>4, <1>5 DEF InsertAs, Evolves, Exists

LEMMA RowsStep ==
    ASSUME TypeInv, Identities, [Next]_vars
    PROVE  Evolves
<1>0. UNCHANGED <<users, used>> => Evolves
  BY DEF Evolves, TypeInv, TypeOK, Exists, Row
<1>1. ASSUME NEW w \in Workers, PatchWrite(w) \/ LocalRestore(w) PROVE Evolves
  <2>1. ASSUME Exists(job[w].target), UNCHANGED used,
               NEW r, users' = [users EXCEPT ![job[w].target].role = r]
        PROVE  Evolves
    BY <2>1 DEF Evolves, TypeInv, TypeOK, Exists, Row
  <2> QED
    BY <1>0, <1>1, <2>1 DEF PatchWrite, LocalRestore
<1>2. ASSUME NEW w \in Workers, DeleteWrite(w) PROVE Evolves
  BY <1>2 DEF DeleteWrite, Evolves, TypeInv, TypeOK, Exists, Row
<1>3. ASSUME NEW w \in Workers, PatchRevoke(w) \/ Revoke(w) PROVE Evolves
  <2>1. job[w].target \in Ids
    BY <1>3 DEF PatchRevoke, Revoke, TypeInv, JobShape, AdminPc
  <2> QED
    BY <1>0, <1>3, <2>1, RevokeEvolves DEF PatchRevoke, Revoke
<1>4. ASSUME NEW w \in Workers, SignInUpdate(w) PROVE Evolves
  <2>1. CASE Exists(job[w].target) /\ job[w].row.role # job[w].role
    BY <1>4, <2>1 DEF SignInUpdate, Evolves, TypeInv, TypeOK, Exists, Row
  <2> QED
    BY <1>0, <1>4, <2>1 DEF SignInUpdate
<1>5. ASSUME NEW w \in Workers, SignInInsert(w) PROVE Evolves
  <2>1. job[w].who # Local
    BY <1>5, NoneIsNoRow DEF SignInInsert, TypeInv, JobShape
  <2> QED
    BY <1>0, <1>5, <2>1, InsertEvolves DEF SignInInsert
<1>6. ASSUME NEW w \in Workers, LocalInsert(w) PROVE Evolves
  <2>1. job[w].who = Local
    BY <1>6 DEF LocalInsert, TypeInv, JobShape
  <2> QED
    BY <1>0, <1>6, <2>1, InsertEvolves DEF LocalInsert, UserName
<1>7. ASSUME NEW w \in Workers,
             \/ Start(w) \/ PatchLoad(w) \/ DeleteLoad(w) \/ Count(w) \/ SignInRetry(w)
             \/ SignInCode(w) \/ Exchange(w) \/ CodeExpires(w) \/ Mint(w) \/ LocalRefresh(w)
      PROVE  UNCHANGED <<users, used>>
  BY <1>7 DEF Start, PatchStart, DeleteStart, Logout, SignIn, LocalLookup, PatchLoad,
              DeleteLoad, Count, SignInRetry, SignInCode, Exchange, CodeExpires, Mint,
              LocalRefresh
<1>8. CASE Crash \/ UNCHANGED vars
  BY <1>0, <1>8 DEF Crash, vars
<1> QED
  BY <1>0, <1>1, <1>2, <1>3, <1>4, <1>5, <1>6, <1>7, <1>8 DEF Next, Step

LEMMA IdentitiesStep ==
    ASSUME TypeInv, Identities, [Next]_vars
    PROVE  Identities'
<1>0. Evolves
  BY RowsStep
<1>1. ASSUME NEW id \in Ids, Exists(id)' PROVE id \in used'
  BY <1>0, <1>1 DEF Evolves, Identities
<1>2. ASSUME NEW i \in Ids, NEW j \in Ids, Exists(i)', Exists(j)',
             Clash(users'[i], users'[j]), i # j
      PROVE  FALSE
  <2>1. CASE Exists(i) /\ Exists(j)
    <3>1. Clash(users[i], users[j])
      BY <1>0, <1>2, <2>1 DEF Evolves, Clash, Identities
    <3> QED
      BY <1>2, <2>1, <3>1 DEF Identities, OneAccountPerIdentity
  <2>2. ASSUME NEW a \in Ids, NEW b \in Ids, a # b, Exists(a)', Exists(b)', ~Exists(a),
               Clash(users'[a], users'[b])
        PROVE  FALSE
    <3>1. users'[b] = users[b] /\ (Exists(b) => ~Clash(users'[a], users[b]))
      BY <1>0, <2>2 DEF Evolves
    <3> QED
      BY <2>2, <3>1 DEF Exists
  <2> QED
    BY <1>2, <2>1, <2>2 DEF Clash
<1>3. ASSUME NEW id \in Ids, Exists(id)', users'[id].who = Local
      PROVE  users'[id].name = "superadmin_user"
  BY <1>0, <1>3 DEF Evolves, Identities, BreakGlass
<1> QED
  BY <1>1, <1>2, <1>3 DEF Identities, OneAccountPerIdentity, BreakGlass, Exists

LEMMA IdentitiesInit == Init => Identities
BY DEF Init, Identities, OneAccountPerIdentity, BreakGlass, Exists

(* One account per subject, whatever first logins race.                    *)
THEOREM IdentitiesAreUnique == Spec => []OneAccountPerIdentity
<1>1. Spec => []Identities
  BY TypeInit, TypeStep, IdentitiesInit, IdentitiesStep, PTL DEF Spec
<1> QED
  BY <1>1, PTL DEF Identities
----------------------------------------------------------------------------
LEMMA TokensStep ==
    ASSUME TypeInv, [Next]_vars, NEW t \in tokens', t \notin tokens
    PROVE  \E w \in Workers : Minting(w) /\ t = TokenOf(job[w].target, job[w].row)
<1>1. ASSUME NEW w \in Workers, Mint(w)
      PROVE  Minting(w) /\ t = TokenOf(job[w].target, job[w].row)
  BY <1>1 DEF Mint, Minting
<1>2. ASSUME NEW w \in Workers, Start(w) \/ (Step(w) /\ ~Mint(w)) PROVE UNCHANGED tokens
  BY <1>2 DEF Start, PatchStart, DeleteStart, Logout, SignIn, LocalLookup, Step, PatchLoad,
              DeleteLoad, Count, PatchWrite, PatchRevoke, DeleteWrite, Revoke, SignInUpdate,
              SignInInsert, SignInRetry, SignInCode, Exchange, CodeExpires, LocalInsert,
              LocalRestore, LocalRefresh
<1>3. CASE Crash \/ UNCHANGED vars
  BY <1>3 DEF Crash, vars
<1> QED
  BY <1>1, <1>2, <1>3 DEF Next

LEMMA RevokedStep ==
    ASSUME TypeInv, [Next]_vars, NEW t \in revoked', t \notin revoked
    PROVE  t \in tokens /\ Exists(t.sub) /\ users'[t.sub].tv = users[t.sub].tv + 1
<1> USE DEF TypeInv, TypeOK
<1>1. ASSUME NEW w \in Workers, PatchRevoke(w) \/ Revoke(w)
      PROVE  t \in tokens /\ Exists(t.sub) /\ users'[t.sub].tv = users[t.sub].tv + 1
  <2>1. RevokeAll(w) /\ Exists(job[w].target) /\ t \in tokens /\ t.sub = job[w].target
    BY <1>1 DEF PatchRevoke, Revoke, RevokeAll
  <2> QED
    BY <2>1 DEF RevokeAll, Exists, Row, Token
<1>2. ASSUME NEW w \in Workers, SignInUpdate(w)
      PROVE  t \in tokens /\ Exists(t.sub) /\ users'[t.sub].tv = users[t.sub].tv + 1
  BY SMTT(30), <1>2 DEF SignInUpdate, Exists, Row, Token
<1>3. ASSUME NEW w \in Workers,
             Start(w) \/ (Step(w) /\ ~PatchRevoke(w) /\ ~Revoke(w) /\ ~SignInUpdate(w))
      PROVE  UNCHANGED revoked
  BY <1>3 DEF Start, PatchStart, DeleteStart, Logout, SignIn, LocalLookup, Step, PatchLoad,
              DeleteLoad, Count, PatchWrite, DeleteWrite, SignInInsert, SignInRetry,
              SignInCode, Exchange, CodeExpires, Mint, LocalInsert, LocalRestore, LocalRefresh
<1>4. CASE Crash \/ UNCHANGED vars
  BY <1>4 DEF Crash, vars
<1> QED
  BY <1>1, <1>2, <1>3, <1>4 DEF Next

(* A row to mint from was just read, or is the one held before.            *)
LEMMA MintingStep ==
    ASSUME TypeInv, [Next]_vars, NEW v \in Workers, Minting(v)'
    PROVE  \/ Minting(v) /\ job'[v] = job[v]
           \/ /\ Exists(job'[v].target) /\ job'[v].target \in Ids
              /\ job'[v].row = users[job'[v].target] /\ UNCHANGED users
<1> USE DEF TypeInv, TypeOK, Minting
<1>1. ASSUME NEW w \in Workers, Exchange(w) \/ LocalRefresh(w)
      PROVE  \/ Minting(v) /\ job'[v] = job[v]
             \/ /\ Exists(job'[v].target) /\ job'[v].target \in Ids
                /\ job'[v].row = users[job'[v].target] /\ UNCHANGED users
  <2>1. CASE w # v
    BY <1>1, <2>1 DEF Exchange, LocalRefresh, Respond, Goto
  <2>2. CASE w = v
    <3>1. /\ Exists(job[v].target) /\ job[v].target \in Ids /\ UNCHANGED users
          /\ job' = [job EXCEPT ![v].row = users[job[v].target]]
      BY <1>1, <2>2 DEF Exchange, LocalRefresh, Respond, Goto, JobShape
    <3> QED
      BY <3>1 DEF Job
  <2> QED
    BY <2>1, <2>2
<1>2. ASSUME NEW w \in Workers, LocalLookup(w)
      PROVE  \/ Minting(v) /\ job'[v] = job[v]
             \/ /\ Exists(job'[v].target) /\ job'[v].target \in Ids
                /\ job'[v].row = users[job'[v].target] /\ UNCHANGED users
  <2>1. CASE w # v
    BY <1>2, <2>1 DEF LocalLookup, Accept, Goto
  <2>2. CASE w = v
    <3>1. PICK id \in Ids : Exists(id) /\ job'[v] = SignInJob(Local, id, "superadmin")
      BY <1>2, <2>2 DEF LocalLookup, BreakGlass, Accept, Goto
    <3>2. job'[v].target = id /\ job'[v].row = users[id]
      BY <3>1 DEF SignInJob, NoJob
    <3> QED
      BY <1>2, <3>1, <3>2 DEF LocalLookup
  <2> QED
    BY <2>1, <2>2
<1>3. ASSUME NEW w \in Workers, Start(w), ~LocalLookup(w)
      PROVE  Minting(v) /\ job'[v] = job[v]
  <2>1. \/ \E t \in tokens, id \in Ids, r \in PatchRoles : PatchStart(w, t, id, r)
        \/ \E t \in tokens, id \in Ids : DeleteStart(w, t, id)
        \/ \E t \in tokens : Logout(w, t)
        \/ \E s \in Subs, r \in IdpRoles : SignIn(w, s, r)
    BY <1>3 DEF Start
  <2>2. /\ \A u \in Workers \ {w} : pc'[u] = pc[u] /\ job'[u] = job[u]
        /\ pc'[w] \in {"patchLoad", "deleteLoad", "revoke", "signInUpdate", "signInInsert"}
    BY <2>1 DEF PatchStart, DeleteStart, Logout, SignIn, Accept, Goto
  <2> QED
    BY <2>2
<1>4. ASSUME NEW w \in Workers, Step(w), ~Exchange(w), ~LocalRefresh(w)
      PROVE  Minting(v) /\ job'[v] = job[v]
  BY <1>4 DEF Step, PatchLoad, DeleteLoad, Load, Count, PatchWrite, PatchRevoke, DeleteWrite,
              Revoke, SignInUpdate, SignInInsert, InsertAs, SignInRetry, SignInCode,
              CodeExpires, Mint, LocalInsert, LocalRestore, Respond, Goto
<1>5. CASE Crash \/ UNCHANGED vars
  BY <1>5 DEF Crash, vars
<1> QED
  BY <1>1, <1>2, <1>3, <1>4, <1>5 DEF Next

LEMMA CountersInit == Init => Counters
<1> SUFFICES ASSUME Init PROVE Counters
  OBVIOUS
<1>1. \A t \in tokens : \E id \in used : t.sub = id /\ t.tv = users[id].tv
  BY DEF Init, TokenOf
<1>2. \A id \in used : users[id].tv \in Nat
  BY DEF Init, Row
<1> QED
  BY <1>1, <1>2 DEF Init, Counters, Exists, Minting

LEMMA CountersStep ==
    ASSUME TypeInv, Identities, Counters, [Next]_vars
    PROVE  Counters'
<1>0. ASSUME NEW id \in used, Exists(id)'
      PROVE  /\ Exists(id) /\ id \in used' /\ users[id].tv <= users'[id].tv
             /\ users[id].tv \in Nat /\ users'[id].tv \in Nat
  BY <1>0, RowsStep, TypeStep DEF Evolves, TypeInv, TypeOK, Exists, Row
<1>00. used \subseteq used' /\ used \subseteq Ids
  BY RowsStep DEF Evolves, TypeInv, TypeOK
<1>1. ASSUME NEW t \in tokens'
      PROVE  t.sub \in used' /\ (users'[t.sub] # None => t.tv <= users'[t.sub].tv)
  <2>1. t.sub \in used /\ (Exists(t.sub) => t.tv <= users[t.sub].tv)
    <3>1. CASE t \in tokens
      BY <3>1 DEF Counters
    <3>2. CASE t \notin tokens
      BY <3>2, TokensStep DEF Counters, TokenOf
    <3> QED
      BY <3>1, <3>2
  <2>2. t.tv \in Nat
    BY TypeStep DEF TypeInv, TypeOK, Token
  <2> QED
    BY <1>0, <1>00, <2>1, <2>2 DEF Exists
<1>2. ASSUME NEW w \in Workers, Minting(w)'
      PROVE  /\ job'[w].target \in used'
             /\ users'[job'[w].target] # None => job'[w].row.tv <= users'[job'[w].target].tv
  <2>1. CASE Minting(w) /\ job'[w] = job[w]
    <3>1. job[w].row.tv \in Nat
      BY <2>1 DEF Minting, TypeInv, JobShape, Row
    <3> QED
      BY <1>0, <1>00, <2>1, <3>1 DEF Counters, Exists
  <2>2. CASE /\ Exists(job'[w].target) /\ job'[w].target \in Ids
             /\ job'[w].row = users[job'[w].target] /\ UNCHANGED users
    BY <1>00, <2>2 DEF Identities, TypeInv, TypeOK, Exists, Row
  <2> QED
    BY <1>2, <2>1, <2>2, MintingStep
<1>3. ASSUME NEW t \in revoked'
      PROVE  t.sub \in used' /\ (users'[t.sub] # None => t.tv < users'[t.sub].tv)
  <2>1. t.tv \in Nat
    BY TypeStep DEF TypeInv, TypeOK, Token
  <2>2. CASE t \in revoked
    BY <1>0, <1>00, <2>1, <2>2 DEF Counters, Exists
  <2>3. CASE t \notin revoked
    <3>1. t \in tokens /\ Exists(t.sub) /\ users'[t.sub].tv = users[t.sub].tv + 1
      BY <2>3, RevokedStep
    <3>2. t.sub \in used /\ t.tv <= users[t.sub].tv /\ users[t.sub].tv \in Nat
      BY <1>00, <3>1 DEF Counters, Exists, TypeInv, TypeOK, Row
    <3> QED
      BY <1>00, <2>1, <3>1, <3>2
  <2> QED
    BY <2>2, <2>3
<1> QED
  BY <1>1, <1>2, <1>3 DEF Counters, Exists

(* Revocation is final.                                                    *)
THEOREM RevocationIsFinal == Spec => []RevokedStayRevoked
<1>1. TypeInv /\ Counters => RevokedStayRevoked
  BY DEF Counters, RevokedStayRevoked, Valid, TypeInv, TypeOK, Token, Row, Exists
<1>2. Spec => [](TypeInv /\ Identities /\ Counters)
  BY TypeInit, TypeStep, IdentitiesInit, IdentitiesStep, CountersInit, CountersStep, PTL DEF Spec
<1> QED
  BY <1>1, <1>2, PTL
----------------------------------------------------------------------------
(* A role change announces a revocation, which ends with a higher counter  *)
(* or with the account recorded as unrevoked.                            *)
SameRow(id) == users'[id].role = users[id].role /\ users'[id].tv = users[id].tv

LEMMA PendingStep ==
    ASSUME TypeInv, [Next]_vars, NEW id \in Ids, PendingRevocation(id), ~PendingRevocation(id)'
    PROVE  Crash \/ \E w \in Workers : PatchRevoke(w) /\ job[w].target = id
<1>1. PICK w \in Workers : pc[w] = "patchRevoke" /\ job[w].target = id
  BY DEF PendingRevocation
<1>2. pc'[w] # "patchRevoke" \/ job'[w] # job[w]
  BY <1>1 DEF PendingRevocation
<1>3. ASSUME NEW v \in Workers, Start(v) PROVE pc'[w] = pc[w] /\ job'[w] = job[w]
  BY ZenonT(40), <1>1, <1>3 DEF Start, PatchStart, DeleteStart, Logout, SignIn, LocalLookup, Accept, Goto,
                    TypeInv, TypeOK
<1>4. ASSUME NEW v \in Workers, Step(v), ~(PatchRevoke(v) /\ v = w)
      PROVE  pc'[w] = pc[w] /\ job'[w] = job[w]
  BY <1>1, <1>4 DEF Step, PatchLoad, DeleteLoad, Load, Count, PatchWrite, PatchRevoke,
                    DeleteWrite, Revoke, SignInUpdate, SignInInsert, InsertAs, SignInRetry,
                    SignInCode, Exchange, CodeExpires, Mint, LocalInsert, LocalRestore,
                    LocalRefresh, Respond, Goto, TypeInv, TypeOK
<1>5. UNCHANGED vars => pc'[w] = pc[w] /\ job'[w] = job[w]
  BY DEF vars
<1> QED
  BY <1>1, <1>2, <1>3, <1>4, <1>5 DEF Next

LEMMA InterruptedStep ==
    ASSUME TypeInv, [Next]_vars, NEW id \in unrevoked, id \notin unrevoked'
    PROVE  Exists(id) /\ users'[id].tv = users[id].tv + 1
<1> USE DEF TypeInv, TypeOK
<1>1. ASSUME NEW w \in Workers, PatchRevoke(w) \/ Revoke(w)
      PROVE  Exists(id) /\ users'[id].tv = users[id].tv + 1
  <2>1. RevokeAll(w) /\ Exists(job[w].target) /\ id = job[w].target
    BY <1>1 DEF PatchRevoke, Revoke, RevokeAll
  <2> QED
    BY <2>1 DEF RevokeAll, Exists, Row
<1>2. ASSUME NEW w \in Workers, SignInUpdate(w)
      PROVE  Exists(id) /\ users'[id].tv = users[id].tv + 1
  BY <1>2 DEF SignInUpdate, Exists, Row
<1>3. ASSUME NEW w \in Workers,
             Start(w) \/ (Step(w) /\ ~PatchRevoke(w) /\ ~Revoke(w) /\ ~SignInUpdate(w))
      PROVE  UNCHANGED unrevoked
  BY <1>3 DEF Start, PatchStart, DeleteStart, Logout, SignIn, LocalLookup, Step, PatchLoad,
              DeleteLoad, Count, PatchWrite, DeleteWrite, SignInInsert, SignInRetry,
              SignInCode, Exchange, CodeExpires, Mint, LocalInsert, LocalRestore, LocalRefresh
<1>4. CASE Crash \/ UNCHANGED vars
  BY <1>4 DEF Crash, vars
<1> QED
  BY <1>1, <1>2, <1>3, <1>4 DEF Next

(* The steps that touch the role or the counter of an account.             *)
LEMMA RoleStep ==
    ASSUME TypeInv, Identities, [Next]_vars, NEW id \in used, Settled(id)'
    PROVE  SameRow(id) \/ users'[id].tv = users[id].tv + 1
<1> USE DEF TypeInv, TypeOK
<1>1. Exists(id)
  BY RowsStep DEF Evolves, Settled
<1>2. ASSUME NEW w \in Workers, PatchWrite(w) PROVE SameRow(id)
  <2>1. CASE Exists(job[w].target) /\ job[w].target = id /\ Goto(w, "patchRevoke") /\ UNCHANGED job
    <3>1. PendingRevocation(id)'
      BY <2>1 DEF PendingRevocation, Goto
    <3> QED
      BY <3>1 DEF Settled
  <2> QED
    BY <1>1, <1>2, <2>1 DEF PatchWrite, SameRow, Exists, Row
<1>3. ASSUME NEW w \in Workers, DeleteWrite(w) PROVE SameRow(id)
  BY <1>1, <1>3 DEF DeleteWrite, SameRow, Settled, Exists
<1>4. ASSUME NEW w \in Workers, PatchRevoke(w) \/ Revoke(w)
      PROVE  SameRow(id) \/ users'[id].tv = users[id].tv + 1
  BY <1>1, <1>4 DEF PatchRevoke, Revoke, RevokeAll, SameRow, Exists, Row
<1>5. ASSUME NEW w \in Workers, SignInUpdate(w)
      PROVE  SameRow(id) \/ users'[id].tv = users[id].tv + 1
  BY <1>1, <1>5 DEF SignInUpdate, SameRow, Exists, Row
<1>6. ASSUME NEW w \in Workers, SignInInsert(w) \/ LocalInsert(w) PROVE SameRow(id)
  BY <1>1, <1>6 DEF SignInInsert, LocalInsert, InsertAs, SameRow
<1>7. ASSUME NEW w \in Workers, LocalRestore(w) PROVE SameRow(id)
  BY <1>1, <1>7 DEF LocalRestore, Settled, SameRow
<1>8. ASSUME NEW w \in Workers,
             \/ Start(w) \/ PatchLoad(w) \/ DeleteLoad(w) \/ Count(w) \/ SignInRetry(w)
             \/ SignInCode(w) \/ Exchange(w) \/ CodeExpires(w) \/ Mint(w) \/ LocalRefresh(w)
      PROVE  UNCHANGED users
  BY <1>8 DEF Start, PatchStart, DeleteStart, Logout, SignIn, LocalLookup, PatchLoad,
              DeleteLoad, Count, SignInRetry, SignInCode, Exchange, CodeExpires, Mint,
              LocalRefresh
<1>9. CASE Crash \/ UNCHANGED vars
  BY <1>9 DEF Crash, vars, SameRow
<1> QED
  BY <1>2, <1>3, <1>4, <1>5, <1>6, <1>7, <1>8, <1>9 DEF Next, Step, SameRow

LEMMA SettledStep ==
    ASSUME TypeInv, Identities, [Next]_vars, NEW id \in used, Settled(id)',
           users'[id].tv # users[id].tv + 1
    PROVE  Settled(id) /\ SameRow(id)
<1> USE DEF TypeInv, TypeOK
<1>1. Exists(id) /\ SameRow(id)
  BY RowsStep, RoleStep DEF Evolves, Settled
<1>2. id \notin unrevoked
  BY InterruptedStep DEF Settled
<1>3. ~PendingRevocation(id)
  <2>1. SUFFICES ASSUME PendingRevocation(id) PROVE FALSE
    OBVIOUS
  <2>2. ~PendingRevocation(id)' /\ id \notin unrevoked'
    BY DEF Settled
  <2>3. CASE Crash
    BY <2>1, <2>2, <2>3 DEF Crash, PendingRevocation
  <2>4. ASSUME NEW w \in Workers, PatchRevoke(w), job[w].target = id PROVE FALSE
    <3>1. RevokeAll(w)
      BY <2>2, <2>4 DEF PatchRevoke
    <3> QED
      BY <1>1, <2>4, <3>1, RevokeEvolves DEF PatchRevoke
  <2> QED
    BY <2>1, <2>2, <2>3, <2>4, PendingStep
<1> QED
  BY <1>1, <1>2, <1>3 DEF Settled

LEMMA RolesStep ==
    ASSUME TypeInv, Identities, Counters, Roles, [Next]_vars
    PROVE  Roles'
<1> USE DEF TypeInv, TypeOK
(* What holds of an account before the step: a token, or a row to mint     *)
(* from, with the present counter has the present role.                    *)
<1>1. ASSUME NEW id \in used, Settled(id)', NEW tv \in Nat, NEW r,
             Exists(id) => tv <= users[id].tv,
             Settled(id) /\ tv = users[id].tv => r = users[id].role,
             tv = users'[id].tv
      PROVE  r = users'[id].role
  <2>1. Exists(id) /\ users[id].tv \in Nat
    BY <1>1, RowsStep DEF Evolves, Settled, Exists, Row
  <2> QED
    BY <1>1, <2>1, SettledStep DEF SameRow
<1>2. ASSUME NEW t \in tokens', users'[t.sub].tv = t.tv, Settled(t.sub)'
      PROVE  t.role = users'[t.sub].role
  <2>1. t.tv \in Nat
    BY TypeStep DEF Token
  <2>2. CASE t \in tokens
    <3>1. t.sub \in used /\ (Exists(t.sub) => t.tv <= users[t.sub].tv)
      BY <2>2 DEF Counters
    <3>2. Settled(t.sub) /\ t.tv = users[t.sub].tv => t.role = users[t.sub].role
      BY <2>2 DEF Roles, SessionsCarryTheRole, Settled, Valid
    <3> QED
      BY <1>1, <1>2, <2>1, <3>1, <3>2
  <2>3. CASE t \notin tokens
    <3>1. PICK w \in Workers : Minting(w) /\ t = TokenOf(job[w].target, job[w].row)
      BY <2>3, TokensStep
    <3>2. t.sub = job[w].target /\ t.tv = job[w].row.tv /\ t.role = job[w].row.role
      BY <3>1 DEF TokenOf
    <3>3. t.sub \in used /\ (Exists(t.sub) => t.tv <= users[t.sub].tv)
      BY <3>1, <3>2 DEF Counters
    <3>4. Settled(t.sub) /\ t.tv = users[t.sub].tv => t.role = users[t.sub].role
      BY <3>1, <3>2 DEF Roles
    <3> QED
      BY <1>1, <1>2, <2>1, <3>3, <3>4
  <2> QED
    BY <2>2, <2>3
<1>3. ASSUME NEW w \in Workers, Minting(w)', NEW id, id = job'[w].target, Settled(id)',
             job'[w].row.tv = users'[id].tv
      PROVE  job'[w].row.role = users'[id].role
  <2>1. CASE Minting(w) /\ job'[w] = job[w]
    <3>1. job[w].row.tv \in Nat
      BY <2>1 DEF Minting, JobShape, Row
    <3>2. id \in used /\ (Exists(id) => job[w].row.tv <= users[id].tv)
      BY <1>3, <2>1 DEF Counters
    <3>3. Settled(id) /\ job[w].row.tv = users[id].tv => job[w].row.role = users[id].role
      BY <1>3, <2>1 DEF Roles
    <3>4. job[w].row.tv = users'[id].tv
      BY <1>3, <2>1
    <3>5. job[w].row.role = users'[id].role
      BY ZenonT(40), <1>1, <1>3, <3>1, <3>2, <3>3, <3>4
    <3> QED
      BY <2>1, <3>5
  <2>2. CASE job'[w].row = users[job'[w].target] /\ UNCHANGED users
    BY <1>3, <2>2
  <2> QED
    BY <1>3, <2>1, <2>2, MintingStep
<1>4. SessionsCarryTheRole'
  BY <1>2 DEF SessionsCarryTheRole, Settled, Valid
<1>5. ASSUME NEW w \in Workers, Minting(w)', Settled(job[w].target)',
             job'[w].row.tv = users'[job'[w].target].tv
      PROVE  job'[w].row.role = users'[job'[w].target].role
  <2>1. PICK id : id = job'[w].target
    OBVIOUS
  <2>2. Settled(id)'
    BY <1>5, <2>1 DEF Settled, Exists, PendingRevocation
  <2> QED
    BY <1>3, <1>5, <2>1, <2>2
<1> QED
  BY <1>4, <1>5 DEF Roles

LEMMA RolesInit == Init => Roles
BY DEF Init, Roles, SessionsCarryTheRole, Minting, TokenOf

(* No session outlives a change of its account's role.                     *)
THEOREM SessionsFollowRoles == Spec => []SessionsCarryTheRole
<1>1. Spec => [](TypeInv /\ Identities /\ Counters /\ Roles)
  BY TypeInit, TypeStep, IdentitiesInit, IdentitiesStep, CountersInit, CountersStep,
     RolesInit, RolesStep, PTL DEF Spec
<1> QED
  BY <1>1, PTL DEF Roles
=============================================================================
