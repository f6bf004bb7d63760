----------------------------- MODULE Catalog ------------------------------
(***************************************************************************)
(* Properties, their members and their meters: routers/properties.py and   *)
(* routers/meters.py.                                                      *)
(*                                                                         *)
(* Each handler reads what it needs to decide - access, the row it is      *)
(* about, how many administrators are left - in statements of its own and  *)
(* writes later, so that other requests commit in between.  What the       *)
(* database refuses (a key that exists, a reference to a row that is gone, *)
(* an UPDATE of a row that is gone) ends the request and changes nothing.  *)
(***************************************************************************)
EXTENDS Naturals, FiniteSets

CONSTANTS
    Users, GlobalAdmins,   \* accounts, and those with the role admin or superadmin
    Properties, Meters,    \* ids uuid4 can draw
    Founding, MeteredBy,   \* at first: property -> account -> role, meter -> property
    Roles,                 \* the roles requests ask for
    Workers,               \* request threads
    MaxRequests,           \* bound: changes of members and meters, and creations
    None

PropertyUserRole == {"admin", "manager", "user"}

Meter == [prop : Properties, replaced : BOOLEAN, by : Meters \union {None}]

ASSUME CatalogAssumption ==
    /\ IsFiniteSet(Users) /\ GlobalAdmins \subseteq Users
    /\ Founding \in [Properties -> [Users -> PropertyUserRole \union {None}]]
    /\ MeteredBy \in [Meters -> Properties \union {None}]
    /\ \A m \in Meters : MeteredBy[m] # None => \E u \in Users : Founding[MeteredBy[m]][u] # None
    /\ Roles \subseteq PropertyUserRole
    /\ MaxRequests \in Nat
    /\ None \notin Properties \union Meters \union PropertyUserRole \union {"keep"} \union Meter
    /\ "keep" \notin Meters

VARIABLES
    users,      \* accounts that exist
    props,      \* rows of properties
    role,       \* property_users: property -> account -> role or None
    meters,     \* meter -> row or None
    pc, job,    \* request threads
    lost,       \* threads whose membership row was deleted since they loaded it
    requests,   \* begun so far
    moved       \* history: properties whose members changed since a thread read them

vars == <<users, props, role, meters, pc, job, lost, requests, moved>>

(* role: the role that is asked for, None to remove.  was: the one loaded. *)
MemberJob == [prop : Properties, user : Users, role : PropertyUserRole \union {None},
              was : PropertyUserRole \union {None}]

(* The columns an update writes; "keep": replaced_by_id is not written. *)
MeterJob == [meter : Meters, replace : BOOLEAN, by : Meters \union {None, "keep"}]

TypeOK ==
    /\ users \subseteq Users /\ props \subseteq Properties
    /\ role \in [Properties -> [Users -> PropertyUserRole \union {None}]]
    /\ meters \in [Meters -> Meter \union {None}]
    /\ pc \in [Workers -> {"idle", "guard", "write", "update", "delete"}]
    /\ job \in [Workers -> MemberJob \union MeterJob \union {None}]
    /\ \A w \in Workers :
          /\ pc[w] \in {"guard", "write"} => job[w] \in MemberJob
          /\ pc[w] \in {"update", "delete"} => job[w] \in MeterJob
    /\ lost \subseteq Workers
    /\ requests \in 0..MaxRequests
    /\ moved \in [Workers -> SUBSET Properties]

----------------------------------------------------------------------------
LevelRoles == [read |-> PropertyUserRole, write |-> {"admin", "manager"}, delete |-> {"admin"}]

HasAccess(u, p, level) ==
    /\ u \in users /\ p \in props
    /\ u \in GlobalAdmins \/ role[p][u] \in LevelRoles[level]

AdminsOf(r, p) == {u \in Users : r[p][u] = "admin"}

(* Mutant: the count does not include the row that is about to go. *)
IsLastAdminOffByOne(p, was) == was = "admin" /\ Cardinality(AdminsOf(role, p)) < 1

(* _is_last_property_admin, given the role of the row when it was loaded. *)
IsLastAdmin(p, was) == was = "admin" /\ Cardinality(AdminsOf(role, p)) <= 1

Request == requests < MaxRequests /\ requests' = requests + 1

Begin(w, j, to) ==
    /\ Request
    /\ pc[w] = "idle"
    /\ job' = [job EXCEPT ![w] = j]
    /\ pc' = [pc EXCEPT ![w] = to]

Respond(w) ==
    /\ pc' = [pc EXCEPT ![w] = "idle"]
    /\ job' = [job EXCEPT ![w] = None]

(* The rows xs of property_users are deleted; a row that is inserted later *)
(* for the same member is another one.                                     *)
Loses(ws, xs) ==
    lost' = {v \in lost \ ws : pc[v] \in {"guard", "write"}} \union
            {v \in Workers \ ws : pc[v] \in {"guard", "write"} /\ <<job[v].prop, job[v].user>> \in xs}

(* The members of ps change under every request that loaded one and has    *)
(* not written yet, w excepted.                                            *)
Moves(ws, ps) ==
    moved' = [v \in Workers |->
                 IF v \in ws \/ pc[v] \notin {"guard", "write"} THEN {} ELSE moved[v] \union ps]

----------------------------------------------------------------------------
(* Members.                                                                *)

(* add_property_user and remove_property_user (r = None), up to the row of *)
(* the member, which only the removal insists on.                          *)
MemberStart(w, actor, p, u, r) ==
    /\ HasAccess(actor, p, "delete")
    /\ u # actor
    /\ IF r = None THEN role[p][u] # None ELSE u \in users
    /\ Begin(w, [prop |-> p, user |-> u, role |-> r, was |-> role[p][u]], "guard")
    /\ moved' = [moved EXCEPT ![w] = {}]
    /\ lost' = lost \ {w}
    /\ UNCHANGED <<users, props, role, meters>>

(* The administrators are counted when an admin would stop being one. *)
MemberGuard(w) ==
    LET j == job[w]
    IN  /\ pc[w] = "guard"
        /\ \/ /\ j.role # "admin" /\ IsLastAdmin(j.prop, j.was)     \* 409
              /\ Respond(w)
           \/ /\ ~(j.role # "admin" /\ IsLastAdmin(j.prop, j.was))
              /\ pc' = [pc EXCEPT ![w] = "write"]
              /\ UNCHANGED job
        /\ UNCHANGED <<users, props, role, meters, lost, requests, moved>>

(* Whether the database takes the INSERT, UPDATE or DELETE.  An UPDATE to  *)
(* the role that was loaded is not even sent.                              *)
Writable(w) ==
    LET j == job[w]
    IN  CASE j.was = None -> j.prop \in props /\ j.user \in users /\ role[j.prop][j.user] = None
          [] j.was # None -> w \notin lost /\ j.role # j.was

MemberWrite(w) ==
    LET j == job[w]
    IN  /\ pc[w] = "write"
        /\ \/ /\ Writable(w)
              /\ role' = [role EXCEPT ![j.prop][j.user] = j.role]
              /\ Moves({w}, {j.prop})
              /\ Loses({w}, IF j.role = None THEN {<<j.prop, j.user>>} ELSE {})
           \/ /\ ~Writable(w)
              /\ UNCHANGED <<role, lost, moved>>
        /\ Respond(w)
        /\ UNCHANGED <<users, props, meters, requests>>

----------------------------------------------------------------------------
(* Meters.                                                                 *)

Exists(m) == meters[m] # None

NewMeter(p) == [prop |-> p, replaced |-> FALSE, by |-> None]

CreateMeter(actor, p, m) ==
    /\ Request
    /\ HasAccess(actor, p, "write")
    /\ ~Exists(m) /\ \A w \in Workers : pc[w] \in {"update", "delete"} =>
                        job[w].meter # m /\ job[w].by # m
    /\ meters' = [meters EXCEPT ![m] = NewMeter(p)]
    /\ UNCHANGED <<users, props, role, pc, job, lost, moved>>

(* Mutant: any meter will do. *)
CheckReplacementAnywhere(m, by) == by # None => by # m /\ Exists(by)

(* _check_replacement *)
CheckReplacement(m, by) ==
    by # None => by # m /\ Exists(by) /\ meters[by].prop = meters[m].prop

(* update_meter up to the assignments.  A date of replacement is set or    *)
(* not; a successor is set, cleared or not mentioned.  A column that is    *)
(* assigned the value that was loaded is not written.                      *)
UpdateStart(w, actor, m, replace, by) ==
    /\ Exists(m) /\ HasAccess(actor, meters[m].prop, "write")
    /\ ~meters[m].replaced
    /\ by # "keep" => CheckReplacement(m, by)
    /\ Begin(w, [meter |-> m, replace |-> replace,
                 by |-> IF by = meters[m].by THEN "keep" ELSE by], "update")
    /\ UNCHANGED <<users, props, role, meters, lost, moved>>

Flushable(j) == Exists(j.meter) /\ (j.by \in Meters => Exists(j.by))

(* The row with the columns that were set. *)
Updated(row, j) ==
    [prop |-> row.prop, replaced |-> row.replaced \/ j.replace,
     by |-> IF j.by = "keep" THEN row.by ELSE j.by]

(* Mutant: the date of replacement is written whether or not it was set. *)
UpdateFlushAll(w) ==
    LET j == job[w]
    IN  /\ pc[w] = "update"
        /\ meters' = IF Flushable(j)
                     THEN [meters EXCEPT ![j.meter] = [Updated(@, j) EXCEPT !.replaced = j.replace]]
                     ELSE meters
        /\ Respond(w)
        /\ UNCHANGED <<users, props, role, lost, requests, moved>>

(* flush and commit: only the columns that were set are written.           *)
UpdateFlush(w) ==
    LET j == job[w]
    IN  /\ pc[w] = "update"
        /\ meters' = IF Flushable(j)
                     THEN [meters EXCEPT ![j.meter] = Updated(@, j)]
                     ELSE meters
        /\ Respond(w)
        /\ UNCHANGED <<users, props, role, lost, requests, moved>>

DeleteStart(w, actor, m) ==
    /\ Exists(m) /\ HasAccess(actor, meters[m].prop, "delete")
    /\ ~meters[m].replaced
    /\ Begin(w, [meter |-> m, replace |-> FALSE, by |-> "keep"], "delete")
    /\ UNCHANGED <<users, props, role, meters, lost, moved>>

Successor(m) == \E n \in Meters \ {m} : Exists(n) /\ meters[n].by = m

(* The foreign key of replaced_by_id refuses to lose a successor.          *)
DeleteFlush(w) ==
    /\ pc[w] = "delete"
    /\ meters' = IF Successor(job[w].meter) THEN meters
                 ELSE [meters EXCEPT ![job[w].meter] = None]
    /\ Respond(w)
    /\ UNCHANGED <<users, props, role, lost, requests, moved>>

----------------------------------------------------------------------------
(* Properties and accounts.                                                *)

CreateProperty(p) ==
    /\ Request
    /\ GlobalAdmins \intersect users # {} /\ p \notin props
    /\ \A w \in Workers : pc[w] \in {"guard", "write"} => job[w].prop # p
    /\ props' = props \union {p}
    /\ UNCHANGED <<users, role, meters, pc, job, lost, moved>>

MetersOf(p) == {m \in Meters : Exists(m) /\ meters[m].prop = p}

(* The ORM deletes a property's meters one by one, predecessors first, and *)
(* gives up when they form a cycle.                                        *)
Deletable(p) ==
    \A ms \in SUBSET MetersOf(p) :
        ms # {} => \E m \in ms : \A n \in ms : meters[n].by # m

DeleteProperty(p) ==
    /\ GlobalAdmins \intersect users # {} /\ p \in props
    /\ Deletable(p)
    /\ props' = props \ {p}
    /\ role' = [role EXCEPT ![p] = [u \in Users |-> None]]
    /\ meters' = [m \in Meters |-> IF m \in MetersOf(p) THEN None ELSE meters[m]]
    /\ Moves({}, {p})
    /\ Loses({}, {p} \X Users)
    /\ UNCHANGED <<users, pc, job, requests>>

(* Another part of the system deletes an account; its memberships go.      *)
DeleteAccount(u) ==
    /\ u \in users /\ GlobalAdmins \intersect (users \ {u}) # {}
    /\ users' = users \ {u}
    /\ role' = [p \in Properties |-> [role[p] EXCEPT ![u] = None]]
    /\ Moves({}, {p \in Properties : role[p][u] # None})
    /\ Loses({}, Properties \X {u})
    /\ UNCHANGED <<props, meters, pc, job, requests>>

----------------------------------------------------------------------------
Init ==
    /\ users = Users
    /\ props = {p \in Properties : \E u \in Users : Founding[p][u] # None}
    /\ role = Founding
    /\ meters = [m \in Meters |-> IF MeteredBy[m] = None THEN None
                              ELSE [prop |-> MeteredBy[m], replaced |-> FALSE, by |-> None]]
    /\ pc = [w \in Workers |-> "idle"]
    /\ job = [w \in Workers |-> None]
    /\ lost = {} /\ requests = 0
    /\ moved = [w \in Workers |-> {}]

MemberStep ==
    \/ \E w \in Workers, actor, u \in Users, p \in Properties,
          r \in Roles \union {None} : MemberStart(w, actor, p, u, r)
    \/ \E w \in Workers : MemberGuard(w) \/ MemberWrite(w)

MeterStep ==
    \/ \E actor \in Users, p \in Properties, m \in Meters : CreateMeter(actor, p, m)
    \/ \E w \in Workers, actor \in Users, m \in Meters, replace \in BOOLEAN,
          by \in Meters \union {None, "keep"} : UpdateStart(w, actor, m, replace, by)
    \/ \E w \in Workers, actor \in Users, m \in Meters : DeleteStart(w, actor, m)
    \/ \E w \in Workers : UpdateFlush(w) \/ DeleteFlush(w)

PropertyStep ==
    \/ \E p \in Properties : CreateProperty(p) \/ DeleteProperty(p)
    \/ \E u \in Users : DeleteAccount(u)

Next == MemberStep \/ MeterStep \/ PropertyStep

Spec == Init /\ [][Next]_vars

----------------------------------------------------------------------------
(* However updates, deletions and new meters interleave, a successor is    *)
(* there, is another meter, and belongs to the same property (F-037).      *)
SuccessorsSound ==
    \A m \in Meters : Exists(m) /\ meters[m].by # None =>
        /\ meters[m].by # m
        /\ Exists(meters[m].by)
        /\ meters[meters[m].by].prop = meters[m].prop

(* A replaced meter never comes back into service: an update that was      *)
(* under way when it was replaced leaves the date of replacement alone.    *)
ReplacedForGood ==
    [][\A m \in Meters : Exists(m) /\ meters[m].replaced /\ meters'[m] # None
          => meters'[m].replaced]_vars

(* A property loses its last administrator only by the deletion of the     *)
(* property or the account, or by a request under which another change of  *)
(* the members was committed after it loaded the row it changes.           *)
LastAdminGuarded ==
    [][\A w \in Workers : MemberWrite(w) =>
          \A p \in Properties :
              AdminsOf(role, p) # {} /\ AdminsOf(role', p) = {} => p \in moved[w]]_vars

============================================================================
