--------------------------- MODULE CatalogProofs ---------------------------
(***************************************************************************)
(* For any accounts, properties, meters and request threads: Catalog keeps *)
(* its types, successors of meters stay in their property, and no request  *)
(* takes the last administrator of a property it saw unchanged.            *)
(***************************************************************************)
EXTENDS Catalog, FiniteSetTheorems, TLAPS

USE CatalogAssumption

(* A successor that an update is about to write was checked, and is still  *)
(* what it was if both meters are still there.                             *)
UpdatesSound ==
    \A w \in Workers : pc[w] = "update" =>
        LET m == job[w].meter
            by == job[w].by
        IN  by \in Meters /\ Exists(m) /\ Exists(by) =>
                by # m /\ meters[by].prop = meters[m].prop

(* As long as nobody else changed the members, the row is the one that was *)
(* loaded, and a count that let the request pass still holds.              *)
GuardsHold ==
    \A w \in Workers :
        /\ pc[w] \in {"guard", "write"} /\ job[w].prop \notin moved[w] =>
               role[job[w].prop][job[w].user] = job[w].was
        /\ pc[w] = "write" /\ job[w].prop \notin moved[w] /\ job[w].role # "admin" =>
               ~IsLastAdmin(job[w].prop, job[w].was)

IInv == SuccessorsSound /\ UpdatesSound

----------------------------------------------------------------------------
LEMMA TypeInit == Init => TypeOK
<1> SUFFICES ASSUME Init PROVE TypeOK
  OBVIOUS
<1>1. meters \in [Meters -> Meter \union {None}]
  <2>1. ASSUME NEW m \in Meters, MeteredBy[m] # None
        PROVE  MeteredBy[m] \in Properties
    BY <2>1
  <2> QED
    BY <2>1 DEF Init, Meter
<1> QED
  BY <1>1 DEF Init, TypeOK

LEMMA RespondTypes ==
    ASSUME TypeOK, NEW w \in Workers, Respond(w)
    PROVE  /\ pc' \in [Workers -> {"idle", "guard", "write", "update", "delete"}]
           /\ job' \in [Workers -> MemberJob \union MeterJob \union {None}]
           /\ \A v \in Workers :
                 /\ pc'[v] \in {"guard", "write"} => job'[v] \in MemberJob
                 /\ pc'[v] \in {"update", "delete"} => job'[v] \in MeterJob
BY DEF Respond, TypeOK

LEMMA BeginTypes ==
    ASSUME TypeOK, NEW w \in Workers, NEW j, NEW to, Begin(w, j, to),
           \/ to = "guard" /\ j \in MemberJob
           \/ to \in {"update", "delete"} /\ j \in MeterJob
    PROVE  /\ pc' \in [Workers -> {"idle", "guard", "write", "update", "delete"}]
           /\ job' \in [Workers -> MemberJob \union MeterJob \union {None}]
           /\ \A v \in Workers :
                 /\ pc'[v] \in {"guard", "write"} => job'[v] \in MemberJob
                 /\ pc'[v] \in {"update", "delete"} => job'[v] \in MeterJob
           /\ requests' \in 0..MaxRequests
BY DEF Begin, Request, TypeOK

LEMMA MoveTypes ==
    ASSUME TypeOK, NEW ws \in SUBSET Workers, NEW ps \in SUBSET Properties, NEW xs,
           Moves(ws, ps), Loses(ws, xs)
    PROVE  moved' \in [Workers -> SUBSET Properties] /\ lost' \subseteq Workers
BY DEF Moves, Loses, TypeOK

LEMMA UpdateTypes ==
    ASSUME TypeOK, NEW w \in Workers, UpdateFlush(w)
    PROVE  meters' \in [Meters -> Meter \union {None}]
<1>1. job[w] \in MeterJob
  BY DEF UpdateFlush, TypeOK
<1>2. CASE ~Flushable(job[w])
  BY <1>2 DEF UpdateFlush, TypeOK
<1>3. CASE Flushable(job[w])
  <2>1. meters[job[w].meter] \in Meter
    BY <1>1, <1>3 DEF Flushable, Exists, TypeOK, MeterJob
  <2>2. job[w].by # "keep" => job[w].by \in Meters \union {None}
    BY <1>1 DEF MeterJob
  <2>3. Updated(meters[job[w].meter], job[w]) \in Meter
    BY <1>1, <2>1, <2>2 DEF Updated, Meter, MeterJob
  <2> QED
    BY <1>3, <2>3 DEF UpdateFlush, TypeOK
<1> QED
  BY <1>2, <1>3

LEMMA TypeStep == TypeOK /\ [Next]_vars => TypeOK'
<1> SUFFICES ASSUME TypeOK, [Next]_vars PROVE TypeOK'
  OBVIOUS
<1>1. ASSUME NEW w \in Workers, NEW actor \in Users, NEW u \in Users, NEW p \in Properties,
             NEW r \in Roles \union {None}, MemberStart(w, actor, p, u, r)
      PROVE  TypeOK'
  <2> DEFINE j == [prop |-> p, user |-> u, role |-> r, was |-> role[p][u]]
  <2>1. j \in MemberJob
    BY DEF MemberJob, TypeOK
  <2>2. Begin(w, j, "guard")
    BY <1>1 DEF MemberStart
  <2> HIDE DEF j
  <2>3. /\ pc' \in [Workers -> {"idle", "guard", "write", "update", "delete"}]
        /\ job' \in [Workers -> MemberJob \union MeterJob \union {None}]
        /\ \A v \in Workers :
              /\ pc'[v] \in {"guard", "write"} => job'[v] \in MemberJob
              /\ pc'[v] \in {"update", "delete"} => job'[v] \in MeterJob
        /\ requests' \in 0..MaxRequests
    BY <2>1, <2>2, BeginTypes
  <2> QED
    BY <1>1, <2>3 DEF MemberStart, TypeOK
<1>2. ASSUME NEW w \in Workers, MemberGuard(w) PROVE TypeOK'
  <2>1. CASE Respond(w)
    BY <1>2, <2>1, RespondTypes DEF MemberGuard, TypeOK
  <2>2. CASE ~Respond(w)
    BY <1>2, <2>2 DEF MemberGuard, TypeOK
  <2> QED
    BY <2>1, <2>2
<1>3. ASSUME NEW w \in Workers, MemberWrite(w) PROVE TypeOK'
  <2>1. job[w] \in MemberJob
    BY <1>3 DEF MemberWrite, TypeOK
  <2>2. role' \in [Properties -> [Users -> PropertyUserRole \union {None}]]
    <3>1. CASE Writable(w)
      <4>1. role' = [role EXCEPT ![job[w].prop][job[w].user] = job[w].role]
        BY <1>3, <3>1 DEF MemberWrite
      <4>2. job[w].role \in PropertyUserRole \union {None}
        BY <2>1 DEF MemberJob
      <4> HIDE DEF PropertyUserRole
      <4> QED
        BY <4>1, <4>2 DEF TypeOK
    <3>2. CASE ~Writable(w)
      BY <1>3, <3>2 DEF MemberWrite, TypeOK
    <3> QED
      BY <3>1, <3>2
  <2>3. moved' \in [Workers -> SUBSET Properties] /\ lost' \subseteq Workers
    <3>1. {job[w].prop} \in SUBSET Properties /\ {w} \in SUBSET Workers
      BY <2>1 DEF MemberJob
    <3>2. CASE Writable(w)
      BY <1>3, <3>1, <3>2, MoveTypes DEF MemberWrite
    <3>3. CASE ~Writable(w)
      BY <1>3, <3>3 DEF MemberWrite, TypeOK
    <3> QED
      BY <3>2, <3>3
  <2> QED
    BY <1>3, <2>2, <2>3, RespondTypes DEF MemberWrite, TypeOK
<1>4. ASSUME NEW actor \in Users, NEW p \in Properties, NEW m \in Meters, CreateMeter(actor, p, m)
      PROVE  TypeOK'
  BY <1>4 DEF CreateMeter, Request, NewMeter, TypeOK, Meter
<1>5. ASSUME NEW w \in Workers, NEW actor \in Users, NEW m \in Meters, NEW replace \in BOOLEAN,
             NEW by \in Meters \union {None, "keep"}, UpdateStart(w, actor, m, replace, by)
      PROVE  TypeOK'
  <2> DEFINE j == [meter |-> m, replace |-> replace,
                   by |-> IF by = meters[m].by THEN "keep" ELSE by]
  <2>1. j \in MeterJob
    BY DEF MeterJob
  <2>2. Begin(w, j, "update")
    BY <1>5 DEF UpdateStart
  <2> HIDE DEF j
  <2> QED
    BY <1>5, <2>1, <2>2, BeginTypes DEF UpdateStart, TypeOK
<1>6. ASSUME NEW w \in Workers, NEW actor \in Users, NEW m \in Meters, DeleteStart(w, actor, m)
      PROVE  TypeOK'
  <2> DEFINE j == [meter |-> m, replace |-> FALSE, by |-> "keep"]
  <2>1. j \in MeterJob
    BY DEF MeterJob
  <2>2. Begin(w, j, "delete")
    BY <1>6 DEF DeleteStart
  <2> HIDE DEF j
  <2> QED
    BY <1>6, <2>1, <2>2, BeginTypes DEF DeleteStart, TypeOK
<1>7. ASSUME NEW w \in Workers, UpdateFlush(w) PROVE TypeOK'
  BY <1>7, UpdateTypes, RespondTypes DEF UpdateFlush, TypeOK
<1>8. ASSUME NEW w \in Workers, DeleteFlush(w) PROVE TypeOK'
  BY <1>8, RespondTypes DEF DeleteFlush, TypeOK, MeterJob
<1>9. ASSUME NEW p \in Properties, CreateProperty(p) PROVE TypeOK'
  BY <1>9 DEF CreateProperty, Request, TypeOK
<1>10. ASSUME NEW p \in Properties, DeleteProperty(p) PROVE TypeOK'
  <2>1. {p} \in SUBSET Properties /\ {} \in SUBSET Workers
    OBVIOUS
  <2>2. moved' \in [Workers -> SUBSET Properties] /\ lost' \subseteq Workers
    BY <1>10, <2>1, MoveTypes DEF DeleteProperty
  <2> QED
    BY <1>10, <2>2 DEF DeleteProperty, TypeOK
<1>11. ASSUME NEW u \in Users, DeleteAccount(u) PROVE TypeOK'
  <2>1. {p \in Properties : role[p][u] # None} \in SUBSET Properties /\ {} \in SUBSET Workers
    OBVIOUS
  <2>2. moved' \in [Workers -> SUBSET Properties] /\ lost' \subseteq Workers
    BY <1>11, <2>1, MoveTypes DEF DeleteAccount
  <2> QED
    BY <1>11, <2>2 DEF DeleteAccount, TypeOK
<1>12. CASE UNCHANGED vars
  BY <1>12 DEF vars, TypeOK
<1> QED
  BY <1>1, <1>2, <1>3, <1>4, <1>5, <1>6, <1>7, <1>8, <1>9, <1>10, <1>11, <1>12
  DEF Next, MemberStep, MeterStep, PropertyStep

(* Every reachable state of the catalogue is well typed. *)
THEOREM TypeCorrect == Spec => []TypeOK
BY TypeInit, TypeStep, PTL DEF Spec

----------------------------------------------------------------------------
(* Successors.                                                             *)

LEMMA IInvInit == Init => IInv
<1> SUFFICES ASSUME Init PROVE IInv
  OBVIOUS
<1>1. \A m \in Meters : Exists(m) => meters[m].by = None
  BY DEF Init, Exists
<1> QED
  BY <1>1 DEF Init, IInv, SuccessorsSound, UpdatesSound

(* A step that neither creates nor moves a meter, and leaves the updates   *)
(* that are under way alone or ends them, keeps what was checked.          *)
LEMMA UpdatesStaySound ==
    ASSUME UpdatesSound,
           \A m \in Meters : Exists(m)' => Exists(m) /\ meters'[m].prop = meters[m].prop,
           \A w \in Workers : pc'[w] = "update" => pc[w] = "update" /\ job'[w] = job[w],
           TypeOK
    PROVE  UpdatesSound'
<1> SUFFICES ASSUME NEW w \in Workers, pc'[w] = "update", job'[w].by \in Meters,
                    meters'[job'[w].meter] # None, meters'[job'[w].by] # None
             PROVE  /\ job'[w].by # job'[w].meter
                    /\ meters'[job'[w].by].prop = meters'[job'[w].meter].prop
  BY DEF UpdatesSound, Exists
<1>1. pc[w] = "update" /\ job'[w] = job[w] /\ job[w].meter \in Meters
  BY DEF TypeOK, MeterJob
<1>2. /\ Exists(job[w].meter) /\ meters'[job[w].meter].prop = meters[job[w].meter].prop
      /\ Exists(job[w].by) /\ meters'[job[w].by].prop = meters[job[w].by].prop
  BY <1>1 DEF Exists
<1> QED
  BY <1>1, <1>2 DEF UpdatesSound

LEMMA IInvStep == TypeOK /\ IInv /\ [Next]_vars => IInv'
<1> SUFFICES ASSUME TypeOK, IInv, [Next]_vars PROVE IInv'
  OBVIOUS
<1>0. SuccessorsSound /\ UpdatesSound
  BY DEF IInv
<1>1. ASSUME meters' = meters,
             \A w \in Workers : pc'[w] = "update" => pc[w] = "update" /\ job'[w] = job[w]
      PROVE  IInv'
  <2>1. SuccessorsSound'
    BY <1>0, <1>1 DEF SuccessorsSound, Exists
  <2>2. UpdatesSound'
    BY <1>0, <1>1, UpdatesStaySound DEF Exists
  <2> QED
    BY <2>1, <2>2 DEF IInv
<1>2. ASSUME NEW w \in Workers, NEW actor \in Users, NEW u \in Users, NEW p \in Properties,
             NEW r \in Roles \union {None}, MemberStart(w, actor, p, u, r)
      PROVE  IInv'
  BY <1>1, <1>2 DEF MemberStart, Begin, TypeOK
<1>3. ASSUME NEW w \in Workers, MemberGuard(w) PROVE IInv'
  BY <1>1, <1>3 DEF MemberGuard, Respond, TypeOK
<1>4. ASSUME NEW w \in Workers, MemberWrite(w) PROVE IInv'
  BY <1>1, <1>4 DEF MemberWrite, Respond, TypeOK
<1>5. ASSUME NEW actor \in Users, NEW p \in Properties, NEW m \in Meters, CreateMeter(actor, p, m)
      PROVE  IInv'
  <2>1. /\ meters' = [meters EXCEPT ![m] = NewMeter(p)]
        /\ meters[m] = None /\ NewMeter(p) # None /\ NewMeter(p).by = None
        /\ pc' = pc /\ job' = job
    <3>1. NewMeter(p) \in Meter
      BY DEF NewMeter, Meter
    <3> QED
      BY <1>5, <3>1 DEF CreateMeter, Exists, NewMeter
  <2>2. \A n \in Meters \ {m} : meters'[n] = meters[n]
    BY <2>1 DEF TypeOK
  <2>3. meters'[m].by = None
    BY <2>1 DEF TypeOK
  <2>4. SuccessorsSound'
    BY <1>0, <2>1, <2>2, <2>3 DEF SuccessorsSound, Exists
  <2>5. \A w \in Workers : pc[w] = "update" => job[w].meter # m /\ job[w].by # m
    BY <1>5 DEF CreateMeter
  <2>6. \A w \in Workers : pc[w] = "update" => job[w].meter \in Meters
    BY DEF TypeOK, MeterJob
  <2>7. UpdatesSound'
    BY <1>0, <2>1, <2>2, <2>5, <2>6 DEF UpdatesSound, Exists
  <2> QED
    BY <2>4, <2>7 DEF IInv
<1>6. ASSUME NEW w \in Workers, NEW actor \in Users, NEW m \in Meters, NEW replace \in BOOLEAN,
             NEW by \in Meters \union {None, "keep"}, UpdateStart(w, actor, m, replace, by)
      PROVE  IInv'
  <2> DEFINE b == IF by = meters[m].by THEN "keep" ELSE by
  <2>1. meters' = meters /\ job' = [job EXCEPT ![w] = [meter |-> m, replace |-> replace, by |-> b]]
        /\ pc' = [pc EXCEPT ![w] = "update"]
    BY <1>6 DEF UpdateStart, Begin
  <2>2. b \in Meters => b # m /\ meters[b].prop = meters[m].prop
    BY <1>6 DEF UpdateStart, CheckReplacement
  <2> HIDE DEF b
  <2>3. SuccessorsSound'
    BY <1>0, <2>1 DEF SuccessorsSound, Exists
  <2>4. job'[w].meter = m /\ job'[w].by = b
    BY <2>1 DEF TypeOK
  <2>5. \A v \in Workers \ {w} : job'[v] = job[v] /\ pc'[v] = pc[v]
    BY <2>1 DEF TypeOK
  <2>6. UpdatesSound'
    BY <1>0, <2>1, <2>2, <2>4, <2>5 DEF UpdatesSound, Exists
  <2> QED
    BY <2>3, <2>6 DEF IInv
<1>7. ASSUME NEW w \in Workers, NEW actor \in Users, NEW m \in Meters, DeleteStart(w, actor, m)
      PROVE  IInv'
  BY <1>1, <1>7 DEF DeleteStart, Begin, TypeOK
<1>8. ASSUME NEW w \in Workers, UpdateFlush(w) PROVE IInv'
  <2> DEFINE j == job[w]
             row == Updated(meters[j.meter], j)
  <2>1. j \in MeterJob /\ j.meter \in Meters
    BY <1>8 DEF UpdateFlush, TypeOK, MeterJob
  <2>2. \A v \in Workers : pc'[v] = "update" => pc[v] = "update" /\ job'[v] = job[v]
    BY <1>8 DEF UpdateFlush, Respond, TypeOK
  <2>3. CASE ~Flushable(j)
    BY <1>1, <1>8, <2>2, <2>3 DEF UpdateFlush
  <2>4. CASE Flushable(j)
    <3>1. meters' = [meters EXCEPT ![j.meter] = row]
      BY <1>8, <2>4 DEF UpdateFlush
    <3>2. row.prop = meters[j.meter].prop
          /\ row.by = (IF j.by = "keep" THEN meters[j.meter].by ELSE j.by)
      BY DEF Updated
    <3>3. Exists(j.meter)
      BY <2>4 DEF Flushable
    <3>4. j.by \in Meters => Exists(j.by) /\ j.by # j.meter
                               /\ meters[j.by].prop = meters[j.meter].prop
      BY <1>0, <1>8, <2>4, <3>3 DEF Flushable, UpdatesSound, UpdateFlush
    <3>5. j.by \in Meters \union {None, "keep"}
      BY <2>1 DEF MeterJob
    <3> HIDE DEF row
    <3>6. meters'[j.meter] = row /\ \A n \in Meters \ {j.meter} : meters'[n] = meters[n]
      BY <2>1, <3>1 DEF TypeOK
    <3>7. \A n \in Meters : Exists(n)' => Exists(n) /\ meters'[n].prop = meters[n].prop
      BY <3>2, <3>3, <3>6 DEF Exists
    <3>8. UpdatesSound'
      BY <1>0, <2>2, <3>7, UpdatesStaySound
    <3>9. row # None
      BY <1>8, UpdateTypes, <3>6, <2>1, <2>4, <3>3 DEF row, Updated, TypeOK, Meter, MeterJob, Exists
    <3>10. SuccessorsSound'
      <4> SUFFICES ASSUME NEW n \in Meters, meters'[n] # None, meters'[n].by # None
                   PROVE  /\ meters'[n].by # n
                          /\ meters'[meters'[n].by] # None
                          /\ meters'[meters'[n].by].prop = meters'[n].prop
        BY DEF SuccessorsSound, Exists
      <4>0. \A k \in Meters : Exists(k) => meters'[k] # None /\ meters'[k].prop = meters[k].prop
        BY <3>2, <3>6, <3>9 DEF Exists
      <4>1. Exists(n)
        BY <3>7 DEF Exists
      <4>2. CASE n = j.meter /\ j.by # "keep"
        BY <2>1, <3>2, <3>4, <3>5, <3>6, <4>0, <4>1, <4>2
      <4>3. CASE ~(n = j.meter /\ j.by # "keep")
        <5>1. meters'[n].by = meters[n].by
          BY <3>2, <3>6, <4>3
        <5>2. meters[n].by \in Meters
          BY <4>1, <5>1 DEF TypeOK, Meter, Exists
        <5> QED
          BY <1>0, <4>0, <4>1, <5>1, <5>2 DEF SuccessorsSound
      <4> QED
        BY <4>2, <4>3
    <3> QED
      BY <3>8, <3>10 DEF IInv
  <2> QED
    BY <2>3, <2>4
<1>9. ASSUME NEW w \in Workers, DeleteFlush(w) PROVE IInv'
  <2> DEFINE m == job[w].meter
  <2>1. m \in Meters
    BY <1>9 DEF DeleteFlush, TypeOK, MeterJob
  <2>2. \A v \in Workers : pc'[v] = "update" => pc[v] = "update" /\ job'[v] = job[v]
    BY <1>9 DEF DeleteFlush, Respond, TypeOK
  <2>3. CASE Successor(m)
    BY <1>1, <1>9, <2>2, <2>3 DEF DeleteFlush
  <2>4. CASE ~Successor(m)
    <3>1. meters' = [meters EXCEPT ![m] = None]
      BY <1>9, <2>4 DEF DeleteFlush
    <3>2. \A n \in Meters : Exists(n)' => n # m /\ Exists(n) /\ meters'[n] = meters[n]
      BY <2>1, <3>1 DEF Exists, TypeOK
    <3>3. \A n \in Meters \ {m} : Exists(n) => meters[n].by # m /\ meters'[n] = meters[n]
      BY <2>1, <2>4, <3>1 DEF Successor, Exists, TypeOK
    <3>4. UpdatesSound'
      BY <1>0, <2>2, <3>2, UpdatesStaySound
    <3>5. SuccessorsSound'
      BY <1>0, <3>2, <3>3 DEF SuccessorsSound, Exists, TypeOK, Meter
    <3> QED
      BY <3>4, <3>5 DEF IInv
  <2> QED
    BY <2>3, <2>4
<1>10. ASSUME NEW p \in Properties, CreateProperty(p) PROVE IInv'
  BY <1>1, <1>10 DEF CreateProperty
<1>11. ASSUME NEW p \in Properties, DeleteProperty(p) PROVE IInv'
  <2>1. /\ meters' = [m \in Meters |-> IF m \in MetersOf(p) THEN None ELSE meters[m]]
        /\ pc' = pc /\ job' = job
    BY <1>11 DEF DeleteProperty
  <2>2. \A n \in Meters : Exists(n)' => /\ Exists(n) /\ meters'[n] = meters[n]
                                        /\ meters[n].prop # p
    BY <2>1 DEF MetersOf, Exists
  <2>3. \A n \in Meters : Exists(n) /\ meters[n].prop # p => meters'[n] = meters[n]
    BY <2>1 DEF MetersOf, Exists
  <2>4. UpdatesSound'
    BY <1>0, <2>1, <2>2, UpdatesStaySound
  <2>5. \A n \in Meters : Exists(n) /\ meters[n].by # None => meters[n].by \in Meters
    BY DEF Exists, TypeOK, Meter
  <2>6. SuccessorsSound'
    BY <1>0, <2>2, <2>3, <2>5 DEF SuccessorsSound, Exists
  <2> QED
    BY <2>4, <2>6 DEF IInv
<1>12. ASSUME NEW u \in Users, DeleteAccount(u) PROVE IInv'
  BY <1>1, <1>12 DEF DeleteAccount
<1>13. CASE UNCHANGED vars
  BY <1>1, <1>13 DEF vars
<1> QED
  BY <1>2, <1>3, <1>4, <1>5, <1>6, <1>7, <1>8, <1>9, <1>10, <1>11, <1>12, <1>13
  DEF Next, MemberStep, MeterStep, PropertyStep

(* A successor is there, is another meter and hangs on the same property:  *)
(* what an update checked before its write still holds when it is written, *)
(* because a meter never changes its property, ids are not reused, and the *)
(* database refuses a reference to a meter that is gone.                   *)
THEOREM SuccessorsAreSound == Spec => []SuccessorsSound
<1>1. IInv => SuccessorsSound
  BY DEF IInv
<1> QED
  BY <1>1, IInvInit, IInvStep, TypeCorrect, PTL DEF Spec

----------------------------------------------------------------------------
(* Administrators.                                                         *)

LEMMA GuardsInit == Init => GuardsHold
BY DEF Init, GuardsHold

(* The administrators of a property depend on its row of role alone.       *)
LEMMA SameAdmins ==
    ASSUME NEW p \in Properties, role'[p] = role[p]
    PROVE  AdminsOf(role', p) = AdminsOf(role, p)
BY DEF AdminsOf

(* A step that announces the properties whose members it changes keeps     *)
(* GuardsHold for the threads it does not serve.                           *)
LEMMA GuardsStay ==
    ASSUME TypeOK, GuardsHold, NEW ws \in SUBSET Workers, NEW ps \in SUBSET Properties,
           Moves(ws, ps),
           \A p \in Properties \ ps : role'[p] = role[p],
           \A w \in Workers \ ws : pc'[w] = pc[w] /\ job'[w] = job[w],
           \A w \in ws : pc'[w] \notin {"guard", "write"}
    PROVE  GuardsHold'
<1> SUFFICES ASSUME NEW w \in Workers, pc'[w] \in {"guard", "write"},
                    job'[w].prop \notin moved'[w]
             PROVE  /\ role'[job'[w].prop][job'[w].user] = job'[w].was
                    /\ pc'[w] = "write" /\ job'[w].role # "admin" =>
                          ~(job'[w].was = "admin"
                            /\ Cardinality(AdminsOf(role', job'[w].prop)) <= 1)
  BY DEF GuardsHold, IsLastAdmin
<1>1. w \in Workers \ ws /\ pc'[w] = pc[w] /\ job'[w] = job[w] /\ job[w] \in MemberJob
  BY DEF TypeOK
<1>2. job[w].prop \in Properties
  BY <1>1 DEF MemberJob
<1>3. moved'[w] = moved[w] \union ps
  BY <1>1 DEF Moves
<1>4. role'[job[w].prop] = role[job[w].prop] /\ job[w].prop \notin moved[w]
  BY <1>1, <1>2, <1>3
<1>5. AdminsOf(role', job[w].prop) = AdminsOf(role, job[w].prop)
  BY <1>2, <1>4, SameAdmins
<1> QED
  BY <1>1, <1>4, <1>5 DEF GuardsHold, IsLastAdmin

(* A step that changes no members, and puts no thread before its guard or  *)
(* its write, keeps GuardsHold.                                            *)
LEMMA GuardsStayAside ==
    ASSUME TypeOK, GuardsHold, UNCHANGED <<role, moved>>,
           \A w \in Workers : pc'[w] \in {"guard", "write"} => pc'[w] = pc[w] /\ job'[w] = job[w]
    PROVE  GuardsHold'
BY DEF GuardsHold, IsLastAdmin

LEMMA GuardsStep == TypeOK /\ GuardsHold /\ [Next]_vars => GuardsHold'
<1> SUFFICES ASSUME TypeOK, GuardsHold, [Next]_vars PROVE GuardsHold'
  OBVIOUS
<1>1. ASSUME NEW w \in Workers, NEW actor \in Users, NEW u \in Users, NEW p \in Properties,
             NEW r \in Roles \union {None}, MemberStart(w, actor, p, u, r)
      PROVE  GuardsHold'
  <2> DEFINE j == [prop |-> p, user |-> u, role |-> r, was |-> role[p][u]]
  <2>1. /\ pc' = [pc EXCEPT ![w] = "guard"] /\ job' = [job EXCEPT ![w] = j]
        /\ moved' = [moved EXCEPT ![w] = {}] /\ role' = role
    BY <1>1 DEF MemberStart, Begin
  <2>2. pc'[w] = "guard" /\ job'[w] = j
    BY <2>1 DEF TypeOK
  <2>3. \A v \in Workers \ {w} : pc'[v] = pc[v] /\ job'[v] = job[v] /\ moved'[v] = moved[v]
    BY <2>1 DEF TypeOK
  <2>4. j.prop = p /\ j.user = u /\ j.was = role[p][u]
    OBVIOUS
  <2> HIDE DEF j
  <2> QED
    BY <2>1, <2>2, <2>3, <2>4 DEF GuardsHold, IsLastAdmin
<1>2. ASSUME NEW w \in Workers, MemberGuard(w) PROVE GuardsHold'
  <2>1. CASE Respond(w)
    BY <1>2, <2>1, GuardsStayAside DEF MemberGuard, Respond, TypeOK
  <2>2. CASE ~Respond(w)
    <3>1. /\ ~(job[w].role # "admin" /\ IsLastAdmin(job[w].prop, job[w].was))
          /\ pc' = [pc EXCEPT ![w] = "write"] /\ pc[w] = "guard"
          /\ UNCHANGED <<job, role, moved>>
      BY <1>2, <2>2 DEF MemberGuard
    <3>2. \A v \in Workers : pc'[v] = IF v = w THEN "write" ELSE pc[v]
      BY <3>1 DEF TypeOK
    <3> QED
      BY <3>1, <3>2 DEF GuardsHold, IsLastAdmin
  <2> QED
    BY <2>1, <2>2
<1>3. ASSUME NEW w \in Workers, MemberWrite(w) PROVE GuardsHold'
  <2>1. job[w] \in MemberJob /\ job[w].prop \in Properties /\ job[w].user \in Users
    BY <1>3 DEF MemberWrite, TypeOK, MemberJob
  <2>2. /\ \A v \in Workers \ {w} : pc'[v] = pc[v] /\ job'[v] = job[v]
        /\ pc'[w] = "idle"
    BY <1>3 DEF MemberWrite, Respond, TypeOK
  <2>3. CASE Writable(w)
    <3>1. role' = [role EXCEPT ![job[w].prop][job[w].user] = job[w].role]
          /\ Moves({w}, {job[w].prop})
      BY <1>3, <2>3 DEF MemberWrite
    <3>2. \A p \in Properties \ {job[w].prop} : role'[p] = role[p]
      BY <2>1, <3>1 DEF TypeOK
    <3>3. {w} \in SUBSET Workers /\ {job[w].prop} \in SUBSET Properties
      BY <2>1
    <3>4. \A v \in {w} : pc'[v] \notin {"guard", "write"}
      BY <2>2
    <3> QED
      BY <2>2, <3>1, <3>2, <3>3, <3>4, GuardsStay
  <2>4. CASE ~Writable(w)
    <3>1. UNCHANGED <<role, moved>>
      BY <1>3, <2>4 DEF MemberWrite
    <3> QED
      BY <2>2, <3>1, GuardsStayAside
  <2> QED
    BY <2>3, <2>4
<1>4. ASSUME NEW actor \in Users, NEW p \in Properties, NEW m \in Meters, CreateMeter(actor, p, m)
      PROVE  GuardsHold'
  BY <1>4, GuardsStayAside DEF CreateMeter
<1>5. ASSUME NEW w \in Workers, NEW actor \in Users, NEW m \in Meters, NEW replace \in BOOLEAN,
             NEW by \in Meters \union {None, "keep"}, UpdateStart(w, actor, m, replace, by)
      PROVE  GuardsHold'
  BY <1>5, GuardsStayAside DEF UpdateStart, Begin, TypeOK
<1>6. ASSUME NEW w \in Workers, NEW actor \in Users, NEW m \in Meters, DeleteStart(w, actor, m)
      PROVE  GuardsHold'
  BY <1>6, GuardsStayAside DEF DeleteStart, Begin, TypeOK
<1>7. ASSUME NEW w \in Workers, UpdateFlush(w) \/ DeleteFlush(w) PROVE GuardsHold'
  BY <1>7, GuardsStayAside DEF UpdateFlush, DeleteFlush, Respond, TypeOK
<1>8. ASSUME NEW p \in Properties, CreateProperty(p) PROVE GuardsHold'
  BY <1>8, GuardsStayAside DEF CreateProperty
<1>9. ASSUME NEW p \in Properties, DeleteProperty(p) PROVE GuardsHold'
  <2>1. /\ role' = [role EXCEPT ![p] = [u \in Users |-> None]] /\ Moves({}, {p})
        /\ pc' = pc /\ job' = job
    BY <1>9 DEF DeleteProperty
  <2>2. \A q \in Properties \ {p} : role'[q] = role[q]
    BY <2>1 DEF TypeOK
  <2>3. {} \in SUBSET Workers /\ {p} \in SUBSET Properties
    OBVIOUS
  <2> QED
    BY <2>1, <2>2, <2>3, GuardsStay
<1>10. ASSUME NEW u \in Users, DeleteAccount(u) PROVE GuardsHold'
  <2> DEFINE ps == {p \in Properties : role[p][u] # None}
  <2>1. /\ role' = [p \in Properties |-> [role[p] EXCEPT ![u] = None]] /\ Moves({}, ps)
        /\ pc' = pc /\ job' = job
    BY <1>10 DEF DeleteAccount
  <2>2. ASSUME NEW q \in Properties, q \notin ps
        PROVE  role'[q] = role[q]
    <3>1. role[q][u] = None /\ role[q] \in [Users -> PropertyUserRole \union {None}]
      BY <2>2 DEF TypeOK
    <3> QED
      BY <2>1, <3>1
  <2>3. {} \in SUBSET Workers /\ ps \in SUBSET Properties
    OBVIOUS
  <2> HIDE DEF ps
  <2>4. \A q \in Properties \ ps : role'[q] = role[q]
    BY <2>2
  <2> QED
    BY <2>1, <2>3, <2>4, GuardsStay
<1>11. CASE UNCHANGED vars
  BY <1>11, GuardsStayAside DEF vars
<1> QED
  BY <1>1, <1>2, <1>3, <1>4, <1>5, <1>6, <1>7, <1>8, <1>9, <1>10, <1>11
  DEF Next, MemberStep, MeterStep, PropertyStep

(* A member request that takes the last administrator of a property saw    *)
(* its members change under it.                                            *)
LEMMA LastAdminStep ==
    ASSUME TypeOK, GuardsHold, NEW w \in Workers, MemberWrite(w), NEW p \in Properties,
           AdminsOf(role, p) # {}, AdminsOf(role', p) = {}
    PROVE  p \in moved[w]
<1> DEFINE j == job[w]
<1>1. j \in MemberJob /\ j.prop \in Properties /\ j.user \in Users /\ pc[w] = "write"
  BY DEF MemberWrite, TypeOK, MemberJob
<1>2. role' # role
  OBVIOUS
<1>3. Writable(w) /\ role' = [role EXCEPT ![j.prop][j.user] = j.role]
  BY <1>2 DEF MemberWrite
<1> HIDE DEF j
<1>4. p = j.prop
  <2>1. ASSUME p # j.prop PROVE role'[p] = role[p]
    BY <1>1, <1>3, <2>1 DEF TypeOK
  <2> QED
    BY <2>1, SameAdmins
<1>5. role'[p] = [role[p] EXCEPT ![j.user] = j.role] /\ role[p] \in [Users -> PropertyUserRole \union {None}]
  BY <1>1, <1>3, <1>4 DEF TypeOK
<1>6. j.role # "admin"
  BY <1>1, <1>5 DEF AdminsOf
<1>7. \A u \in Users \ {j.user} : role[p][u] # "admin"
  BY <1>1, <1>5 DEF AdminsOf
<1>8. AdminsOf(role, p) = {j.user} /\ role[p][j.user] = "admin"
  BY <1>1, <1>7 DEF AdminsOf
<1>9. Cardinality(AdminsOf(role, p)) = 1
  BY <1>8, FS_Singleton
<1>10. ASSUME p \notin moved[w] PROVE FALSE
  <2>1. pc[w] = "write" /\ job[w].prop = p /\ job[w].role # "admin" /\ job[w].user = j.user
    BY <1>1, <1>4, <1>6 DEF j
  <2>2. role[p][j.user] = job[w].was
    BY <1>10, <2>1 DEF GuardsHold
  <2>3. ~IsLastAdmin(p, job[w].was)
    BY <1>10, <2>1 DEF GuardsHold
  <2> QED
    BY <1>8, <1>9, <2>2, <2>3 DEF IsLastAdmin
<1> QED
  BY <1>10

(* The guard of the last administrator holds unless another change of the  *)
(* property's members slips in between: without one, the row and the count *)
(* the guard used are still those the write meets.                         *)
THEOREM LastAdminIsGuarded == Spec => LastAdminGuarded
<1>1. TypeOK /\ GuardsHold /\ [Next]_vars
      => [\A w \in Workers : MemberWrite(w) =>
            \A p \in Properties :
                AdminsOf(role, p) # {} /\ AdminsOf(role', p) = {} => p \in moved[w]]_vars
  BY LastAdminStep
<1> QED
  BY <1>1, GuardsInit, GuardsStep, TypeCorrect, PTL DEF Spec, LastAdminGuarded

----------------------------------------------------------------------------
(* Replaced meters.                                                        *)

LEMMA ReplacedStep ==
    ASSUME TypeOK, Next, NEW n \in Meters, Exists(n), meters[n].replaced, meters'[n] # None
    PROVE  meters'[n].replaced
<1>1. ASSUME meters'[n] = meters[n] PROVE meters'[n].replaced
  BY <1>1
<1>2. ASSUME NEW actor \in Users, NEW p \in Properties, NEW m \in Meters, CreateMeter(actor, p, m)
      PROVE  meters'[n] = meters[n]
  BY <1>2 DEF CreateMeter, TypeOK, Exists
<1>3. ASSUME NEW w \in Workers, UpdateFlush(w) PROVE meters'[n].replaced
  <2>1. job[w].meter \in Meters
    BY <1>3 DEF UpdateFlush, TypeOK, MeterJob
  <2>2. CASE Flushable(job[w]) /\ n = job[w].meter
    <3>1. meters'[n] = Updated(meters[n], job[w])
      BY <1>3, <2>2 DEF UpdateFlush, TypeOK
    <3>2. Updated(meters[n], job[w]).replaced = (meters[n].replaced \/ job[w].replace)
      BY DEF Updated
    <3>3. meters[n].replaced \/ job[w].replace
      OBVIOUS
    <3>4. Updated(meters[n], job[w]).replaced
      BY <3>2, <3>3, Zenon
    <3> QED
      BY <3>1, <3>4
  <2>3. CASE ~(Flushable(job[w]) /\ n = job[w].meter)
    BY <1>3, <2>1, <2>3 DEF UpdateFlush, TypeOK
  <2> QED
    BY <2>2, <2>3
<1>4. ASSUME NEW w \in Workers, DeleteFlush(w) PROVE meters'[n] = meters[n]
  BY <1>4 DEF DeleteFlush, TypeOK
<1>5. ASSUME NEW p \in Properties, DeleteProperty(p) PROVE meters'[n] = meters[n]
  BY <1>5 DEF DeleteProperty
<1>6. MemberStep \/ (\E p \in Properties : CreateProperty(p)) \/ (\E u \in Users : DeleteAccount(u))
      => meters' = meters
  BY DEF MemberStep, MemberStart, MemberGuard, MemberWrite, CreateProperty, DeleteAccount
<1>7. ASSUME NEW w \in Workers, NEW actor \in Users, NEW m \in Meters,
             \/ DeleteStart(w, actor, m)
             \/ \E replace \in BOOLEAN, by \in Meters \union {None, "keep"} :
                   UpdateStart(w, actor, m, replace, by)
      PROVE  meters' = meters
  BY <1>7 DEF UpdateStart, DeleteStart
<1> QED
  BY <1>1, <1>2, <1>3, <1>4, <1>5, <1>6, <1>7 DEF Next, MeterStep, PropertyStep

(* No interleaving of updates brings a replaced meter back into service:   *)
(* a write only ever adds a date of replacement.                           *)
THEOREM ReplacementIsFinal == Spec => ReplacedForGood
<1>1. TypeOK /\ [Next]_vars
      => [\A m \in Meters : Exists(m) /\ meters[m].replaced /\ meters'[m] # None
            => meters'[m].replaced]_vars
  BY ReplacedStep
<1> QED
  BY <1>1, TypeCorrect, PTL DEF Spec, ReplacedForGood

============================================================================
