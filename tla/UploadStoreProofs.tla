------------------------- MODULE UploadStoreProofs -------------------------
(***************************************************************************)
(* For any accounts, properties, files, threads and bounds: UploadStore    *)
(* keeps its types, one reading per image and meter, evidence inside its   *)
(* tenant, unlinks nothing from under a reading that was there when the    *)
(* remover looked, and leaves nothing of failed scans and of deletions.    *)
(***************************************************************************)
EXTENDS UploadStore, TLAPS

(* What the program counter of a thread says about its job. *)
JobShape ==
    \A w \in Workers :
        /\ pc[w] \in ScanPc => job[w].user \in Users /\ job[w].image \in Files
        /\ pc[w] \in {"scanSerialRegister", "scanSerialOcr"} => job[w].serial \in Files
        /\ pc[w] \in CreatePc => job[w].user \in Users /\ job[w].meter \in Meters
        /\ pc[w] \in DeletePc => job[w].rid \in 1..MaxReadings
        /\ pc[w] \in {"deleteUnlink", "deleteUnregister"} => left[w] # <<>>

TypeInv == TypeOK /\ JobShape

(* Ids are handed out in order, and whoever looked, looked in the past. *)
IdsInOrder ==
    /\ \A id \in DOMAIN readings : Exists(id) => id < nextId
    /\ \A w \in Workers : asOf[w] <= nextId
    /\ cleaner.asOf <= nextId

(* A registration is remembered; a create in flight has been authorised by *)
(* one.                                                                    *)
RegistryRecorded == \A f \in Files : registry[f] # None => registry[f] \in origin[f]

CreatesAuthorised ==
    \A w \in Workers : pc[w] \in CreatePc =>
        \A f \in Paths(job[w]) : \E row \in origin[f] :
            MayAttach(row, job[w].user, PropertyOf[job[w].meter])

Evidence == RegistryRecorded /\ CreatesAuthorised /\ EvidenceOwned

----------------------------------------------------------------------------
USE StoreAssumption

LEMMA PathsOfJob == \A q \in Job : Paths(q) \subseteq Files
BY DEF Paths, Job

LEMMA TypeInit == Init => TypeInv
BY DEF Init, TypeInv, TypeOK, JobShape, NoJob, Job, Pc, ScanPc, CreatePc, DeletePc, CleanerIdle

LEMMA RespondTypes ==
    ASSUME TypeInv, NEW w \in Workers, Respond(w)
    PROVE  /\ pc' \in [Workers -> Pc] /\ job' \in [Workers -> Job]
           /\ hash' \in [Workers -> Images \union {None}] /\ left' \in [Workers -> Seq(Files)]
           /\ asOf' \in [Workers -> Nat] /\ JobShape'
BY DEF Respond, TypeInv, TypeOK, JobShape, NoJob, Job, Pc, ScanPc, CreatePc, DeletePc

LEMMA RegisterTypes ==
    ASSUME TypeInv, NEW w \in Workers, pc[w] \in ScanPc, NEW f \in Files, Register(w, f)
    PROVE  /\ registry' \in [Files -> Registration \union {None}]
           /\ origin' \in [Files -> SUBSET Registration]
<1>1. job[w] \in Job /\ job[w].user \in Users
  BY DEF TypeInv, TypeOK, JobShape
<1>2. [prop |-> ScanProperty(w), owner |-> job[w].user] \in Registration
  BY <1>1 DEF ScanProperty, Job, Registration
<1> QED
  BY <1>2 DEF Register, TypeInv, TypeOK

LEMMA TypeScan ==
    ASSUME TypeInv, NEW w \in Workers,
           ScanStep(w) \/ (\E q \in ScanRequests : ScanStore(w, q) \/ ScanStoreFails(w, q))
    PROVE  TypeInv'
<1> USE DEF Pc, ScanPc, CreatePc, DeletePc, tables, threads, history
<1>0. ASSUME NEW q \in ScanRequests, ScanStoreFails(w, q) PROVE TypeInv'
  BY <1>0 DEF ScanStoreFails, TypeInv, TypeOK, JobShape
<1>1. ASSUME NEW q \in ScanRequests, ScanStore(w, q) PROVE TypeInv'
  BY <1>1 DEF ScanStore, MayScan, Accept, Goto, TypeInv, TypeOK, JobShape, Job
<1>2. CASE ScanRegister(w)
  <2>1. job[w].image \in Files
    BY <1>2 DEF ScanRegister, TypeInv, JobShape
  <2>2. CASE Register(w, job[w].image) /\ Goto(w, "scanOcr") /\ UNCHANGED <<job, hash, left, asOf, spilled>>
    BY <1>2, <2>1, <2>2, RegisterTypes DEF ScanRegister, Goto, TypeInv, TypeOK, JobShape
  <2>3. CASE /\ spilled' = spilled \union {job[w].image}
             /\ Respond(w) /\ UNCHANGED <<registry, origin>>
    BY <1>2, <2>1, <2>3, RespondTypes DEF ScanRegister, TypeInv, TypeOK
  <2> QED
    BY <1>2, <2>2, <2>3 DEF ScanRegister
<1>3. CASE ScanOcr(w)
  <2>1. CASE job[w].serial = None
    <3>1. job[w].image \in Files /\ Respond(w) /\ published' = published \union {job[w].image}
      BY <1>3, <2>1 DEF ScanOcr, TypeInv, JobShape
    <3> QED
      BY <1>3, <2>1, <3>1, RespondTypes DEF ScanOcr, TypeInv, TypeOK
  <2>2. CASE job[w].serial # None
    <3>1. job[w].serial \in Files
      BY <2>2 DEF TypeInv, TypeOK, Job
    <3>2. /\ disk' = [disk EXCEPT ![job[w].serial] = "fresh"] /\ pc[w] = "scanOcr"
          /\ \/ pc' = [pc EXCEPT ![w] = "scanSerialRegister"] /\ UNCHANGED <<job, spilled>>
             \/ /\ spilled' = spilled \union {job[w].serial}
                /\ job' = [job EXCEPT ![w].serial = None]
                /\ pc' = [pc EXCEPT ![w] = "scanUnlink"]
          /\ UNCHANGED <<tables, published, hash, left, asOf, cleaner, crashes, origin, attached, stray>>
      BY <1>3, <2>2 DEF ScanOcr, Goto
    <3>3. job' \in [Workers -> Job] /\ job'[w].user = job[w].user /\ job'[w].image = job[w].image
          /\ \A v \in Workers : v # w => job'[v] = job[v]
      <4>1. [job[w] EXCEPT !.serial = None] \in Job
        <5>1. job[w] \in Job
          BY DEF TypeInv, TypeOK
        <5> QED
          BY <5>1 DEF Job
      <4>2. CASE job' = job
        BY <4>2 DEF TypeInv, TypeOK
      <4>3. CASE job' = [job EXCEPT ![w].serial = None]
        <5>1. job' = [job EXCEPT ![w] = [job[w] EXCEPT !.serial = None]]
          BY <4>3
        <5>2. job \in [Workers -> Job] /\ job'[w] = [job[w] EXCEPT !.serial = None]
          BY <5>1 DEF TypeInv, TypeOK
        <5>3. job'[w].user = job[w].user /\ job'[w].image = job[w].image
          BY <5>2 DEF Job
        <5> QED
          BY <4>1, <5>1, <5>2, <5>3
      <4> QED
        BY <3>2, <4>2, <4>3
    <3>4. TypeOK'
      BY <3>1, <3>2, <3>3 DEF TypeInv, TypeOK
    <3>5. JobShape'
      BY <3>1, <3>2, <3>3 DEF TypeInv, TypeOK, JobShape
    <3> QED
      BY <3>4, <3>5 DEF TypeInv
  <2> QED
    BY <2>1, <2>2
<1>4. CASE ScanSerialRegister(w)
  <2>1. CASE /\ Register(w, job[w].serial)
             /\ pc' = [pc EXCEPT ![w] = "scanSerialOcr"]
    <3>1. job[w].serial \in Files
      BY <1>4 DEF ScanSerialRegister, TypeInv, JobShape
    <3>2. /\ pc[w] = "scanSerialRegister"
          /\ UNCHANGED <<props, meters, readings, nextId, disk, published, job, hash, left, asOf,
                         cleaner, crashes, attached, spilled, stray>>
      BY <1>4 DEF ScanSerialRegister
    <3>3. /\ registry' \in [Files -> Registration \union {None}]
          /\ origin' \in [Files -> SUBSET Registration]
      BY <2>1, <3>1, <3>2, RegisterTypes
    <3>4. TypeOK'
      BY <2>1, <3>2, <3>3 DEF TypeInv, TypeOK
    <3>5. JobShape'
      BY <2>1, <3>1, <3>2 DEF TypeInv, TypeOK, JobShape
    <3> QED
      BY <3>4, <3>5 DEF TypeInv
  <2>2. CASE Goto(w, "scanUnlink") /\ UNCHANGED <<registry, origin>>
    BY ZenonT(40), <1>4, <2>2 DEF ScanSerialRegister, Goto, TypeInv, TypeOK, JobShape
  <2> QED
    BY <1>4, <2>1, <2>2 DEF ScanSerialRegister, Goto
<1>5. CASE ScanDone(w)
  BY <1>5, RespondTypes DEF ScanDone, TypeInv, TypeOK, JobShape
<1>6. CASE ScanFail(w)
  BY <1>6 DEF ScanFail, Goto, TypeInv, TypeOK, JobShape, Job
<1>7. CASE ScanUnlink(w)
  <2>1. disk' \in [Files -> {"unused", "fresh", "old", "removed"}] /\ spilled' \subseteq Files
    <3>1. Paths(job[w]) \subseteq Files
      BY PathsOfJob DEF TypeInv, TypeOK
    <3> QED
      BY <1>7, <3>1 DEF ScanUnlink, TypeInv, TypeOK
  <2> QED
    BY <1>7, <2>1 DEF ScanUnlink, Goto, TypeInv, TypeOK, JobShape
<1>8. CASE ScanUnregister(w)
  <2>1. registry' \in [Files -> Registration \union {None}] /\ stray' \subseteq Files
    <3>1. Paths(job[w]) \subseteq Files
      BY PathsOfJob DEF TypeInv, TypeOK
    <3> QED
      BY <1>8, <3>1 DEF ScanUnregister, TypeInv, TypeOK
  <2> QED
    BY <1>8, <2>1, RespondTypes DEF ScanUnregister, TypeInv, TypeOK
<1> QED
  BY <1>0, <1>1, <1>2, <1>3, <1>4, <1>5, <1>6, <1>7, <1>8 DEF ScanStep

LEMMA TypeCreate ==
    ASSUME TypeInv, NEW w \in Workers,
           CreateStep(w) \/ (\E q \in CreateRequests : CreateStart(w, q))
    PROVE  TypeInv'
<1> USE DEF Pc, ScanPc, CreatePc, DeletePc, tables, threads, history
<1>1. ASSUME NEW q \in CreateRequests, CreateStart(w, q) PROVE TypeInv'
  BY <1>1 DEF CreateStart, Accept, Goto, TypeInv, TypeOK, JobShape, Job
<1>2. CASE CreateHash(w)
  BY <1>2 DEF CreateHash, Goto, TypeInv, TypeOK, JobShape, Job
<1>3. CASE CreateCheck(w)
  <2>1. CASE Respond(w)
    BY <1>3, <2>1, RespondTypes DEF CreateCheck, TypeInv, TypeOK
  <2>2. CASE Goto(w, "createInsert") /\ UNCHANGED <<job, hash, left, asOf>>
    BY <1>3, <2>2 DEF CreateCheck, Goto, TypeInv, TypeOK, JobShape
  <2> QED
    BY <1>3, <2>1, <2>2 DEF CreateCheck
<1>4. CASE CreateInsert(w)
  <2>1. job[w] \in Job /\ job[w].user \in Users /\ job[w].meter \in Meters
    BY <1>4 DEF CreateInsert, TypeInv, TypeOK, JobShape
  <2>2. [meter |-> job[w].meter, image |-> job[w].image, serial |-> job[w].serial,
         hash |-> hash[w], by |-> job[w].user] \in Reading
    BY <2>1 DEF TypeInv, TypeOK, Job, Reading
  <2>3. readings' \in [1..MaxReadings -> Reading \union {None}]
    BY <1>4, <2>2 DEF CreateInsert, TypeInv, TypeOK
  <2>5. nextId' \in 1..(MaxReadings + 1)
    BY <1>4 DEF CreateInsert, TypeInv, TypeOK
  <2>4. attached' \subseteq Files
    BY <1>4, <2>1, PathsOfJob DEF CreateInsert, TypeInv, TypeOK
  <2> QED
    BY <1>4, <2>3, <2>4, <2>5, RespondTypes DEF CreateInsert, TypeInv, TypeOK
<1> QED
  BY <1>1, <1>2, <1>3, <1>4 DEF CreateStep

LEMMA TypeDelete ==
    ASSUME TypeInv, NEW w \in Workers,
           DeleteStep(w) \/ (\E u \in Users, id \in 1..MaxReadings : DeleteStart(w, u, id))
    PROVE  TypeInv'
<1> USE DEF Pc, ScanPc, CreatePc, DeletePc, tables, threads, history
<1>1. ASSUME NEW u \in Users, NEW id \in 1..MaxReadings, DeleteStart(w, u, id) PROVE TypeInv'
  <2>1. readings[id] \in Reading
    BY <1>1 DEF DeleteStart, Exists, TypeInv, TypeOK
  <2>2. [user |-> u, meter |-> readings[id].meter, image |-> readings[id].image,
         serial |-> readings[id].serial, rid |-> id] \in Job
    BY <2>1 DEF Reading, Job
  <2> QED
    BY <1>1, <2>2 DEF DeleteStart, Accept, Goto, TypeInv, TypeOK, JobShape
<1>2. CASE DeleteRow(w)
  <2>1. PathList(job[w]) \in Seq(Files)
    <3>1. job[w].image \in Files \union {None} /\ job[w].serial \in Files \union {None}
      BY DEF TypeInv, TypeOK, Job
    <3>2. \A f \in Files : <<f>> \in Seq(Files)
      OBVIOUS
    <3>3. /\ (IF job[w].image = None THEN <<>> ELSE <<job[w].image>>) \in Seq(Files)
          /\ (IF job[w].serial = None THEN <<>> ELSE <<job[w].serial>>) \in Seq(Files)
      BY <3>1, <3>2
    <3> QED
      BY <3>3 DEF PathList
  <2> QED
    BY <1>2, <2>1 DEF DeleteRow, Goto, TypeInv, TypeOK, JobShape
<1>3. CASE DeleteCheck(w)
  <2>1. CASE left[w] = <<>>
    BY <1>3, <2>1, RespondTypes DEF DeleteCheck, TypeInv, TypeOK
  <2>2. CASE left[w] # <<>> /\ Referenced(Head(left[w]))
    <3>1. left' \in [Workers -> Seq(Files)]
      <4>1. left[w] \in Seq(Files) /\ Tail(left[w]) \in Seq(Files)
        BY <2>2 DEF TypeInv, TypeOK
      <4>2. left' = [left EXCEPT ![w] = Tail(left[w])]
        BY <1>3, <2>2 DEF DeleteCheck
      <4> QED
        BY <4>1, <4>2 DEF TypeInv, TypeOK
    <3> QED
      BY <1>3, <2>2, <3>1 DEF DeleteCheck, TypeInv, TypeOK, JobShape
  <2>3. CASE left[w] # <<>> /\ ~Referenced(Head(left[w]))
    <3>1. /\ asOf' = [asOf EXCEPT ![w] = nextId]
          /\ pc' = [pc EXCEPT ![w] = "deleteUnlink"] /\ pc[w] = "deleteCheck"
          /\ UNCHANGED <<tables, disk, published, job, hash, left, cleaner, crashes, history>>
      BY <1>3, <2>3 DEF DeleteCheck, Goto
    <3>2. TypeOK'
      BY <3>1 DEF TypeInv, TypeOK
    <3>3. JobShape'
      BY <2>3, <3>1 DEF TypeInv, TypeOK, JobShape
    <3> QED
      BY <3>2, <3>3 DEF TypeInv
  <2> QED
    BY <2>1, <2>2, <2>3
<1>4. CASE DeleteUnlink(w)
  BY <1>4 DEF DeleteUnlink, Goto, TypeInv, TypeOK, JobShape
<1>5. CASE DeleteUnregister(w)
  BY <1>5 DEF DeleteUnregister, Goto, TypeInv, TypeOK, JobShape
<1> QED
  BY <1>1, <1>2, <1>3, <1>4, <1>5 DEF DeleteStep

LEMMA TypeRest ==
    ASSUME TypeInv,
           \/ CleanerStep \/ Crash
           \/ \E f \in Files : GraceElapses(f)
           \/ \E m \in Meters : DeleteMeter(m)
           \/ \E p \in Properties : DeleteProperty(p)
    PROVE  TypeInv'
<1> USE DEF Pc, ScanPc, CreatePc, DeletePc, tables, threads, history
<1>1. CASE CleanerStep
  <2>1. CASE CleanerStart
    BY <2>1 DEF CleanerStart, TypeInv, TypeOK, JobShape
  <2>2. CASE CleanerEnd
    BY <2>2 DEF CleanerEnd, CleanerIdle, TypeInv, TypeOK, JobShape
  <2>3. ASSUME NEW f \in Files, CleanerVisit(f) PROVE TypeInv'
    <3>1. disk' \in [Files -> {"unused", "fresh", "old", "removed"}]
      BY <2>3 DEF CleanerVisit, TypeInv, TypeOK
    <3>2. cleaner' \in [on : BOOLEAN, kept : SUBSET Files, young : SUBSET Files,
                        todo : SUBSET Files, asOf : Nat]
      <4>1. CASE cleaner' = [cleaner EXCEPT !.todo = @ \ {f}]
        BY <4>1 DEF TypeInv, TypeOK
      <4>2. CASE cleaner' = CleanerIdle
        BY <4>2 DEF CleanerIdle
      <4> QED
        BY <2>3, <4>1, <4>2 DEF CleanerVisit
    <3>3. UNCHANGED <<tables, published, threads, crashes, history>>
      BY <2>3 DEF CleanerVisit
    <3> QED
      BY <3>1, <3>2, <3>3 DEF TypeInv, TypeOK, JobShape
  <2> QED
    BY <1>1, <2>1, <2>2, <2>3 DEF CleanerStep
<1>2. CASE Crash
  BY <1>2 DEF Crash, CleanerIdle, NoJob, Job, TypeInv, TypeOK, JobShape
<1>3. ASSUME NEW f \in Files, GraceElapses(f) PROVE TypeInv'
  BY <1>3 DEF GraceElapses, TypeInv, TypeOK, JobShape
<1>4. ASSUME NEW m \in Meters, DeleteMeter(m) PROVE TypeInv'
  BY <1>4 DEF DeleteMeter, WithoutMeters, TypeInv, TypeOK, JobShape
<1>5. ASSUME NEW p \in Properties, DeleteProperty(p) PROVE TypeInv'
  BY <1>5 DEF DeleteProperty, WithoutMeters, TypeInv, TypeOK, JobShape
<1> QED
  BY <1>1, <1>2, <1>3, <1>4, <1>5

LEMMA TypeStep == TypeInv /\ [Next]_vars => TypeInv'
<1> SUFFICES ASSUME TypeInv, [Next]_vars PROVE TypeInv'
  OBVIOUS
<1>1. CASE UNCHANGED vars
  BY <1>1 DEF vars, tables, threads, history, TypeInv, TypeOK, JobShape
<1>2. CASE Next
  BY <1>2, TypeScan, TypeCreate, TypeDelete, TypeRest DEF Next
<1> QED
  BY <1>1, <1>2

(* Every reachable state is well typed, for every instance. *)
THEOREM TypeCorrect == Spec => []TypeOK
<1>1. Spec => []TypeInv
  BY TypeInit, TypeStep, PTL DEF Spec
<1> QED
  BY <1>1, PTL DEF TypeInv

----------------------------------------------------------------------------
(* What one step can do to the rows of readings: nothing, remove rows, or  *)
(* insert the one a create in flight has carried to its end.               *)
Inserts(w) ==
    /\ pc[w] = "createInsert"
    /\ IndexAllows(job[w].meter, hash[w])
    /\ readings' = [readings EXCEPT ![nextId] =
            [meter |-> job[w].meter, image |-> job[w].image, serial |-> job[w].serial,
             hash |-> hash[w], by |-> job[w].user]]
    /\ nextId' = nextId + 1

OnlyRemoves ==
    /\ DOMAIN readings' = DOMAIN readings
    /\ \A id \in DOMAIN readings : readings'[id] \in {readings[id], None}
    /\ nextId' = nextId

LEMMA ReadingsStep ==
    ASSUME TypeInv, [Next]_vars
    PROVE  OnlyRemoves \/ \E w \in Workers : Inserts(w)
<1> USE DEF OnlyRemoves, tables, threads, history
<1>1. CASE UNCHANGED vars
  BY <1>1 DEF vars
<1>2. ASSUME NEW w \in Workers, ScanStep(w) \/ \E q \in ScanRequests : ScanStore(w, q) \/ ScanStoreFails(w, q)
      PROVE  OnlyRemoves
  BY <1>2 DEF ScanStep, ScanStore, ScanStoreFails, ScanRegister, ScanOcr, ScanSerialRegister, ScanDone,
              ScanFail, ScanUnlink, ScanUnregister
<1>3. ASSUME NEW w \in Workers, CreateStep(w) \/ \E q \in CreateRequests : CreateStart(w, q)
      PROVE  OnlyRemoves \/ Inserts(w)
  BY <1>3 DEF CreateStep, CreateStart, CreateHash, CreateCheck, CreateInsert, Inserts
<1>4. ASSUME NEW w \in Workers,
             DeleteStep(w) \/ \E u \in Users, id \in 1..MaxReadings : DeleteStart(w, u, id)
      PROVE  OnlyRemoves
  <2>1. CASE DeleteRow(w)
    BY <2>1 DEF DeleteRow, TypeInv, TypeOK
  <2> QED
    BY <1>4, <2>1 DEF DeleteStep, DeleteStart, DeleteCheck, DeleteUnlink, DeleteUnregister
<1>5. CASE CleanerStep \/ Crash \/ \E f \in Files : GraceElapses(f)
  BY <1>5 DEF CleanerStep, CleanerStart, CleanerVisit, CleanerEnd, Crash, GraceElapses
<1>6. CASE (\E m \in Meters : DeleteMeter(m)) \/ \E p \in Properties : DeleteProperty(p)
  BY <1>6 DEF DeleteMeter, DeleteProperty, WithoutMeters
<1> QED
  BY <1>1, <1>2, <1>3, <1>4, <1>5, <1>6 DEF Next

(* The unique index keeps one reading per image and meter.                 *)
LEMMA UniqueStep ==
    ASSUME TypeInv, UniqueImagePerMeter, [Next]_vars
    PROVE  UniqueImagePerMeter'
<1>1. CASE OnlyRemoves
  BY <1>1 DEF OnlyRemoves, UniqueImagePerMeter, Exists
<1>2. ASSUME NEW w \in Workers, Inserts(w) PROVE UniqueImagePerMeter'
  <2>1. SUFFICES ASSUME NEW i \in DOMAIN readings', NEW j \in DOMAIN readings',
                        Exists(i)', Exists(j)', readings'[i].hash # None,
                        readings'[i].meter = readings'[j].meter,
                        readings'[i].hash = readings'[j].hash
                 PROVE  i = j
    BY DEF UniqueImagePerMeter
  <2>2. DOMAIN readings' = DOMAIN readings
    BY <1>2 DEF Inserts
  <2>3. CASE i # nextId /\ j # nextId
    BY <1>2, <2>1, <2>2, <2>3 DEF Inserts, UniqueImagePerMeter, Exists
  <2>4. CASE i = nextId /\ j # nextId
    BY <1>2, <2>1, <2>2, <2>4 DEF Inserts, IndexAllows, Exists
  <2>5. CASE i # nextId /\ j = nextId
    BY <1>2, <2>1, <2>2, <2>5 DEF Inserts, IndexAllows, Exists
  <2> QED
    BY <2>3, <2>4, <2>5
<1> QED
  BY <1>1, <1>2, ReadingsStep

(* No two readings of a meter carry the same image (F-022). *)
THEOREM UniqueImages == Spec => []UniqueImagePerMeter
<1>1. Init => UniqueImagePerMeter
  BY DEF Init, UniqueImagePerMeter, Exists
<1>2. TypeInv /\ UniqueImagePerMeter /\ [Next]_vars => UniqueImagePerMeter'
  BY UniqueStep
<1> QED
  BY <1>1, <1>2, TypeInit, TypeStep, PTL DEF Spec

----------------------------------------------------------------------------
(* Registrations are only added to a file's history, and each row that is  *)
(* in the registry is in that history.                                     *)
LEMMA RegistryStep ==
    ASSUME TypeInv, RegistryRecorded, [Next]_vars
    PROVE  /\ \A f \in Files : origin[f] \subseteq origin'[f]
           /\ RegistryRecorded'
<1> USE DEF tables, threads, history, RegistryRecorded
<1>1. CASE UNCHANGED vars
  BY <1>1 DEF vars
<1>2. ASSUME NEW w \in Workers, NEW f \in Files, Register(w, f)
      PROVE  (\A g \in Files : origin[g] \subseteq origin'[g]) /\ RegistryRecorded'
  BY <1>2 DEF Register, TypeInv, TypeOK
<1>3. ASSUME NEW w \in Workers, ScanRegister(w) \/ ScanSerialRegister(w)
      PROVE  (\A g \in Files : origin[g] \subseteq origin'[g]) /\ RegistryRecorded'
  <2>1. CASE ScanRegister(w) /\ CanRegister(w)
    BY <1>2, <2>1 DEF ScanRegister, TypeInv, JobShape, ScanPc
  <2>2. CASE ScanSerialRegister(w) /\ CanRegister(w)
    BY <1>2, <2>2 DEF ScanSerialRegister, TypeInv, JobShape
  <2> QED
    BY <1>3, <2>1, <2>2 DEF ScanRegister, ScanSerialRegister
<1>4. ASSUME NEW w \in Workers,
             ScanStep(w) \/ \E q \in ScanRequests : ScanStore(w, q) \/ ScanStoreFails(w, q)
      PROVE  (\A g \in Files : origin[g] \subseteq origin'[g]) /\ RegistryRecorded'
  BY <1>3, <1>4 DEF ScanStep, ScanStore, ScanStoreFails, ScanOcr, ScanDone, ScanFail, ScanUnlink,
                    ScanUnregister
<1>5. ASSUME NEW w \in Workers, CreateStep(w) \/ \E q \in CreateRequests : CreateStart(w, q)
      PROVE  UNCHANGED <<registry, origin>>
  BY <1>5 DEF CreateStep, CreateStart, CreateHash, CreateCheck, CreateInsert
<1>6. ASSUME NEW w \in Workers,
             DeleteStep(w) \/ \E u \in Users, id \in 1..MaxReadings : DeleteStart(w, u, id)
      PROVE  (\A g \in Files : origin[g] \subseteq origin'[g]) /\ RegistryRecorded'
  <2>1. CASE DeleteUnregister(w)
    BY <2>1 DEF DeleteUnregister, TypeInv, TypeOK
  <2> QED
    BY <1>6, <2>1 DEF DeleteStep, DeleteStart, DeleteRow, DeleteCheck, DeleteUnlink
<1>7. CASE CleanerStep \/ Crash \/ (\E f \in Files : GraceElapses(f))
           \/ \E m \in Meters : DeleteMeter(m)
  BY <1>7 DEF CleanerStep, CleanerStart, CleanerVisit, CleanerEnd, Crash, GraceElapses,
              DeleteMeter
<1>8. ASSUME NEW p \in Properties, DeleteProperty(p)
      PROVE  (\A g \in Files : origin[g] \subseteq origin'[g]) /\ RegistryRecorded'
  BY <1>8 DEF DeleteProperty, TypeInv, TypeOK
<1> QED
  BY <1>1, <1>4, <1>5, <1>6, <1>7, <1>8 DEF Next

(* A thread creates a reading only with the job it was accepted with.      *)
LEMMA CreateJobs ==
    ASSUME TypeInv, [Next]_vars, NEW w \in Workers, pc'[w] \in CreatePc
    PROVE  \/ pc[w] \in CreatePc /\ job'[w] = job[w]
           \/ \E q \in CreateRequests : CreateStart(w, q)
<1> USE DEF tables, threads, history, CreatePc, TypeInv, TypeOK
<1>1. CASE UNCHANGED vars
  BY <1>1 DEF vars
<1>2. ASSUME NEW v \in Workers, ScanStep(v) \/ \E q \in ScanRequests : ScanStore(v, q) \/ ScanStoreFails(v, q)
      PROVE  pc[w] \in CreatePc /\ job'[w] = job[w]
  BY <1>2 DEF ScanStep, ScanStore, ScanStoreFails, ScanRegister, ScanOcr, ScanSerialRegister, ScanDone,
              ScanFail, ScanUnlink, ScanUnregister, Goto, Accept, Respond
<1>3. ASSUME NEW v \in Workers, CreateStep(v)
      PROVE  pc[w] \in CreatePc /\ job'[w] = job[w]
  BY <1>3 DEF CreateStep, CreateHash, CreateCheck, CreateInsert, Goto, Respond
<1>4. ASSUME NEW v \in Workers, NEW q \in CreateRequests, CreateStart(v, q)
      PROVE  v = w \/ (pc[w] \in CreatePc /\ job'[w] = job[w])
  BY <1>4 DEF CreateStart, Goto, Accept
<1>5. ASSUME NEW v \in Workers,
             DeleteStep(v) \/ \E u \in Users, id \in 1..MaxReadings : DeleteStart(v, u, id)
      PROVE  pc[w] \in CreatePc /\ job'[w] = job[w]
  BY <1>5 DEF DeleteStep, DeleteStart, DeleteRow, DeleteCheck, DeleteUnlink,
              DeleteUnregister, Goto, Accept, Respond
<1>6. CASE CleanerStep \/ Crash \/ (\E f \in Files : GraceElapses(f))
           \/ (\E m \in Meters : DeleteMeter(m)) \/ \E p \in Properties : DeleteProperty(p)
  BY <1>6 DEF CleanerStep, CleanerStart, CleanerVisit, CleanerEnd, Crash, GraceElapses,
              DeleteMeter, DeleteProperty
<1> QED
  BY <1>1, <1>2, <1>3, <1>4, <1>5, <1>6 DEF Next

LEMMA EvidenceStep ==
    ASSUME TypeInv, Evidence, [Next]_vars
    PROVE  Evidence'
<1>0. RegistryRecorded' /\ \A f \in Files : origin[f] \subseteq origin'[f]
  BY RegistryStep DEF Evidence
<1>1. CreatesAuthorised'
  <2>1. SUFFICES ASSUME NEW w \in Workers, pc'[w] \in CreatePc, NEW f \in Paths(job'[w])
                 PROVE  \E row \in origin'[f] :
                            MayAttach(row, job'[w].user, PropertyOf[job'[w].meter])
    BY DEF CreatesAuthorised, MayAttach
  <2>2. job'[w] \in Job
    BY TypeStep DEF TypeInv, TypeOK
  <2>3. f \in Files
    BY <2>2, PathsOfJob
  <2>4. CASE pc[w] \in CreatePc /\ job'[w] = job[w]
    BY <1>0, <2>1, <2>3, <2>4 DEF Evidence, CreatesAuthorised
  <2>5. ASSUME NEW q \in CreateRequests, CreateStart(w, q)
        PROVE  \E row \in origin'[f] :
                   MayAttach(row, job'[w].user, PropertyOf[job'[w].meter])
    <3>1. job'[w] = q
      BY <2>5 DEF CreateStart, Accept, TypeInv, TypeOK
    <3>2. MayUse(q.user, f, PropertyOf[q.meter])
      BY <2>1, <2>5, <3>1 DEF CreateStart
    <3>3. registry[f] \in origin[f]
      BY <2>3, <3>2 DEF MayUse, Evidence, RegistryRecorded
    <3> QED
      BY <1>0, <2>3, <3>1, <3>2, <3>3 DEF MayUse, MayAttach
  <2> QED
    BY <2>1, <2>4, <2>5, CreateJobs
<1>2. EvidenceOwned'
  <2>1. CASE OnlyRemoves
    <3>1. SUFFICES ASSUME NEW id \in DOMAIN readings, readings'[id] # None,
                          NEW f \in Paths(readings'[id])
                   PROVE  \E row \in origin'[f] :
                     MayAttach(row, readings'[id].by, PropertyOf[readings'[id].meter])
      BY <2>1 DEF OnlyRemoves, EvidenceOwned, Exists, MayAttach
    <3>2. readings'[id] = readings[id] /\ readings[id] \in Reading
      BY <2>1, <3>1 DEF OnlyRemoves, TypeInv, TypeOK
    <3>3. f \in Files
      BY <3>1, <3>2 DEF Paths, Reading
    <3>4. \E row \in origin[f] :
              MayAttach(row, readings[id].by, PropertyOf[readings[id].meter])
      BY <3>1, <3>2 DEF Evidence, EvidenceOwned, Exists
    <3> QED
      BY <1>0, <3>2, <3>3, <3>4
  <2>2. ASSUME NEW w \in Workers, Inserts(w) PROVE EvidenceOwned'
    <3>1. SUFFICES ASSUME NEW id \in DOMAIN readings, readings'[id] # None,
                          NEW f \in Paths(readings'[id])
                   PROVE  \E row \in origin'[f] :
                     MayAttach(row, readings'[id].by, PropertyOf[readings'[id].meter])
      BY <2>2 DEF Inserts, EvidenceOwned, Exists, MayAttach
    <3>2. readings'[id] \in Reading
      BY <3>1, TypeStep, <2>2 DEF Inserts, TypeInv, TypeOK
    <3>3. f \in Files
      BY <3>1, <3>2 DEF Paths, Reading
    <3>4. CASE id # nextId
      BY <1>0, <2>2, <3>1, <3>3, <3>4 DEF Inserts, Evidence, EvidenceOwned, Exists
    <3>5. CASE id = nextId
      <4>1. f \in Paths(job[w]) /\ readings'[id].by = job[w].user
            /\ readings'[id].meter = job[w].meter
        BY <2>2, <3>1, <3>5 DEF Inserts, Paths
      <4>2. \E row \in origin[f] : MayAttach(row, job[w].user, PropertyOf[job[w].meter])
        BY <2>2, <4>1 DEF Inserts, Evidence, CreatesAuthorised, CreatePc
      <4> QED
        BY <1>0, <3>3, <4>1, <4>2
    <3> QED
      BY <3>4, <3>5
  <2> QED
    BY <2>1, <2>2, ReadingsStep
<1> QED
  BY <1>0, <1>1, <1>2 DEF Evidence

(* Attached photos stay inside the tenant they were uploaded in (F-004).   *)
THEOREM EvidenceStaysOwned == Spec => []EvidenceOwned
<1>1. Init => Evidence
  BY DEF Init, Evidence, RegistryRecorded, CreatesAuthorised, EvidenceOwned, Exists, CreatePc
<1>2. TypeInv /\ Evidence /\ [Next]_vars => Evidence'
  BY EvidenceStep
<1>3. Spec => []Evidence
  BY <1>1, <1>2, TypeInit, TypeStep, PTL DEF Spec
<1> QED
  BY <1>3, PTL DEF Evidence

----------------------------------------------------------------------------
(* What one step can do to whoever is looking for references or unlinking. *)
LEMMA LookersStep ==
    ASSUME TypeInv, [Next]_vars, NEW w \in Workers
    PROVE  /\ asOf'[w] \in {asOf[w], 0, nextId}
           /\ pc'[w] = "deleteUnlink" =>
                \/ pc[w] = "deleteUnlink" /\ left'[w] = left[w] /\ asOf'[w] = asOf[w]
                \/ /\ asOf'[w] = nextId /\ left'[w] = left[w] /\ UNCHANGED readings
                   /\ left[w] # <<>> /\ ~Referenced(Head(left[w]))
<1> USE DEF tables, threads, history, TypeInv, TypeOK
<1>1. CASE UNCHANGED vars
  BY <1>1 DEF vars
<1>2. ASSUME NEW v \in Workers, ScanStep(v) \/ \E q \in ScanRequests : ScanStore(v, q) \/ ScanStoreFails(v, q)
      PROVE  asOf'[w] \in {asOf[w], 0} /\ left'[w] \in {left[w], <<>>} /\
             (pc'[w] = "deleteUnlink" =>
                  pc[w] = "deleteUnlink" /\ left'[w] = left[w] /\ asOf'[w] = asOf[w])
  BY <1>2 DEF ScanStep, ScanStore, ScanStoreFails, ScanRegister, ScanOcr, ScanSerialRegister, ScanDone,
              ScanFail, ScanUnlink, ScanUnregister, Goto, Accept, Respond
<1>3. ASSUME NEW v \in Workers, CreateStep(v) \/ \E q \in CreateRequests : CreateStart(v, q)
      PROVE  asOf'[w] \in {asOf[w], 0} /\
             (pc'[w] = "deleteUnlink" =>
                  pc[w] = "deleteUnlink" /\ left'[w] = left[w] /\ asOf'[w] = asOf[w])
  BY <1>3 DEF CreateStep, CreateStart, CreateHash, CreateCheck, CreateInsert, Goto, Accept,
              Respond
<1>4. ASSUME NEW v \in Workers,
             \/ DeleteRow(v) \/ DeleteUnlink(v) \/ DeleteUnregister(v)
             \/ \E u \in Users, id \in 1..MaxReadings : DeleteStart(v, u, id)
      PROVE  asOf'[w] = asOf[w] /\
             (pc'[w] = "deleteUnlink" => pc[w] = "deleteUnlink" /\ left'[w] = left[w])
  BY <1>4 DEF DeleteStart, DeleteRow, DeleteUnlink, DeleteUnregister, Goto, Accept
<1>5. ASSUME NEW v \in Workers, DeleteCheck(v)
      PROVE  /\ asOf'[w] \in {asOf[w], 0, nextId}
             /\ pc'[w] = "deleteUnlink" =>
                  \/ pc[w] = "deleteUnlink" /\ left'[w] = left[w] /\ asOf'[w] = asOf[w]
                  \/ /\ asOf'[w] = nextId /\ left'[w] = left[w] /\ UNCHANGED readings
                     /\ left[w] # <<>> /\ ~Referenced(Head(left[w]))
  <2>1. CASE Respond(v)
    BY <1>5, <2>1 DEF DeleteCheck, Respond
  <2>2. CASE left[v] # <<>> /\ Referenced(Head(left[v])) /\ UNCHANGED <<pc, asOf>>
             /\ left' = [left EXCEPT ![v] = Tail(@)]
    BY <1>5, <2>2 DEF DeleteCheck
  <2>3. CASE left[v] # <<>> /\ ~Referenced(Head(left[v])) /\ Goto(v, "deleteUnlink")
             /\ asOf' = [asOf EXCEPT ![v] = nextId] /\ UNCHANGED left
    BY <1>5, <2>3 DEF DeleteCheck, Goto
  <2> QED
    BY <1>5, <2>1, <2>2, <2>3 DEF DeleteCheck
<1>6. CASE CleanerStep \/ Crash \/ (\E f \in Files : GraceElapses(f))
           \/ (\E m \in Meters : DeleteMeter(m)) \/ \E p \in Properties : DeleteProperty(p)
  BY <1>6 DEF CleanerStep, CleanerStart, CleanerVisit, CleanerEnd, Crash, GraceElapses,
              DeleteMeter, DeleteProperty
<1> QED
  BY <1>1, <1>2, <1>3, <1>4, <1>5, <1>6 DEF Next, DeleteStep

LEMMA CleanerLooks ==
    ASSUME TypeInv, [Next]_vars
    PROVE  \/ cleaner' = CleanerIdle
           \/ /\ cleaner'.on = cleaner.on /\ cleaner'.kept = cleaner.kept
              /\ cleaner'.todo \subseteq cleaner.todo /\ cleaner'.asOf = cleaner.asOf
           \/ /\ cleaner'.asOf = nextId /\ UNCHANGED readings
              /\ \A f \in cleaner'.todo \ cleaner'.kept : ~Referenced(f)
<1> USE DEF tables, threads, history, TypeInv, TypeOK
<1>1. CASE CleanerStart
  BY <1>1 DEF CleanerStart
<1>2. ASSUME NEW f \in Files, CleanerVisit(f)
      PROVE  \/ cleaner' = CleanerIdle
             \/ /\ cleaner'.on = cleaner.on /\ cleaner'.kept = cleaner.kept
                /\ cleaner'.todo \subseteq cleaner.todo /\ cleaner'.asOf = cleaner.asOf
  <2>1. CASE cleaner' = [cleaner EXCEPT !.todo = @ \ {f}]
    BY <2>1
  <2> QED
    BY <1>2, <2>1 DEF CleanerVisit
<1>3. CASE CleanerEnd \/ Crash
  BY <1>3 DEF CleanerEnd, Crash
<1>4. CASE UNCHANGED vars \/ (\E f \in Files : GraceElapses(f))
           \/ (\E m \in Meters : DeleteMeter(m)) \/ \E p \in Properties : DeleteProperty(p)
  BY <1>4 DEF vars, GraceElapses, DeleteMeter, DeleteProperty
<1>5. ASSUME NEW v \in Workers,
             \/ ScanStep(v) \/ CreateStep(v) \/ DeleteStep(v)
             \/ \E q \in ScanRequests : ScanStore(v, q) \/ ScanStoreFails(v, q)
             \/ \E q \in CreateRequests : CreateStart(v, q)
             \/ \E u \in Users, id \in 1..MaxReadings : DeleteStart(v, u, id)
      PROVE  UNCHANGED cleaner
  BY <1>5 DEF ScanStep, ScanStore, ScanStoreFails, ScanRegister, ScanOcr, ScanSerialRegister, ScanDone,
              ScanFail, ScanUnlink, ScanUnregister, CreateStep, CreateStart, CreateHash,
              CreateCheck, CreateInsert, DeleteStep, DeleteStart, DeleteRow, DeleteCheck,
              DeleteUnlink, DeleteUnregister
<1> QED
  BY <1>1, <1>2, <1>3, <1>4, <1>5 DEF Next, CleanerStep

Removal == IdsInOrder /\ RemovalSparesEarlier

LEMMA RemovalStep ==
    ASSUME TypeInv, Removal, [Next]_vars
    PROVE  Removal'
<1>0. nextId \in Nat /\ nextId' \in Nat /\ nextId <= nextId' /\ DOMAIN readings' = DOMAIN readings
      /\ DOMAIN readings \subseteq Nat
  BY ReadingsStep DEF TypeInv, TypeOK, OnlyRemoves, Inserts
(* A row that is there after the step was there before, or is the newest.  *)
<1>1. \A id \in DOMAIN readings : readings'[id] # None =>
          readings'[id] = readings[id] \/ (id = nextId /\ nextId' = nextId + 1)
  BY ReadingsStep DEF OnlyRemoves, Inserts
<1>2. IdsInOrder'
  <2>1. \A id \in DOMAIN readings' : Exists(id)' => id < nextId'
    BY <1>0, <1>1 DEF Removal, IdsInOrder, Exists
  <2>2. \A w \in Workers : asOf'[w] <= nextId'
    <3>1. SUFFICES ASSUME NEW w \in Workers PROVE asOf'[w] <= nextId'
      OBVIOUS
    <3>2. asOf'[w] \in {asOf[w], 0, nextId}
      BY LookersStep
    <3>3. asOf[w] \in Nat /\ asOf[w] <= nextId
      BY DEF Removal, IdsInOrder, TypeInv, TypeOK
    <3> QED
      BY <1>0, <3>2, <3>3
  <2>3. cleaner'.asOf <= nextId'
    BY <1>0, CleanerLooks DEF Removal, IdsInOrder, TypeInv, TypeOK, CleanerIdle
  <2> QED
    BY <2>1, <2>2, <2>3 DEF IdsInOrder
<1>3. ASSUME NEW w \in Workers, pc'[w] = "deleteUnlink",
             NEW id \in DOMAIN readings', References(id, Head(left[w]))'
      PROVE  id >= asOf'[w]
  <2>1. left'[w] = left[w] /\ asOf'[w] \in {asOf[w], nextId}
    BY <1>3, LookersStep
  <2>2. CASE id = nextId
    BY <1>0, <2>1, <2>2 DEF Removal, IdsInOrder, TypeInv, TypeOK
  <2>3. CASE id # nextId
    <3>1. References(id, Head(left[w]))
      BY <1>0, <1>1, <1>3, <2>1, <2>3 DEF References, Exists
    <3>2. pc[w] = "deleteUnlink" /\ asOf'[w] = asOf[w]
      BY <1>0, <1>3, <3>1, LookersStep DEF Referenced
    <3> QED
      BY <1>0, <3>1, <3>2 DEF Removal, RemovalSparesEarlier
  <2> QED
    BY <2>2, <2>3
<1>4. ASSUME cleaner'.on, NEW f \in cleaner'.todo \ cleaner'.kept,
             NEW id \in DOMAIN readings', References(id, f)'
      PROVE  id >= cleaner'.asOf
  <2>1. CASE id = nextId
    BY <1>0, <1>2, <2>1, CleanerLooks DEF Removal, IdsInOrder, TypeInv, TypeOK, CleanerIdle
  <2>2. CASE id # nextId
    <3>1. References(id, f)
      BY <1>0, <1>1, <1>4, <2>2 DEF References, Exists
    <3>2. /\ cleaner.on /\ cleaner'.kept = cleaner.kept
          /\ cleaner'.todo \subseteq cleaner.todo /\ cleaner'.asOf = cleaner.asOf
      <4>1. cleaner' # CleanerIdle
        BY <1>4 DEF CleanerIdle
      <4>2. Referenced(f)
        BY <1>0, <3>1 DEF Referenced
      <4> QED
        BY <1>4, <4>1, <4>2, CleanerLooks
    <3> QED
      BY <1>0, <1>4, <3>1, <3>2 DEF Removal, RemovalSparesEarlier
  <2> QED
    BY <2>1, <2>2
<1> QED
  BY <1>2, <1>3, <1>4 DEF Removal, RemovalSparesEarlier

(* Only readings younger than the last look can lose their photo.          *)
THEOREM RemovalIsSafe == Spec => []RemovalSparesEarlier
<1>1. Init => Removal
  BY DEF Init, Removal, IdsInOrder, RemovalSparesEarlier, CleanerIdle, Exists, References
<1>2. TypeInv /\ Removal /\ [Next]_vars => Removal'
  BY RemovalStep
<1>3. Spec => []Removal
  BY <1>1, <1>2, TypeInit, TypeStep, PTL DEF Spec
<1> QED
  BY <1>3, PTL DEF Removal

----------------------------------------------------------------------------
(* Files that are left behind *)
Listed(s, f) == \E i \in DOMAIN s : s[i] = f

(* The name of a file is known to one scan, and to nobody else until the   *)
(* scan is over; what is known to clients was stored.                      *)
NamesInv ==
    /\ \A v, w \in Workers : v # w /\ pc[v] \in ScanPc /\ pc[w] \in ScanPc
                             => Paths(job[v]) \intersect Paths(job[w]) = {}
    /\ \A w \in Workers : pc[w] \in ScanPc =>
          /\ Paths(job[w]) \intersect published = {}
          /\ disk[job[w].image] # "unused"
          /\ pc[w] \in {"scanSerialRegister", "scanSerialOcr"} => disk[job[w].serial] # "unused"
    /\ \A w \in Workers : pc[w] \in CreatePc => Paths(job[w]) \subseteq published
    /\ \A f \in published : disk[f] # "unused"
    /\ attached \subseteq published

(* Before a scan registers its names, they have no row, and before its     *)
(* serial crop is stored that is not on disk.                              *)
BeginInv ==
    /\ \A f \in Files : registry[f] # None => disk[f] # "unused"
    /\ \A w \in Workers : pc[w] \in {"scanRegister", "scanOcr"} =>
          \A f \in Paths(job[w]) :
              /\ registry[f] # None => pc[w] = "scanOcr" /\ f = job[w].image
              /\ OnDisk(f) => f = job[w].image

(* A scan that failed is through with the disk before it turns to the      *)
(* registry.                                                               *)
FailedScansInv ==
    crashes = 0 =>
        /\ \A f \in Files : OnDisk(f) => f \in published \/ Held(f) \/ f \in spilled
        /\ \A f \in Files : registry[f] # None => f \in published \/ Held(f) \/ f \in stray
        /\ \A w \in Workers : pc[w] = "scanUnregister" =>
              \A f \in Paths(job[w]) : OnDisk(f) => f \in spilled

(* A file some reading was created with is referenced, gone, or on the     *)
(* list of a deletion in flight.                                           *)
ListPc == {"deleteCheck", "deleteUnlink", "deleteUnregister"}

Listing(f) == \E w \in Workers : pc[w] \in ListPc /\ Listed(left[w], f)

DeletesInv ==
    /\ \A w \in Workers :
          /\ pc[w] = "deleteRow" => job[w].rid < nextId /\ Paths(job[w]) \subseteq attached
          /\ pc[w] = "deleteRow" /\ Exists(job[w].rid)
                => Paths(readings[job[w].rid]) = Paths(job[w])
          /\ pc[w] \in ListPc => \A f \in Files : Listed(left[w], f) => f \in published
          /\ pc[w] = "deleteUnregister" => ~OnDisk(Head(left[w]))
    /\ \A id \in DOMAIN readings : Exists(id) => Paths(readings[id]) \subseteq attached
    /\ crashes = 0 /\ meters = Meters =>
          \A f \in attached : Referenced(f) \/ (~OnDisk(f) /\ registry[f] = None) \/ Listing(f)

LEMMA NamesInit == Init => NamesInv /\ BeginInv /\ FailedScansInv /\ DeletesInv
BY DEF Init, NamesInv, BeginInv, FailedScansInv, DeletesInv, OnDisk, Exists, ScanPc, CreatePc, ListPc

(* A serial crop whose write failed halfway: its name is lost. *)
Forgets(w) ==
    /\ pc[w] = "scanOcr" /\ pc'[w] = "scanUnlink" /\ job[w].serial # None
    /\ job'[w] = [job[w] EXCEPT !.serial = None]
    /\ spilled' = spilled \union {job[w].serial}

(* A scan keeps the job it was accepted with, or loses that one name. *)
LEMMA ScanJobs ==
    ASSUME TypeInv, [Next]_vars, NEW w \in Workers, pc'[w] \in ScanPc
    PROVE  \/ pc[w] \in ScanPc /\ job'[w] = job[w]
           \/ Forgets(w)
           \/ \E q \in ScanRequests : ScanStore(w, q)
<1> USE DEF tables, threads, history, ScanPc, TypeInv, TypeOK
<1>1. CASE UNCHANGED vars
  BY <1>1 DEF vars
<1>2. ASSUME NEW v \in Workers, ScanStep(v)
      PROVE  (pc[w] \in ScanPc /\ job'[w] = job[w]) \/ Forgets(w)
  <2>1. CASE ScanOcr(v)
    <3>1. CASE v # w
      BY <2>1, <3>1 DEF ScanOcr, Goto, Respond
    <3>2. CASE v = w
      <4>1. \/ job'[w] = job[w]
            \/ /\ job[w].serial # None /\ pc'[w] = "scanUnlink"
               /\ spilled' = spilled \union {job[w].serial}
               /\ job' = [job EXCEPT ![w].serial = None]
        BY <2>1, <3>2 DEF ScanOcr, Goto, Respond
      <4>2. job' = [job EXCEPT ![w].serial = None] => job'[w] = [job[w] EXCEPT !.serial = None]
        OBVIOUS
      <4>3. pc[w] = "scanOcr"
        BY <2>1, <3>2 DEF ScanOcr
      <4> QED
        BY <4>1, <4>2, <4>3 DEF Forgets
    <3> QED
      BY <3>1, <3>2
  <2> QED
    BY <1>2, <2>1 DEF ScanStep, ScanRegister, ScanSerialRegister, ScanDone,
                ScanFail, ScanUnlink, ScanUnregister, Goto, Respond
<1>3. ASSUME NEW v \in Workers, NEW q \in ScanRequests, ScanStore(v, q) \/ ScanStoreFails(v, q)
      PROVE  (v = w /\ ScanStore(v, q)) \/ (pc[w] \in ScanPc /\ job'[w] = job[w])
  BY <1>3 DEF ScanStore, ScanStoreFails, Goto, Accept
<1>4. ASSUME NEW v \in Workers, CreateStep(v) \/ \E q \in CreateRequests : CreateStart(v, q)
      PROVE  pc[w] \in ScanPc /\ job'[w] = job[w]
  BY <1>4 DEF CreateStep, CreateStart, CreateHash, CreateCheck, CreateInsert, Goto, Accept, Respond
<1>5. ASSUME NEW v \in Workers,
             DeleteStep(v) \/ \E u \in Users, id \in 1..MaxReadings : DeleteStart(v, u, id)
      PROVE  pc[w] \in ScanPc /\ job'[w] = job[w]
  BY <1>5 DEF DeleteStep, DeleteStart, DeleteRow, DeleteCheck, DeleteUnlink,
              DeleteUnregister, Goto, Accept, Respond
<1>6. CASE CleanerStep \/ Crash \/ (\E f \in Files : GraceElapses(f))
           \/ (\E m \in Meters : DeleteMeter(m)) \/ \E p \in Properties : DeleteProperty(p)
  BY <1>6 DEF CleanerStep, CleanerStart, CleanerVisit, CleanerEnd, Crash, GraceElapses,
              DeleteMeter, DeleteProperty
<1> QED
  BY <1>1, <1>2, <1>3, <1>4, <1>5, <1>6 DEF Next

(* Only a scan brings a file to disk, and only a scan that is over makes   *)
(* its names known.                                                        *)
Stores(v, f) ==
    \/ /\ pc[v] = "scanOcr" /\ pc'[v] = "scanSerialRegister" /\ job'[v] = job[v]
       /\ job[v].serial # None /\ f = job[v].serial
    \/ \E q \in ScanRequests : ScanStore(v, q) /\ f = q.image

(* ... or a write that failed halfway. *)
Spills(v, f) ==
    /\ f \in spilled'
    /\ (Forgets(v) /\ f = job[v].serial) \/ Unused(f)

Publishes(v) ==
    /\ pc'[v] = "idle"
    /\ \/ pc[v] = "scanOcr" /\ published' = published \union {job[v].image}
       \/ pc[v] = "scanSerialOcr" /\ published' = published \union {job[v].image, job[v].serial}

LEMMA DiskStep ==
    ASSUME TypeInv, [Next]_vars, NEW f \in Files
    PROVE  /\ disk[f] # "unused" => disk'[f] # "unused"
           /\ OnDisk(f)' => OnDisk(f) \/ \E v \in Workers : Stores(v, f) \/ Spills(v, f)
<1> USE DEF tables, threads, history, TypeInv, TypeOK, OnDisk
<1> DEFINE Only == /\ disk[f] # "unused" => disk'[f] # "unused"
                   /\ OnDisk(f)' => OnDisk(f)
<1>1. CASE UNCHANGED vars
  BY <1>1 DEF vars
<1>2. ASSUME NEW v \in Workers,
             \/ ScanRegister(v) \/ ScanSerialRegister(v) \/ ScanDone(v)
             \/ ScanFail(v) \/ ScanUnlink(v) \/ ScanUnregister(v)
      PROVE  Only
  BY <1>2 DEF ScanRegister, ScanSerialRegister, ScanDone, ScanFail, ScanUnlink, ScanUnregister
<1>3. ASSUME NEW v \in Workers, ScanOcr(v)
      PROVE  /\ disk[f] # "unused" => disk'[f] # "unused"
             /\ OnDisk(f)' => OnDisk(f) \/ Stores(v, f) \/ Spills(v, f)
  BY <1>3 DEF ScanOcr, Goto, Stores, Spills, Forgets
<1>4. ASSUME NEW v \in Workers, NEW q \in ScanRequests, ScanStore(v, q) \/ ScanStoreFails(v, q)
      PROVE  /\ disk[f] # "unused" => disk'[f] # "unused"
             /\ OnDisk(f)' => OnDisk(f) \/ Stores(v, f) \/ Spills(v, f)
  BY <1>4 DEF ScanStore, ScanStoreFails, MayScan, Stores, Spills, Paths
<1>5. ASSUME NEW v \in Workers, CreateStep(v) \/ \E q \in CreateRequests : CreateStart(v, q)
      PROVE  Only
  BY <1>5 DEF CreateStep, CreateStart, CreateHash, CreateCheck, CreateInsert
<1>6. ASSUME NEW v \in Workers,
             DeleteStep(v) \/ \E u \in Users, id \in 1..MaxReadings : DeleteStart(v, u, id)
      PROVE  Only
  BY <1>6 DEF DeleteStep, DeleteStart, DeleteRow, DeleteCheck, DeleteUnlink, DeleteUnregister
<1>7. CASE CleanerStep \/ Crash \/ (\E g \in Files : GraceElapses(g))
           \/ (\E m \in Meters : DeleteMeter(m)) \/ \E p \in Properties : DeleteProperty(p)
  <2>1. ASSUME NEW g \in Files, CleanerVisit(g) \/ GraceElapses(g) PROVE Only
    BY <2>1 DEF CleanerVisit, GraceElapses
  <2> QED
    BY <1>7, <2>1 DEF CleanerStep, CleanerStart, CleanerEnd, Crash, DeleteMeter, DeleteProperty
<1> QED
  BY <1>1, <1>2, <1>3, <1>4, <1>5, <1>6, <1>7 DEF Next, ScanStep

LEMMA PublishStep ==
    ASSUME TypeInv, [Next]_vars
    PROVE  published' = published \/ \E v \in Workers : Publishes(v)
<1> USE DEF tables, threads, history, TypeInv, TypeOK
<1>1. CASE UNCHANGED vars
  BY <1>1 DEF vars
<1>2. ASSUME NEW v \in Workers, ScanStep(v) \/ \E q \in ScanRequests : ScanStore(v, q) \/ ScanStoreFails(v, q)
      PROVE  published' = published \/ Publishes(v)
  BY <1>2 DEF ScanStep, ScanStore, ScanStoreFails, ScanRegister, ScanOcr, ScanSerialRegister, ScanDone,
              ScanFail, ScanUnlink, ScanUnregister, Goto, Accept, Respond, Publishes
<1>3. ASSUME NEW v \in Workers,
             \/ CreateStep(v) \/ \E q \in CreateRequests : CreateStart(v, q)
             \/ DeleteStep(v) \/ \E u \in Users, id \in 1..MaxReadings : DeleteStart(v, u, id)
      PROVE  published' = published
  BY <1>3 DEF CreateStep, CreateStart, CreateHash, CreateCheck, CreateInsert, DeleteStep,
              DeleteStart, DeleteRow, DeleteCheck, DeleteUnlink, DeleteUnregister
<1>4. CASE CleanerStep \/ Crash \/ (\E g \in Files : GraceElapses(g))
           \/ (\E m \in Meters : DeleteMeter(m)) \/ \E p \in Properties : DeleteProperty(p)
  BY <1>4 DEF CleanerStep, CleanerStart, CleanerVisit, CleanerEnd, Crash, GraceElapses,
              DeleteMeter, DeleteProperty
<1> QED
  BY <1>1, <1>2, <1>3, <1>4 DEF Next

Registers(v, f) ==
    /\ job'[v] = job[v]
    /\ \/ pc[v] = "scanRegister" /\ pc'[v] = "scanOcr" /\ f = job[v].image
       \/ pc[v] = "scanSerialRegister" /\ pc'[v] = "scanSerialOcr" /\ f = job[v].serial

LEMMA RegistersStep ==
    ASSUME TypeInv, [Next]_vars, NEW f \in Files, registry'[f] # None
    PROVE  registry[f] # None \/ \E v \in Workers : Registers(v, f)
<1> USE DEF tables, threads, history, TypeInv, TypeOK
<1>1. CASE UNCHANGED vars
  BY <1>1 DEF vars
<1>2. ASSUME NEW v \in Workers, ScanRegister(v) \/ ScanSerialRegister(v)
      PROVE  registry[f] # None \/ Registers(v, f)
  <2>1. job[v].image \in Files /\ (pc[v] = "scanSerialRegister" => job[v].serial \in Files)
    BY <1>2 DEF JobShape, ScanRegister, ScanSerialRegister, ScanPc
  <2> QED
    BY <1>2, <2>1 DEF ScanRegister, ScanSerialRegister, Register, Registers, Goto, Respond
<1>3. ASSUME NEW v \in Workers,
             \/ ScanOcr(v) \/ ScanDone(v) \/ ScanFail(v) \/ ScanUnlink(v) \/ ScanUnregister(v)
             \/ \E q \in ScanRequests : ScanStore(v, q) \/ ScanStoreFails(v, q)
             \/ CreateStep(v) \/ \E q \in CreateRequests : CreateStart(v, q)
             \/ DeleteStep(v) \/ \E u \in Users, id \in 1..MaxReadings : DeleteStart(v, u, id)
      PROVE  registry[f] # None
  BY <1>3 DEF ScanOcr, ScanDone, ScanFail, ScanUnlink, ScanUnregister, ScanStore, ScanStoreFails, CreateStep,
              CreateStart, CreateHash, CreateCheck, CreateInsert, DeleteStep,
              DeleteStart, DeleteRow, DeleteCheck, DeleteUnlink, DeleteUnregister
<1>4. CASE CleanerStep \/ Crash \/ (\E g \in Files : GraceElapses(g))
           \/ (\E m \in Meters : DeleteMeter(m)) \/ \E p \in Properties : DeleteProperty(p)
  BY <1>4 DEF CleanerStep, CleanerStart, CleanerVisit, CleanerEnd, Crash, GraceElapses,
              DeleteMeter, DeleteProperty
<1> QED
  BY <1>1, <1>2, <1>3, <1>4 DEF Next, ScanStep

(* Where the serial crop is concerned, its file was stored before. *)
LEMMA SerialStored ==
    ASSUME TypeInv, [Next]_vars, NEW w \in Workers,
           pc[w] \in ScanPc, pc'[w] \in {"scanSerialRegister", "scanSerialOcr"}
    PROVE  \/ pc[w] = "scanOcr" /\ disk'[job[w].serial] = "fresh"
           \/ pc[w] \in {"scanSerialRegister", "scanSerialOcr"}
<1> USE DEF tables, threads, history, TypeInv, TypeOK
<1> DEFINE Before == pc[w] \in {"scanSerialRegister", "scanSerialOcr"}
<1>1. CASE UNCHANGED vars
  BY <1>1 DEF vars
<1>2. ASSUME NEW v \in Workers,
             \/ ScanRegister(v) \/ ScanSerialRegister(v) \/ ScanDone(v)
             \/ ScanFail(v) \/ ScanUnlink(v) \/ ScanUnregister(v)
             \/ \E q \in ScanRequests : ScanStore(v, q) \/ ScanStoreFails(v, q)
      PROVE  Before
  BY <1>2 DEF ScanRegister, ScanSerialRegister, ScanDone, ScanFail, ScanUnlink, ScanUnregister,
              ScanStore, ScanStoreFails, Goto, Respond, Accept
<1>3. ASSUME NEW v \in Workers, ScanOcr(v)
      PROVE  Before \/ (pc[w] = "scanOcr" /\ disk'[job[w].serial] = "fresh")
  <2>1. v # w => pc'[w] = pc[w]
    BY <1>3 DEF ScanOcr, Goto, Respond
  <2>2. ASSUME v = w PROVE pc[w] = "scanOcr" /\ disk'[job[w].serial] = "fresh"
    <3>1. job[w].serial # None /\ disk' = [disk EXCEPT ![job[w].serial] = "fresh"]
      BY <1>3, <2>2 DEF ScanOcr, Respond
    <3>2. job[w].serial \in Files
      BY <3>1 DEF Job
    <3> QED
      BY <1>3, <2>2, <3>1, <3>2 DEF ScanOcr
  <2> QED
    BY <2>1, <2>2
<1>4. ASSUME NEW v \in Workers,
             \/ CreateStep(v) \/ \E q \in CreateRequests : CreateStart(v, q)
             \/ DeleteStep(v) \/ \E u \in Users, id \in 1..MaxReadings : DeleteStart(v, u, id)
      PROVE  Before
  BY <1>4 DEF CreateStep, CreateStart, CreateHash, CreateCheck, CreateInsert, DeleteStep,
              DeleteStart, DeleteRow, DeleteCheck, DeleteUnlink, DeleteUnregister, Goto, Accept,
              Respond
<1>5. CASE CleanerStep \/ Crash \/ (\E g \in Files : GraceElapses(g))
           \/ (\E m \in Meters : DeleteMeter(m)) \/ \E p \in Properties : DeleteProperty(p)
  BY <1>5 DEF CleanerStep, CleanerStart, CleanerVisit, CleanerEnd, Crash, GraceElapses,
              DeleteMeter, DeleteProperty
<1> QED
  BY <1>1, <1>2, <1>3, <1>4, <1>5 DEF Next, ScanStep

(* Files are attached with the reading that is inserted. *)
Attaches(w) ==
    /\ Inserts(w) /\ nextId \in DOMAIN readings
    /\ attached' = attached \union Paths(job[w])

LEMMA AttachStep ==
    ASSUME TypeInv, [Next]_vars
    PROVE  (attached' = attached /\ OnlyRemoves) \/ \E w \in Workers : Attaches(w)
<1> USE DEF tables, threads, history, TypeInv, TypeOK
<1> DEFINE Kept == attached' = attached /\ OnlyRemoves
<1>1. CASE UNCHANGED vars
  BY <1>1 DEF vars, OnlyRemoves
<1>2. ASSUME NEW w \in Workers, CreateInsert(w) PROVE Kept \/ Attaches(w)
  <2>1. CASE job[w].meter \notin meters \/ ~IndexAllows(job[w].meter, hash[w])
    BY <1>2, <2>1 DEF CreateInsert, OnlyRemoves
  <2>2. CASE job[w].meter \in meters /\ IndexAllows(job[w].meter, hash[w])
    BY <1>2, <2>2 DEF CreateInsert, Inserts, Attaches
  <2> QED BY <2>1, <2>2
<1>3. ASSUME NEW v \in Workers,
             \/ CreateHash(v) \/ CreateCheck(v) \/ \E q \in CreateRequests : CreateStart(v, q)
             \/ ScanStep(v) \/ \E q \in ScanRequests : ScanStore(v, q) \/ ScanStoreFails(v, q)
             \/ DeleteCheck(v) \/ DeleteUnlink(v) \/ DeleteUnregister(v)
             \/ \E u \in Users, id \in 1..MaxReadings : DeleteStart(v, u, id)
      PROVE  Kept
  <2>1. attached' = attached /\ readings' = readings /\ nextId' = nextId
    BY <1>3 DEF CreateHash, CreateCheck, CreateStart, ScanStep, ScanStore, ScanStoreFails, ScanRegister, ScanOcr,
                ScanSerialRegister, ScanDone, ScanFail, ScanUnlink, ScanUnregister, Register,
                DeleteStart, DeleteCheck, DeleteUnlink, DeleteUnregister
  <2> QED
    BY <2>1 DEF OnlyRemoves
<1>4. ASSUME NEW v \in Workers, DeleteRow(v) PROVE Kept
  BY <1>4 DEF DeleteRow, OnlyRemoves
<1>5. CASE CleanerStep \/ Crash \/ \E g \in Files : GraceElapses(g)
  BY <1>5 DEF CleanerStep, CleanerStart, CleanerVisit, CleanerEnd, Crash, GraceElapses, OnlyRemoves
<1>6. CASE (\E m \in Meters : DeleteMeter(m)) \/ \E p \in Properties : DeleteProperty(p)
  BY <1>6 DEF DeleteMeter, DeleteProperty, WithoutMeters, OnlyRemoves
<1> QED
  BY <1>1, <1>2, <1>3, <1>4, <1>5, <1>6 DEF Next, CreateStep, DeleteStep

LEMMA NamesStep ==
    ASSUME TypeInv, NamesInv, [Next]_vars
    PROVE  NamesInv'
<1>1. ASSUME NEW w \in Workers, NEW q \in ScanRequests, ScanStore(w, q)
      PROVE  /\ job'[w] = q /\ q.image \in Files /\ Paths(q) \subseteq Files
             /\ \A f \in Paths(q) : Unused(f)
             /\ pc'[w] = "scanRegister" /\ disk'[q.image] = "fresh"
  BY <1>1 DEF ScanStore, MayScan, Accept, Goto, TypeInv, TypeOK, Paths
<1>0. \A w \in Workers : (pc[w] \in ScanPc /\ job'[w] = job[w]) \/ Forgets(w)
                          => pc[w] \in ScanPc /\ job'[w].image = job[w].image
                             /\ Paths(job'[w]) \subseteq Paths(job[w])
  BY DEF Forgets, ScanPc, Paths, TypeInv, TypeOK, Job
<1>2. ASSUME NEW v \in Workers, NEW w \in Workers, v # w, pc'[v] \in ScanPc, pc'[w] \in ScanPc
      PROVE  Paths(job'[v]) \intersect Paths(job'[w]) = {}
  <2>1. CASE /\ pc[v] \in ScanPc /\ Paths(job'[v]) \subseteq Paths(job[v])
             /\ pc[w] \in ScanPc /\ Paths(job'[w]) \subseteq Paths(job[w])
    BY <1>2, <2>1 DEF NamesInv
  <2>2. ASSUME NEW x \in Workers, NEW y \in Workers, x # y, pc'[y] \in ScanPc,
               NEW q \in ScanRequests, ScanStore(x, q)
        PROVE  Paths(job'[x]) \intersect Paths(job'[y]) = {}
    <3>1. job'[y] = job[y]
      BY <2>2 DEF ScanStore, Accept, TypeInv, TypeOK
    <3> QED
      BY <1>1, <2>2, <3>1 DEF Unused
  <2> QED
    BY <1>0, <1>2, <2>1, <2>2, ScanJobs
<1>3. \A f \in published' : f \in published \/ \E v \in Workers : Publishes(v) /\ f \in Paths(job[v])
                                                                /\ disk[f] # "unused"
  <2>1. ASSUME NEW v \in Workers, Publishes(v), NEW f \in published', f \notin published
        PROVE  f \in Paths(job[v]) /\ disk[f] # "unused"
    <3>1. pc[v] \in ScanPc /\ job[v].image \in Files
          /\ (pc[v] = "scanSerialOcr" => job[v].serial \in Files)
      BY <2>1 DEF Publishes, ScanPc, TypeInv, JobShape
    <3>2. disk[job[v].image] # "unused" /\ (pc[v] = "scanSerialOcr" => disk[job[v].serial] # "unused")
      BY <3>1 DEF NamesInv
    <3> QED
      BY <2>1, <3>1, <3>2 DEF Publishes, Paths
  <2> QED
    BY <2>1, PublishStep
<1>4. published' \subseteq Files /\ published \subseteq Files /\ published \subseteq published'
  <2>1. TypeInv'
    BY TypeStep
  <2> QED
    BY <2>1, PublishStep DEF TypeInv, TypeOK, Publishes
<1>5. \A f \in published' : disk'[f] # "unused"
  BY <1>3, <1>4, DiskStep DEF NamesInv
<1>6. ASSUME NEW w \in Workers, pc'[w] \in ScanPc
      PROVE  Paths(job'[w]) \intersect published' = {}
  <2> SUFFICES ASSUME NEW f \in Paths(job'[w]), f \in published'
               PROVE  FALSE
    OBVIOUS
  <2>1. CASE pc[w] \in ScanPc /\ Paths(job'[w]) \subseteq Paths(job[w])
    <3>1. f \notin published
      BY <2>1 DEF NamesInv
    <3>2. PICK v \in Workers : Publishes(v) /\ f \in Paths(job[v])
      BY <1>3, <3>1
    <3>3. v # w /\ pc[v] \in ScanPc
      BY <1>6, <3>2 DEF Publishes, ScanPc
    <3> QED
      BY <2>1, <3>2, <3>3 DEF NamesInv
  <2>2. ASSUME NEW q \in ScanRequests, ScanStore(w, q) PROVE FALSE
    <3>1. disk[f] = "unused"
      BY <1>1, <2>2 DEF Unused
    <3>2. published' = published
      BY <2>2 DEF ScanStore
    <3> QED
      BY <3>1, <3>2 DEF NamesInv
  <2> QED
    BY <1>0, <1>6, <2>1, <2>2, ScanJobs
<1>7. ASSUME NEW w \in Workers, pc'[w] \in ScanPc
      PROVE  /\ disk'[job'[w].image] # "unused"
             /\ pc'[w] \in {"scanSerialRegister", "scanSerialOcr"} => disk'[job'[w].serial] # "unused"
  <2>1. CASE pc[w] \in ScanPc /\ job'[w] = job[w]
    <3>1. job[w].image \in Files /\ disk[job[w].image] # "unused"
      BY <2>1 DEF NamesInv, TypeInv, JobShape
    <3>2. ASSUME pc'[w] \in {"scanSerialRegister", "scanSerialOcr"}
          PROVE  disk'[job[w].serial] # "unused"
      <4>1. \/ pc[w] = "scanOcr" /\ disk'[job[w].serial] = "fresh"
            \/ pc[w] \in {"scanSerialRegister", "scanSerialOcr"}
        BY <2>1, <3>2, SerialStored
      <4>2. pc[w] \in {"scanSerialRegister", "scanSerialOcr"} => job[w].serial \in Files
        BY DEF TypeInv, JobShape
      <4> QED
        BY <2>1, <4>1, <4>2, DiskStep DEF NamesInv
    <3> QED
      BY <2>1, <3>1, <3>2, DiskStep
  <2>3. CASE Forgets(w)
    <3>1. job[w].image \in Files /\ disk[job[w].image] # "unused" /\ job'[w].image = job[w].image
      BY <1>0, <2>3 DEF Forgets, NamesInv, TypeInv, JobShape, ScanPc
    <3>2. pc'[w] = "scanUnlink"
      BY <2>3 DEF Forgets
    <3> QED
      BY <3>1, <3>2, DiskStep
  <2>2. ASSUME NEW q \in ScanRequests, ScanStore(w, q)
        PROVE  job'[w].image = q.image /\ pc'[w] = "scanRegister" /\ disk'[q.image] = "fresh"
    BY <1>1, <2>2
  <2> QED
    BY <1>7, <2>1, <2>2, <2>3, ScanJobs
<1>8. ASSUME NEW w \in Workers, pc'[w] \in CreatePc
      PROVE  Paths(job'[w]) \subseteq published'
  <2>1. CASE pc[w] \in CreatePc /\ job'[w] = job[w]
    BY <1>4, <2>1 DEF NamesInv
  <2>2. ASSUME NEW q \in CreateRequests, CreateStart(w, q) PROVE Paths(job'[w]) \subseteq published'
    <3>1. job'[w] = q /\ \A f \in Paths(q) : f \in published
      BY <2>2 DEF CreateStart, Accept, TypeInv, TypeOK
    <3> QED
      BY <1>4, <3>1
  <2> QED
    BY <1>8, <2>1, <2>2, CreateJobs
<1>9. attached' \subseteq published'
  BY <1>4, AttachStep DEF NamesInv, CreatePc, Attaches, Inserts
<1> QED
  BY <1>2, <1>5, <1>6, <1>7, <1>8, <1>9 DEF NamesInv

(* A scan goes on with the file f it holds, or hands it out, or gave it    *)
(* up; what else ends it is a failed registration, a failed write, or a    *)
(* restart.                                                                *)
FileGoesOn(w, f) ==
    \/ /\ pc'[w] \in ScanPc /\ f \in Paths(job'[w])
       /\ pc'[w] = "scanUnregister" /\ pc[w] # "scanUnregister" => (OnDisk(f)' => f \in spilled')
    \/ f \in published'
    \/ /\ pc[w] = "scanUnregister" /\ disk' = disk
       /\ registry'[f] = None \/ f \in stray' \/ registry[f] = None
    \/ /\ pc[w] = "scanRegister" /\ pc'[w] = "idle"
       /\ registry' = registry /\ disk' = disk /\ job[w].image \in spilled'
    \/ Forgets(w) /\ registry' = registry /\ job'[w].image = job[w].image
    \/ crashes' = crashes + 1

InOrder(w) ==
    pc'[w] \in {"scanRegister", "scanOcr"} =>
        pc[w] = pc'[w] \/ (pc[w] = "scanRegister" /\ pc'[w] = "scanOcr")

ScanGoesOn(w) == InOrder(w) /\ \A f \in Paths(job[w]) : FileGoesOn(w, f)

LEMMA ScanMoves ==
    ASSUME TypeInv, [Next]_vars, NEW w \in Workers, pc[w] \in ScanPc
    PROVE  ScanGoesOn(w)
<1> USE DEF tables, threads, history, ScanPc, TypeInv, TypeOK
<1> DEFINE Stays == pc'[w] = pc[w] /\ job'[w] = job[w]
<1>0. Stays => ScanGoesOn(w)
  BY DEF ScanGoesOn, InOrder, FileGoesOn
<1>1. CASE UNCHANGED vars
  BY <1>0, <1>1 DEF vars
<1>2. ASSUME NEW v \in Workers, ScanRegister(v) \/ ScanSerialRegister(v)
      PROVE  ScanGoesOn(w)
  <2>1. CASE v # w
    BY <1>0, <1>2, <2>1 DEF ScanRegister, ScanSerialRegister, Goto, Respond
  <2>2. CASE v = w
    <3>1. InOrder(w)
      BY <1>2, <2>2 DEF ScanRegister, ScanSerialRegister, Goto, Respond, InOrder
    <3>2. \A f \in Paths(job[w]) : FileGoesOn(w, f)
      BY <1>2, <2>2 DEF ScanRegister, ScanSerialRegister, Goto, Respond, FileGoesOn
    <3> QED
      BY <3>1, <3>2 DEF ScanGoesOn
  <2> QED BY <2>1, <2>2
<1>3. ASSUME NEW v \in Workers, ScanOcr(v) \/ ScanDone(v)
      PROVE  ScanGoesOn(w)
  <2>1. CASE v # w
    BY <1>0, <1>3, <2>1 DEF ScanOcr, ScanDone, Goto, Respond
  <2>2. CASE v = w
    <3>1. InOrder(w)
      BY <1>3, <2>2 DEF ScanOcr, ScanDone, Goto, Respond, InOrder
    <3>2. ASSUME NEW f \in Paths(job[w]) PROVE FileGoesOn(w, f)
      <4>1. CASE job'[w] = job[w] /\ pc'[w] = "scanSerialRegister"
        BY <4>1 DEF FileGoesOn
      <4>2. CASE f \in published'
        BY <4>2 DEF FileGoesOn
      <4>3. CASE Forgets(w)
        <5>1. job'[w].image = job[w].image
          BY <4>3 DEF Forgets, Job
        <5>2. registry' = registry
          BY <1>3, <2>2 DEF ScanOcr, ScanDone
        <5> QED
          BY <4>3, <5>1, <5>2 DEF FileGoesOn
      <4>4. ASSUME ScanOcr(w) PROVE pc[w] = "scanOcr"
        BY <4>4 DEF ScanOcr
      <4>5. ASSUME ScanOcr(w)
            PROVE  \/ published' = published \union {job[w].image} /\ job[w].serial = None
                   \/ pc'[w] = "scanSerialRegister" /\ job'[w] = job[w]
                   \/ /\ job[w].serial # None /\ pc'[w] = "scanUnlink"
                      /\ spilled' = spilled \union {job[w].serial}
                      /\ job' = [job EXCEPT ![w].serial = None]
        BY <4>5 DEF ScanOcr, Goto, Respond
      <4>6. job' = [job EXCEPT ![w].serial = None] => job'[w] = [job[w] EXCEPT !.serial = None]
        OBVIOUS
      <4>7. CASE ScanDone(w)
        BY <4>2, <4>7 DEF ScanDone, Paths
      <4> QED
        BY <1>3, <2>2, <4>1, <4>2, <4>3, <4>4, <4>5, <4>6, <4>7 DEF Forgets, Paths
    <3> QED
      BY <3>1, <3>2 DEF ScanGoesOn
  <2> QED BY <2>1, <2>2
<1>4. ASSUME NEW v \in Workers, ScanFail(v) \/ ScanUnlink(v) \/ ScanUnregister(v)
      PROVE  ScanGoesOn(w)
  <2>1. CASE v # w
    BY <1>0, <1>4, <2>1 DEF ScanFail, ScanUnlink, ScanUnregister, Goto, Respond
  <2>2. CASE v = w
    <3>1. Paths(job[w]) \subseteq Files
      BY PathsOfJob
    <3>2. InOrder(w)
      BY <1>4, <2>2 DEF ScanFail, ScanUnlink, ScanUnregister, Goto, Respond, InOrder
    <3>3. CASE ScanFail(w)
      BY <3>2, <3>3 DEF ScanFail, Goto, ScanGoesOn, FileGoesOn
    <3>4. CASE ScanUnlink(w)
      <4>1. pc'[w] = "scanUnregister" /\ job'[w] = job[w]
            /\ \A f \in Paths(job[w]) : OnDisk(f)' => f \in spilled'
        BY <3>1, <3>4 DEF ScanUnlink, Goto, OnDisk
      <4> QED
        BY <3>2, <4>1 DEF ScanGoesOn, FileGoesOn
    <3>5. CASE ScanUnregister(w)
      <4>1. pc[w] = "scanUnregister" /\ disk' = disk
            /\ \A f \in Paths(job[w]) : registry'[f] = None \/ f \in stray' \/ registry[f] = None
        BY <3>1, <3>5 DEF ScanUnregister
      <4> QED
        BY <3>2, <4>1 DEF ScanGoesOn, FileGoesOn
    <3> QED
      BY <1>4, <2>2, <3>3, <3>4, <3>5
  <2> QED BY <2>1, <2>2
<1>5. ASSUME NEW v \in Workers, NEW q \in ScanRequests, ScanStore(v, q) \/ ScanStoreFails(v, q)
      PROVE  Stays
  BY <1>5 DEF ScanStore, ScanStoreFails, Goto, Accept
<1>6. ASSUME NEW v \in Workers,
             \/ CreateStep(v) \/ \E q \in CreateRequests : CreateStart(v, q)
             \/ DeleteStep(v) \/ \E u \in Users, id \in 1..MaxReadings : DeleteStart(v, u, id)
      PROVE  Stays
  BY <1>6 DEF CreateStep, CreateStart, CreateHash, CreateCheck, CreateInsert, DeleteStep,
              DeleteStart, DeleteRow, DeleteCheck, DeleteUnlink, DeleteUnregister, Goto, Accept,
              Respond
<1>7. CASE CleanerStep \/ (\E g \in Files : GraceElapses(g))
           \/ (\E m \in Meters : DeleteMeter(m)) \/ \E p \in Properties : DeleteProperty(p)
  BY <1>0, <1>7 DEF CleanerStep, CleanerStart, CleanerVisit, CleanerEnd, GraceElapses,
              DeleteMeter, DeleteProperty
<1>8. CASE Crash
  BY <1>8 DEF Crash, ScanGoesOn, InOrder, FileGoesOn
<1> QED
  BY <1>0, <1>1, <1>2, <1>3, <1>4, <1>5, <1>6, <1>7, <1>8 DEF Next, ScanStep

(* What was left is noted for ever. *)
LEMMA LeftNoted ==
    ASSUME TypeInv, [Next]_vars
    PROVE  spilled \subseteq spilled' /\ stray \subseteq stray'
<1> USE DEF tables, threads, history
<1>1. CASE UNCHANGED vars
  BY <1>1 DEF vars
<1>2. ASSUME NEW v \in Workers,
             ScanStep(v) \/ \E q \in ScanRequests : ScanStore(v, q) \/ ScanStoreFails(v, q)
      PROVE  spilled \subseteq spilled' /\ stray \subseteq stray'
  BY <1>2 DEF ScanStep, ScanStore, ScanStoreFails, ScanRegister, ScanOcr, ScanSerialRegister,
              ScanDone, ScanFail, ScanUnlink, ScanUnregister
<1>3. ASSUME NEW v \in Workers,
             \/ CreateStep(v) \/ \E q \in CreateRequests : CreateStart(v, q)
             \/ DeleteStep(v) \/ \E u \in Users, id \in 1..MaxReadings : DeleteStart(v, u, id)
      PROVE  spilled' = spilled /\ stray' = stray
  BY <1>3 DEF CreateStep, CreateStart, CreateHash, CreateCheck, CreateInsert, DeleteStep,
              DeleteStart, DeleteRow, DeleteCheck, DeleteUnlink, DeleteUnregister
<1>4. CASE CleanerStep \/ Crash \/ (\E g \in Files : GraceElapses(g))
           \/ (\E m \in Meters : DeleteMeter(m)) \/ \E p \in Properties : DeleteProperty(p)
  BY <1>4 DEF CleanerStep, CleanerStart, CleanerVisit, CleanerEnd, Crash, GraceElapses,
              DeleteMeter, DeleteProperty
<1> QED
  BY <1>1, <1>2, <1>3, <1>4 DEF Next

(* While one scan holds a name, no other step stores or registers it. *)
LEMMA OwnNames ==
    ASSUME TypeInv, NamesInv, [Next]_vars, NEW w \in Workers, pc[w] \in ScanPc,
           NEW f \in Paths(job[w]), NEW v \in Workers
    PROVE  /\ Registers(v, f) => v = w
           /\ Stores(v, f) => v = w /\ pc[w] = "scanOcr" /\ pc'[w] = "scanSerialRegister"
           /\ Spills(v, f) => Forgets(w) /\ f \in spilled'
<1>1. f \in Files
  BY PathsOfJob DEF TypeInv, TypeOK
<1>2. ~Unused(f)
  BY DEF Unused
<1>3. pc[v] \in ScanPc /\ f \in Paths(job[v]) => v = w
  BY DEF NamesInv
<1>4. Registers(v, f) => pc[v] \in ScanPc /\ f \in Paths(job[v])
  BY <1>1 DEF Registers, ScanPc, Paths
<1>5. ASSUME NEW q \in ScanRequests, ScanStore(v, q), f = q.image PROVE FALSE
  BY <1>1, <1>2, <1>5 DEF ScanStore, MayScan, Paths
<1>6. Stores(v, f) => /\ pc[v] \in ScanPc /\ f \in Paths(job[v])
                      /\ pc[v] = "scanOcr" /\ pc'[v] = "scanSerialRegister"
  BY <1>1, <1>5 DEF Stores, ScanPc, Paths
<1>7. Spills(v, f) => pc[v] \in ScanPc /\ f \in Paths(job[v]) /\ Forgets(v) /\ f \in spilled'
  BY <1>1, <1>2 DEF Spills, Forgets, ScanPc, Paths
<1> QED
  BY <1>3, <1>4, <1>6, <1>7

LEMMA BeginStep ==
    ASSUME TypeInv, NamesInv, BeginInv, [Next]_vars
    PROVE  BeginInv'
<1>1. ASSUME NEW f \in Files, registry'[f] # None PROVE disk'[f] # "unused"
  <2>1. CASE registry[f] # None
    BY <2>1, DiskStep DEF BeginInv
  <2>2. ASSUME NEW v \in Workers, Registers(v, f) PROVE disk[f] # "unused"
    BY <2>2 DEF Registers, NamesInv, ScanPc
  <2> QED
    BY <1>1, <2>1, <2>2, RegistersStep, DiskStep
<1>2. ASSUME NEW w \in Workers, pc'[w] \in {"scanRegister", "scanOcr"}, NEW f \in Paths(job'[w])
      PROVE  /\ registry'[f] # None => pc'[w] = "scanOcr" /\ f = job'[w].image
             /\ OnDisk(f)' => f = job'[w].image
  <2>1. CASE pc[w] \in ScanPc /\ job'[w] = job[w]
    <3>1. InOrder(w) /\ f \in Files
      BY <2>1, ScanMoves, PathsOfJob DEF ScanGoesOn, TypeInv, TypeOK
    <3>2. /\ pc[w] \in {"scanRegister", "scanOcr"} /\ (pc[w] = "scanOcr" => pc'[w] = "scanOcr")
      BY <1>2, <3>1 DEF InOrder
    <3>3. ASSUME registry'[f] # None PROVE pc'[w] = "scanOcr" /\ f = job'[w].image
      <4>1. CASE registry[f] # None
        BY <1>2, <2>1, <3>2, <4>1 DEF BeginInv
      <4>2. ASSUME NEW v \in Workers, Registers(v, f) PROVE pc'[w] = "scanOcr" /\ f = job'[w].image
        <5>1. v = w
          BY <1>2, <2>1, <4>2, OwnNames
        <5> QED
          BY <2>1, <3>2, <4>2, <5>1 DEF Registers
      <4> QED
        BY <3>1, <3>3, <4>1, <4>2, RegistersStep
    <3>4. ASSUME OnDisk(f)' PROVE f = job'[w].image
      <4>1. CASE OnDisk(f)
        BY <1>2, <2>1, <3>2, <4>1 DEF BeginInv
      <4>2. ASSUME NEW v \in Workers, Stores(v, f) \/ Spills(v, f) PROVE FALSE
        BY <1>2, <2>1, <4>2, OwnNames DEF Forgets
      <4> QED
        BY <3>1, <3>4, <4>1, <4>2, DiskStep
    <3> QED
      BY <3>3, <3>4
  <2>2. ASSUME NEW q \in ScanRequests, ScanStore(w, q)
        PROVE  /\ registry'[f] # None => pc'[w] = "scanOcr" /\ f = job'[w].image
               /\ OnDisk(f)' => f = job'[w].image
    <3>1. job'[w] = q /\ \A g \in Paths(q) : Unused(g)
      BY <2>2 DEF ScanStore, MayScan, Accept, TypeInv, TypeOK
    <3>2. f \in Files /\ disk[f] = "unused"
      BY <1>2, <3>1, PathsOfJob DEF Unused, Paths
    <3>3. registry' = registry /\ disk' = [disk EXCEPT ![q.image] = "fresh"]
      BY <2>2 DEF ScanStore, tables
    <3>4. registry[f] = None
      BY <3>2 DEF BeginInv
    <3>5. f # q.image => disk'[f] = "unused"
      BY <3>2, <3>3 DEF TypeInv, TypeOK
    <3> QED
      BY <3>1, <3>3, <3>4, <3>5 DEF OnDisk
  <2>3. ~Forgets(w)
    BY <1>2 DEF Forgets
  <2> QED
    BY <1>2, <2>1, <2>2, <2>3, ScanJobs DEF ScanPc
<1> QED
  BY <1>1, <1>2 DEF BeginInv, OnDisk

(* Properties and meters only disappear, restarts only add up. *)
LEMMA RunsDown ==
    ASSUME TypeInv, [Next]_vars
    PROVE  /\ props' \subseteq props /\ meters' \subseteq meters
           /\ crashes' \in {crashes, crashes + 1}
           /\ meters' = Meters =>
                 \/ DOMAIN readings' = DOMAIN readings /\ readings' = readings
                 \/ \E w \in Workers : Inserts(w) \/ DeleteRow(w)
<1> USE DEF tables, threads, history, TypeInv, TypeOK
<1> DEFINE Same == UNCHANGED <<props, meters, crashes, readings>>
<1>1. CASE UNCHANGED vars
  BY <1>1 DEF vars
<1>2. ASSUME NEW v \in Workers,
             \/ ScanStep(v) \/ \E q \in ScanRequests : ScanStore(v, q) \/ ScanStoreFails(v, q)
             \/ \E q \in CreateRequests : CreateStart(v, q)
             \/ CreateHash(v) \/ CreateCheck(v)
             \/ DeleteCheck(v) \/ DeleteUnlink(v) \/ DeleteUnregister(v)
             \/ \E u \in Users, id \in 1..MaxReadings : DeleteStart(v, u, id)
      PROVE  Same
  BY <1>2 DEF ScanStep, ScanStore, ScanStoreFails, ScanRegister, ScanOcr, ScanSerialRegister, ScanDone,
              ScanFail, ScanUnlink, ScanUnregister, CreateStart, CreateHash, CreateCheck,
              DeleteStart, DeleteCheck, DeleteUnlink, DeleteUnregister
<1>3. ASSUME NEW v \in Workers, CreateInsert(v)
      PROVE  UNCHANGED <<props, meters, crashes>> /\ (Inserts(v) \/ readings' = readings)
  BY <1>3 DEF CreateInsert, Inserts
<1>4. ASSUME NEW v \in Workers, DeleteRow(v) PROVE UNCHANGED <<props, meters, crashes>>
  BY <1>4 DEF DeleteRow
<1>5. CASE CleanerStep \/ \E g \in Files : GraceElapses(g)
  BY <1>5 DEF CleanerStep, CleanerStart, CleanerVisit, CleanerEnd, GraceElapses
<1>6. CASE Crash
  BY <1>6 DEF Crash
<1>7. ASSUME NEW m \in Meters, DeleteMeter(m)
      PROVE  UNCHANGED <<props, crashes>> /\ meters' \subseteq meters /\ meters' # Meters
  BY <1>7 DEF DeleteMeter
<1>8. ASSUME NEW p \in Properties, DeleteProperty(p)
      PROVE  /\ props' \subseteq props /\ crashes' = crashes /\ meters' \subseteq meters
             /\ meters' = Meters => readings' = readings
  <2>1. meters' = meters \ {m \in meters : PropertyOf[m] = p}
        /\ readings' = WithoutMeters({m \in meters : PropertyOf[m] = p})
    BY <1>8 DEF DeleteProperty
  <2>2. ASSUME meters' = Meters PROVE readings' = readings
    <3>1. {m \in meters : PropertyOf[m] = p} = {}
      BY <2>1, <2>2
    <3> QED
      BY <2>1, <3>1 DEF WithoutMeters
  <2> QED
    BY <1>8, <2>1, <2>2 DEF DeleteProperty
<1> QED
  BY <1>1, <1>2, <1>3, <1>4, <1>5, <1>6, <1>7, <1>8 DEF Next, CreateStep, DeleteStep

LEMMA FailedScansStep ==
    ASSUME TypeInv, NamesInv, BeginInv, FailedScansInv, [Next]_vars
    PROVE  FailedScansInv'
<1> SUFFICES ASSUME crashes' = 0
             PROVE  /\ \A f \in Files : OnDisk(f)' => f \in published' \/ Held(f)' \/ f \in spilled'
                    /\ \A f \in Files : registry'[f] # None
                                        => f \in published' \/ Held(f)' \/ f \in stray'
                    /\ \A w \in Workers : pc'[w] = "scanUnregister"
                                          => \A f \in Paths(job'[w]) : OnDisk(f)' => f \in spilled'
  BY DEF FailedScansInv, OnDisk, Held
<1>1. crashes = 0 /\ crashes' # crashes + 1
  <2>1. crashes \in Nat
    BY DEF TypeInv, TypeOK
  <2>2. crashes' \in {crashes, crashes + 1}
    BY RunsDown
  <2> QED
    BY <2>1, <2>2
<1>2. published \subseteq published' /\ spilled \subseteq spilled' /\ stray \subseteq stray'
  BY PublishStep, LeftNoted DEF Publishes
<1>3. ASSUME NEW w \in Workers, pc[w] \in ScanPc, NEW f \in Paths(job[w])
      PROVE  \/ f \in published' \/ Held(f)'
             \/ (OnDisk(f) => f \in spilled') /\ (registry'[f] # None /\ registry[f] # None => f \in stray')
  <2>1. FileGoesOn(w, f)
    BY <1>3, ScanMoves DEF ScanGoesOn
  <2>2. CASE pc'[w] \in ScanPc /\ f \in Paths(job'[w])
    BY <2>2 DEF Held
  <2>3. CASE /\ pc[w] = "scanUnregister"
             /\ registry'[f] = None \/ f \in stray' \/ registry[f] = None
    BY <1>1, <1>2, <1>3, <2>3 DEF FailedScansInv
  <2>4. CASE pc[w] = "scanRegister" /\ job[w].image \in spilled'
    BY <1>3, <2>4 DEF BeginInv
  <2>5. CASE Forgets(w) /\ job'[w].image = job[w].image
    <3>1. pc[w] = "scanOcr" /\ pc'[w] \in ScanPc /\ job[w].serial \in spilled'
      BY <2>5 DEF Forgets, ScanPc
    <3>2. CASE f = job[w].image
      <4>1. f \in Paths(job'[w])
        BY <1>3, <2>5, <3>2 DEF Paths
      <4> QED
        BY <3>1, <4>1 DEF Held
    <3>3. CASE f # job[w].image
      BY <1>3, <3>1, <3>3 DEF BeginInv, Paths
    <3> QED
      BY <3>2, <3>3
  <2> QED
    BY <1>1, <2>1, <2>2, <2>3, <2>4, <2>5 DEF FileGoesOn
<1>4. ASSUME NEW f \in Files, OnDisk(f)'
      PROVE  f \in published' \/ Held(f)' \/ f \in spilled'
  <2>1. CASE OnDisk(f)
    BY <1>1, <1>2, <1>3, <2>1 DEF FailedScansInv, Held
  <2>2. ASSUME NEW v \in Workers, Stores(v, f) PROVE Held(f)'
    BY <2>2 DEF Stores, Held, ScanStore, Accept, Goto, ScanPc, Paths, TypeInv, TypeOK
  <2>3. ASSUME NEW v \in Workers, Spills(v, f) PROVE f \in spilled'
    BY <2>3 DEF Spills
  <2> QED
    BY <1>4, <2>1, <2>2, <2>3, DiskStep
<1>5. ASSUME NEW f \in Files, registry'[f] # None
      PROVE  f \in published' \/ Held(f)' \/ f \in stray'
  <2>1. CASE registry[f] # None
    BY <1>1, <1>2, <1>3, <1>5, <2>1 DEF FailedScansInv, Held
  <2>2. ASSUME NEW v \in Workers, Registers(v, f) PROVE Held(f)'
    BY <2>2 DEF Registers, Held, ScanPc, Paths, TypeInv, TypeOK
  <2> QED
    BY <1>5, <2>1, <2>2, RegistersStep
<1>6. ASSUME NEW w \in Workers, pc'[w] = "scanUnregister", NEW f \in Paths(job'[w]), OnDisk(f)'
      PROVE  f \in spilled'
  <2>1. pc[w] \in ScanPc /\ job'[w] = job[w]
    <3>1. ~ \E q \in ScanRequests : ScanStore(w, q)
      BY <1>6 DEF ScanStore, Accept, Goto, TypeInv, TypeOK
    <3>2. ~Forgets(w)
      BY <1>6 DEF Forgets
    <3> QED
      BY <1>6, <3>1, <3>2, ScanJobs DEF ScanPc
  <2>2. f \in Files
    BY <2>1, PathsOfJob DEF TypeInv, TypeOK
  <2>3. CASE pc[w] = "scanUnregister"
    <3>1. OnDisk(f) => f \in spilled
      BY <1>1, <2>1, <2>3 DEF FailedScansInv
    <3>2. ASSUME NEW v \in Workers, Stores(v, f) \/ Spills(v, f) PROVE FALSE
      BY <2>1, <2>3, <3>2, OwnNames DEF Forgets
    <3> QED
      BY <1>2, <1>6, <2>2, <3>1, <3>2, DiskStep
  <2>4. CASE pc[w] # "scanUnregister"
    <3>1. FileGoesOn(w, f)
      BY <2>1, ScanMoves DEF ScanGoesOn
    <3>2. f \notin published'
      BY <1>6, NamesStep DEF NamesInv, ScanPc
    <3> QED
      BY <1>1, <1>6, <2>1, <2>4, <3>1, <3>2 DEF FileGoesOn, Forgets
  <2> QED BY <2>3, <2>4
<1> QED
  BY <1>4, <1>5, <1>6

(* No scan brings back what clients know. *)
LEMMA NothingComesBack ==
    ASSUME TypeInv, NamesInv, [Next]_vars, NEW f \in published
    PROVE  /\ OnDisk(f)' => OnDisk(f)
           /\ registry'[f] # None => registry[f] # None
<1>1. f \in Files /\ disk[f] # "unused"
  BY DEF TypeInv, TypeOK, NamesInv
<1>2. \A v \in Workers : pc[v] \in ScanPc => f \notin Paths(job[v])
  BY DEF NamesInv
<1>3. ASSUME NEW v \in Workers, Stores(v, f) \/ Spills(v, f) PROVE FALSE
  BY <1>1, <1>2, <1>3 DEF Stores, Spills, Forgets, ScanStore, MayScan, Unused, Paths, ScanPc
<1>4. ASSUME NEW v \in Workers, Registers(v, f) PROVE FALSE
  BY <1>1, <1>2, <1>4 DEF Registers, Paths, ScanPc
<1> QED
  BY <1>1, <1>2, <1>3, <1>4, DiskStep, RegistersStep

LEMMA Lists ==
    ASSUME NEW s \in Seq(Files), s # <<>>, NEW f
    PROVE  /\ Listed(Tail(s), f) => Listed(s, f)
           /\ Listed(s, f) => f = Head(s) \/ Listed(Tail(s), f)
           /\ Listed(s, Head(s)) /\ Head(s) \in Files
<1>1. Len(s) \in Nat /\ Len(s) > 0 /\ DOMAIN s = 1..Len(s) /\ Head(s) = s[1]
  OBVIOUS
<1>2. DOMAIN Tail(s) = 1..(Len(s) - 1) /\ \A i \in 1..(Len(s) - 1) : Tail(s)[i] = s[i + 1]
  BY <1>1
<1>3. Listed(Tail(s), f) => Listed(s, f)
  BY <1>1, <1>2 DEF Listed
<1>4. ASSUME NEW i \in DOMAIN s, s[i] = f, f # Head(s) PROVE Listed(Tail(s), f)
  <2>1. i \in 1..Len(s) /\ i # 1
    BY <1>1, <1>4
  <2>2. i - 1 \in 1..(Len(s) - 1) /\ (i - 1) + 1 = i
    BY <1>1, <2>1
  <2>3. Tail(s)[i - 1] = f
    BY <1>2, <1>4, <2>2
  <2> QED
    BY <1>2, <2>2, <2>3 DEF Listed
<1> QED
  BY <1>1, <1>3, <1>4 DEF Listed

LEMMA ListOfJob == \A j \in Job, f \in Files : Listed(PathList(j), f) <=> f \in Paths(j)
<1> SUFFICES ASSUME NEW j \in Job, NEW f \in Files
             PROVE  Listed(PathList(j), f) <=> f \in Paths(j)
  OBVIOUS
<1>1. f # None
  OBVIOUS
<1>2. CASE j.image = None /\ j.serial = None
  <2>1. PathList(j) = <<>>
    BY <1>2 DEF PathList
  <2> QED BY <1>1, <1>2, <2>1 DEF Listed, Paths
<1>3. CASE j.image # None /\ j.serial = None
  <2>1. PathList(j) = <<j.image>>
    BY <1>3 DEF PathList
  <2> QED BY <1>1, <1>3, <2>1 DEF Listed, Paths
<1>4. CASE j.image = None /\ j.serial # None
  <2>1. PathList(j) = <<j.serial>>
    BY <1>4 DEF PathList
  <2> QED BY <1>1, <1>4, <2>1 DEF Listed, Paths
<1>5. CASE j.image # None /\ j.serial # None
  <2>1. PathList(j) = <<j.image>> \o <<j.serial>>
    BY <1>5 DEF PathList
  <2>2. DOMAIN PathList(j) = {1, 2} /\ PathList(j)[1] = j.image /\ PathList(j)[2] = j.serial
    BY <2>1
  <2> QED BY <1>1, <1>5, <2>2 DEF Listed, Paths
<1> QED BY <1>2, <1>3, <1>4, <1>5

(* A deletion in flight drops a file from its list when somebody else      *)
(* needs it, or when it is gone.                                           *)
ListGoesOn(w, f) ==
    \/ pc'[w] \in ListPc /\ Listed(left'[w], f)
    \/ Referenced(f) /\ readings' = readings
    \/ pc[w] = "deleteUnregister" /\ f = Head(left[w]) /\ registry'[f] = None /\ disk' = disk
    \/ crashes' = crashes + 1

LEMMA ListMoves ==
    ASSUME TypeInv, [Next]_vars, NEW w \in Workers, pc[w] \in ListPc,
           NEW f \in Files, Listed(left[w], f)
    PROVE  ListGoesOn(w, f)
<1> USE DEF tables, threads, history, ListPc, TypeInv, TypeOK
<1> DEFINE Stays == pc'[w] = pc[w] /\ left'[w] = left[w]
<1>0. Stays => ListGoesOn(w, f)
  BY DEF ListGoesOn
<1>1. CASE UNCHANGED vars
  BY <1>0, <1>1 DEF vars
<1>2. ASSUME NEW v \in Workers,
             \/ ScanStep(v) \/ \E q \in ScanRequests : ScanStore(v, q) \/ ScanStoreFails(v, q)
             \/ CreateStep(v) \/ \E q \in CreateRequests : CreateStart(v, q)
             \/ DeleteRow(v) \/ \E u \in Users, id \in 1..MaxReadings : DeleteStart(v, u, id)
      PROVE  Stays
  BY <1>2 DEF ScanStep, ScanStore, ScanStoreFails, ScanRegister, ScanOcr, ScanSerialRegister, ScanDone,
              ScanFail, ScanUnlink, ScanUnregister, CreateStep, CreateStart, CreateHash,
              CreateCheck, CreateInsert, DeleteStart, DeleteRow, Goto, Accept, Respond
<1>3. ASSUME NEW v \in Workers, DeleteCheck(v) \/ DeleteUnlink(v) \/ DeleteUnregister(v), v # w
      PROVE  Stays
  BY <1>3 DEF DeleteCheck, DeleteUnlink, DeleteUnregister, Goto, Respond
<1>4. left[w] # <<>> /\ left[w] \in Seq(Files)
  BY DEF Listed
<1>5. f = Head(left[w]) \/ Listed(Tail(left[w]), f)
  BY <1>4, Lists
<1>6. CASE DeleteCheck(w)
  <2>1. CASE Referenced(Head(left[w]))
    <3>1. left'[w] = Tail(left[w]) /\ pc' = pc /\ readings' = readings
      BY <1>4, <1>6, <2>1 DEF DeleteCheck
    <3> QED
      BY <1>5, <2>1, <3>1 DEF ListGoesOn
  <2>2. CASE ~Referenced(Head(left[w]))
    <3>1. left'[w] = left[w] /\ pc'[w] = "deleteUnlink"
      BY <1>4, <1>6, <2>2 DEF DeleteCheck, Goto
    <3> QED
      BY <3>1 DEF ListGoesOn
  <2> QED BY <2>1, <2>2
<1>7. CASE DeleteUnlink(w)
  <2>1. left' = left /\ pc'[w] = "deleteUnregister"
    BY <1>7 DEF DeleteUnlink, Goto
  <2> QED
    BY <2>1 DEF ListGoesOn
<1>8. CASE DeleteUnregister(w)
  <2>1. /\ left'[w] = Tail(left[w]) /\ pc'[w] = "deleteCheck" /\ disk' = disk
        /\ pc[w] = "deleteUnregister"
    BY <1>8 DEF DeleteUnregister, Goto
  <2>2. f = Head(left[w]) => registry'[f] = None
    BY <1>8 DEF DeleteUnregister
  <2> QED
    BY <1>5, <2>1, <2>2 DEF ListGoesOn
<1>9. CASE CleanerStep \/ (\E g \in Files : GraceElapses(g))
           \/ (\E m \in Meters : DeleteMeter(m)) \/ \E p \in Properties : DeleteProperty(p)
  BY <1>0, <1>9 DEF CleanerStep, CleanerStart, CleanerVisit, CleanerEnd, GraceElapses,
              DeleteMeter, DeleteProperty
<1>10. CASE Crash
  BY <1>10 DEF Crash, ListGoesOn
<1> QED
  BY <1>0, <1>1, <1>2, <1>3, <1>6, <1>7, <1>8, <1>9, <1>10 DEF Next, DeleteStep

(* Where the state of a deletion comes from. *)
DeletionCameFrom(w) ==
    /\ pc'[w] = "deleteRow" =>
          \/ pc[w] = "deleteRow" /\ job'[w] = job[w]
          \/ \E u \in Users, id \in 1..MaxReadings : DeleteStart(w, u, id)
    /\ pc'[w] = "deleteUnregister" =>
          \/ pc[w] = "deleteUnregister" /\ left'[w] = left[w]
          \/ DeleteUnlink(w)
    /\ pc'[w] \in ListPc =>
          \/ DeleteRow(w)
          \/ pc[w] \in ListPc /\ (left'[w] = left[w] \/ (left[w] # <<>> /\ left'[w] = Tail(left[w])))

LEMMA DeletionJobs ==
    ASSUME TypeInv, [Next]_vars, NEW w \in Workers
    PROVE  DeletionCameFrom(w)
<1> USE DEF tables, threads, history, ListPc, TypeInv, TypeOK
<1> DEFINE Stays == pc'[w] = pc[w] /\ left'[w] = left[w] /\ job'[w] = job[w]
           Other == pc'[w] \notin ListPc \union {"deleteRow"}
<1>0. Stays \/ Other => DeletionCameFrom(w)
  BY DEF DeletionCameFrom
<1>1. CASE UNCHANGED vars
  BY <1>0, <1>1 DEF vars
<1>2. ASSUME NEW v \in Workers,
             \/ ScanStep(v) \/ \E q \in ScanRequests : ScanStore(v, q) \/ ScanStoreFails(v, q)
             \/ CreateStep(v) \/ \E q \in CreateRequests : CreateStart(v, q)
      PROVE  Stays \/ Other
  BY <1>2 DEF ScanStep, ScanStore, ScanStoreFails, ScanRegister, ScanOcr, ScanSerialRegister, ScanDone,
              ScanFail, ScanUnlink, ScanUnregister, CreateStep, CreateStart, CreateHash,
              CreateCheck, CreateInsert, Goto, Accept, Respond
<1>3. ASSUME NEW v \in Workers, NEW u \in Users, NEW id \in 1..MaxReadings, DeleteStart(v, u, id)
      PROVE  DeletionCameFrom(w)
  <2>1. v # w => Stays
    BY <1>3 DEF DeleteStart, Accept, Goto
  <2>2. v = w => pc'[w] = "deleteRow"
    BY <1>3 DEF DeleteStart, Accept, Goto
  <2> QED
    BY <1>0, <1>3, <2>1, <2>2 DEF DeletionCameFrom
<1>4. ASSUME NEW v \in Workers, DeleteRow(v) PROVE DeletionCameFrom(w)
  <2>1. v # w => Stays
    BY <1>4 DEF DeleteRow, Goto
  <2>2. v = w => pc'[w] = "deleteCheck"
    BY <1>4 DEF DeleteRow, Goto
  <2> QED
    BY <1>0, <1>4, <2>1, <2>2 DEF DeletionCameFrom
<1>5. ASSUME NEW v \in Workers, DeleteUnlink(v) PROVE DeletionCameFrom(w)
  <2>1. v # w => Stays
    BY <1>5 DEF DeleteUnlink, Goto
  <2>2. v = w => pc[w] \in ListPc /\ pc'[w] = "deleteUnregister" /\ left'[w] = left[w]
    BY <1>5 DEF DeleteUnlink, Goto
  <2> QED
    BY <1>0, <1>5, <2>1, <2>2 DEF DeletionCameFrom
<1>6. ASSUME NEW v \in Workers, DeleteUnregister(v) PROVE DeletionCameFrom(w)
  <2>1. v # w => Stays
    BY <1>6 DEF DeleteUnregister, Goto
  <2>2. v = w => /\ pc[w] \in ListPc /\ pc'[w] = "deleteCheck"
                 /\ left[w] # <<>> /\ left'[w] = Tail(left[w])
    BY <1>6 DEF DeleteUnregister, Goto, JobShape
  <2> QED
    BY <1>0, <2>1, <2>2 DEF DeletionCameFrom
<1>7. ASSUME NEW v \in Workers, DeleteCheck(v) PROVE DeletionCameFrom(w)
  <2>1. v # w => Stays
    BY <1>7 DEF DeleteCheck, Goto, Respond
  <2>2. v = w => /\ pc[w] \in ListPc /\ pc'[w] \in {"idle", "deleteCheck", "deleteUnlink"}
                 /\ \/ pc'[w] = "idle" \/ left'[w] = left[w]
                    \/ left[w] # <<>> /\ left'[w] = Tail(left[w])
    BY <1>7 DEF DeleteCheck, Goto, Respond
  <2> QED
    BY <1>0, <2>1, <2>2 DEF DeletionCameFrom
<1>8. CASE CleanerStep \/ Crash \/ (\E g \in Files : GraceElapses(g))
           \/ (\E m \in Meters : DeleteMeter(m)) \/ \E p \in Properties : DeleteProperty(p)
  BY <1>0, <1>8 DEF CleanerStep, CleanerStart, CleanerVisit, CleanerEnd, Crash, GraceElapses,
              DeleteMeter, DeleteProperty
<1> QED
  BY <1>0, <1>1, <1>2, <1>3, <1>4, <1>5, <1>6, <1>7, <1>8 DEF Next, DeleteStep

LEMMA DeletesStep ==
    ASSUME TypeInv, NamesInv, IdsInOrder, DeletesInv, [Next]_vars
    PROVE  DeletesInv'
<1> USE DEF DeletesInv
<1>0. /\ TypeInv' /\ NamesInv'
      /\ attached \subseteq attached' /\ attached' \subseteq published'
      /\ nextId \in Nat /\ nextId' \in Nat /\ nextId <= nextId'
      /\ published \subseteq published' /\ attached \subseteq published
      /\ DOMAIN readings' = DOMAIN readings /\ DOMAIN readings \subseteq Nat
  <2>1. TypeInv' /\ NamesInv'
    BY TypeStep, NamesStep
  <2>2. attached \subseteq attached'
    BY AttachStep DEF Attaches
  <2>3. published \subseteq published'
    BY PublishStep DEF Publishes
  <2>4. nextId \in Nat /\ nextId' \in Nat /\ nextId <= nextId'
    BY ReadingsStep DEF TypeInv, TypeOK, OnlyRemoves, Inserts
  <2>5. DOMAIN readings' = DOMAIN readings /\ DOMAIN readings \subseteq Nat
    BY <2>1 DEF TypeInv, TypeOK
  <2> QED
    BY <2>1, <2>2, <2>3, <2>4, <2>5 DEF NamesInv
(* A row that is there was there, or was created with what is attached now. *)
<1>1. ASSUME NEW id \in DOMAIN readings, readings'[id] # None
      PROVE  \/ readings'[id] = readings[id] /\ Exists(id)
             \/ id = nextId /\ Paths(readings'[id]) \subseteq attached'
  <2>1. CASE OnlyRemoves
    BY <1>1, <2>1 DEF OnlyRemoves, Exists
  <2>2. ASSUME NEW w \in Workers, Attaches(w)
        PROVE  \/ readings'[id] = readings[id]
               \/ id = nextId /\ Paths(readings'[id]) \subseteq attached'
    <3>1. id # nextId => readings'[id] = readings[id]
      BY <2>2 DEF Attaches, Inserts
    <3>2. id = nextId => readings'[id].image = job[w].image /\ readings'[id].serial = job[w].serial
      BY <2>2 DEF Attaches, Inserts
    <3> QED
      BY <2>2, <3>1, <3>2 DEF Attaches, Paths
  <2> QED
    BY <1>1, <2>1, <2>2, AttachStep DEF Exists
<1>2. \A id \in DOMAIN readings' : Exists(id)' => Paths(readings'[id]) \subseteq attached'
  BY <1>0, <1>1 DEF Exists
<1>3. ASSUME NEW w \in Workers, pc'[w] = "deleteRow"
      PROVE  /\ job'[w].rid < nextId' /\ Paths(job'[w]) \subseteq attached'
             /\ Exists(job[w].rid)' => Paths(readings'[job'[w].rid]) = Paths(job'[w])
  <2>1. CASE pc[w] = "deleteRow" /\ job'[w] = job[w]
    <3>1. job[w].rid \in DOMAIN readings /\ job[w].rid < nextId
      BY <2>1 DEF TypeInv, TypeOK, JobShape, DeletePc
    <3>2. job[w].rid < nextId' /\ job[w].rid # nextId
      BY <1>0, <3>1
    <3>3. Paths(job[w]) \subseteq attached'
      BY <1>0, <2>1
    <3>4. readings'[job[w].rid] # None => readings'[job[w].rid] = readings[job[w].rid] /\ Exists(job[w].rid)
      BY <1>1, <3>1, <3>2
    <3> QED
      BY <2>1, <3>2, <3>3, <3>4 DEF Exists
  <2>2. ASSUME NEW u \in Users, NEW id \in 1..MaxReadings, DeleteStart(w, u, id)
        PROVE  /\ job'[w].rid = id /\ Paths(job'[w]) = Paths(readings[id]) /\ Exists(id)
               /\ UNCHANGED <<readings, nextId, attached>> /\ id \in DOMAIN readings
    BY <2>2 DEF DeleteStart, Accept, TypeInv, TypeOK, Paths, tables, history
  <2>3. ASSUME NEW id \in 1..MaxReadings, job'[w].rid = id, Paths(job'[w]) = Paths(readings[id]),
               Exists(id), UNCHANGED <<readings, nextId, attached>>, id \in DOMAIN readings
        PROVE  /\ job'[w].rid < nextId' /\ Paths(job'[w]) \subseteq attached'
               /\ Exists(job[w].rid)' => Paths(readings'[job'[w].rid]) = Paths(job'[w])
    BY <2>3 DEF IdsInOrder
  <2> QED
    BY <1>3, <2>1, <2>2, <2>3, DeletionJobs DEF DeletionCameFrom
<1>4. ASSUME NEW w \in Workers, pc'[w] \in ListPc, NEW f \in Files, Listed(left'[w], f)
      PROVE  f \in published'
  <2>1. CASE DeleteRow(w)
    <3>1. left'[w] = PathList(job[w]) /\ pc[w] = "deleteRow" /\ job[w] \in Job
      BY <2>1 DEF DeleteRow, TypeInv, TypeOK
    <3> QED
      BY <1>0, <1>4, <3>1, ListOfJob
  <2>2. CASE pc[w] \in ListPc /\ left'[w] = left[w]
    BY <1>0, <1>4, <2>2
  <2>3. CASE pc[w] \in ListPc /\ left[w] # <<>> /\ left'[w] = Tail(left[w])
    <3>1. left[w] \in Seq(Files)
      BY DEF TypeInv, TypeOK
    <3> QED
      BY <1>0, <1>4, <2>3, <3>1, Lists
  <2> QED
    BY <1>4, <2>1, <2>2, <2>3, DeletionJobs DEF DeletionCameFrom
<1>5. ASSUME NEW w \in Workers, pc'[w] = "deleteUnregister"
      PROVE  ~OnDisk(Head(left[w]))'
  <2>1. CASE pc[w] = "deleteUnregister" /\ left'[w] = left[w]
    <3>1. left[w] \in Seq(Files) /\ left[w] # <<>>
      BY <2>1 DEF TypeInv, TypeOK, JobShape
    <3>2. PICK f \in published : f = Head(left[w])
      BY <2>1, <3>1, Lists DEF ListPc
    <3>3. ~OnDisk(f)'
      BY <2>1, <3>2, NothingComesBack
    <3> QED
      BY <2>1, <3>2, <3>3 DEF OnDisk
  <2>2. CASE DeleteUnlink(w)
    <3>1. left[w] \in Seq(Files) /\ left[w] # <<>>
      BY <2>2 DEF DeleteUnlink, TypeInv, TypeOK, JobShape
    <3>2. Head(left[w]) \in Files
      BY <3>1, Lists
    <3>3. left' = left /\ disk' = [disk EXCEPT ![Head(left[w])] = "removed"]
      BY <2>2 DEF DeleteUnlink, threads
    <3> QED
      BY <3>2, <3>3 DEF TypeInv, TypeOK, OnDisk
  <2> QED
    BY <1>5, <2>1, <2>2, DeletionJobs DEF DeletionCameFrom
<1>6. ASSUME crashes' = 0, meters' = Meters, NEW f \in attached'
      PROVE  Referenced(f)' \/ (~OnDisk(f)' /\ registry'[f] = None) \/ Listing(f)'
  <2>1. crashes = 0 /\ meters = Meters /\ crashes' # crashes + 1
    <3>1. crashes \in Nat /\ meters \subseteq Meters
      BY DEF TypeInv, TypeOK
    <3>2. meters' \subseteq meters /\ crashes' \in {crashes, crashes + 1}
      BY RunsDown
    <3>3. crashes = 0 /\ crashes' # crashes + 1
      BY <1>6, <3>1, <3>2
    <3> QED
      BY <1>6, <3>1, <3>2, <3>3
  <2>2. CASE f \notin attached
    <3>1. PICK w \in Workers : Attaches(w) /\ f \in Paths(job[w])
      BY <1>6, <2>2, AttachStep DEF Attaches
    <3>2. nextId \in DOMAIN readings' /\ readings'[nextId].image = job[w].image
          /\ readings'[nextId].serial = job[w].serial
      BY <1>0, <3>1 DEF Attaches, Inserts
    <3>3. readings'[nextId] # None
      <4>1. /\ pc[w] = "createInsert" /\ nextId \in DOMAIN readings
            /\ readings' = [readings EXCEPT ![nextId] =
                  [meter |-> job[w].meter, image |-> job[w].image, serial |-> job[w].serial,
                   hash |-> hash[w], by |-> job[w].user]]
        BY <3>1 DEF Attaches, Inserts
      <4>2. job[w] \in Job /\ job[w].user \in Users /\ job[w].meter \in Meters
        BY <4>1 DEF TypeInv, TypeOK, JobShape, CreatePc
      <4>3. [meter |-> job[w].meter, image |-> job[w].image, serial |-> job[w].serial,
             hash |-> hash[w], by |-> job[w].user] \in Reading
        BY <4>2 DEF TypeInv, TypeOK, Job, Reading
      <4> QED
        BY <4>1, <4>3, RowAssumption
    <3> QED
      BY <3>1, <3>2, <3>3 DEF Referenced, References, Exists, Paths
  <2>3. CASE Referenced(f)
    <3>1. PICK id \in DOMAIN readings : References(id, f)
      BY <2>3 DEF Referenced
    <3>2. readings'[id] = readings[id] => Referenced(f)'
      BY <1>0, <3>1 DEF Referenced, References, Exists
    <3>3. \A w \in Workers : Inserts(w) => readings'[id] = readings[id]
      BY <1>0, <3>1 DEF Inserts, IdsInOrder, References
    <3>4. ASSUME NEW w \in Workers, DeleteRow(w), readings'[id] # readings[id]
          PROVE  Listing(f)'
      <4>1. id = job[w].rid /\ pc[w] = "deleteRow" /\ pc'[w] = "deleteCheck"
            /\ left'[w] = PathList(job[w]) /\ job[w] \in Job
        BY <3>4 DEF DeleteRow, Goto, TypeInv, TypeOK
      <4>2. f \in Paths(job[w])
        BY <3>1, <4>1 DEF References
      <4>3. Listed(left'[w], f)
        BY <4>1, <4>2, ListOfJob, PathsOfJob
      <4> QED
        BY <4>1, <4>3 DEF Listing, ListPc
    <3> QED
      BY <1>6, <3>2, <3>3, <3>4, RunsDown
  <2>4. CASE f \in attached /\ ~OnDisk(f) /\ registry[f] = None
    BY <1>0, <2>4, NothingComesBack
  <2>5. ASSUME f \in attached, NEW w \in Workers, pc[w] \in ListPc, Listed(left[w], f)
        PROVE  Referenced(f)' \/ (~OnDisk(f)' /\ registry'[f] = None) \/ Listing(f)'
    <3>1. f \in Files
      BY <2>5 DEF TypeInv, TypeOK
    <3>2. ListGoesOn(w, f)
      BY <2>5, <3>1, ListMoves
    <3>3. CASE pc'[w] \in ListPc /\ Listed(left'[w], f)
      BY <3>3 DEF Listing
    <3>4. CASE Referenced(f) /\ readings' = readings
      BY <3>4 DEF Referenced, References, Exists
    <3>5. CASE /\ pc[w] = "deleteUnregister" /\ f = Head(left[w])
               /\ registry'[f] = None /\ disk' = disk
      BY <3>5 DEF OnDisk
    <3> QED
      BY <2>1, <3>2, <3>3, <3>4, <3>5 DEF ListGoesOn
  <2> QED
    BY <2>1, <2>2, <2>3, <2>4, <2>5 DEF Listing
<1> QED
  BY <1>2, <1>3, <1>4, <1>5, <1>6

(* However threads interleave and whatever of a scan fails - a write, a    *)
(* registration, the discard itself - what is on disk or registered is     *)
(* known to a client, held by a scan in flight, or what that failure left, *)
(* as long as the process runs, for any instance.                          *)
THEOREM FailedScansAreClean == Spec => []FailedScansLeaveNothing
<1> DEFINE I == TypeInv /\ NamesInv /\ BeginInv /\ FailedScansInv
<1>1. I /\ [Next]_vars => I'
  BY TypeStep, NamesStep, BeginStep, FailedScansStep
<1>2. I => FailedScansLeaveNothing
  BY DEF FailedScansInv, FailedScansLeaveNothing
<1>3. Init => I
  BY TypeInit, NamesInit
<1> QED
  BY <1>1, <1>2, <1>3, PTL DEF Spec

(* Concurrent deletions leave nothing of the files whose last reference    *)
(* they removed, for any number of threads, readings and shared photos.    *)
THEOREM DeletesAreClean == Spec => []DeletesLeaveNothing
<1> DEFINE I == TypeInv /\ Removal /\ NamesInv /\ DeletesInv
<1>1. Init => I
  BY TypeInit, NamesInit
  DEF Init, Removal, IdsInOrder, RemovalSparesEarlier, CleanerIdle, Exists, References
<1>2. I /\ [Next]_vars => I'
  BY TypeStep, RemovalStep, NamesStep, DeletesStep DEF Removal
<1>3. I => DeletesLeaveNothing
  BY DEF DeletesInv, DeletesLeaveNothing, Listing, ListPc, DeletePc
<1> QED
  BY <1>1, <1>2, <1>3, PTL DEF Spec
============================================================================
