---------------------------- MODULE UploadStore ----------------------------
(***************************************************************************)
(* Meter photos and the readings they are evidence for.                    *)
(*                                                                         *)
(* Three stores that no transaction spans: the upload directory (disk),    *)
(* the ownership registry (table upload_files) and the table readings.     *)
(* Scans write a file, then register it; creating a reading checks the     *)
(* registry, hashes the file, looks for duplicates and inserts; deleting a *)
(* reading commits and only then unlinks; the nightly clean-up unlinks     *)
(* what no reading referenced when it looked.  Each of these is a request  *)
(* thread (or the scheduler's thread) of its own, so their steps           *)
(* interleave; one action below is one database statement, one commit or   *)
(* one file operation.                                                     *)
(*                                                                         *)
(* Membership is constant here (module Catalog models its changes), and *)
(* the meters are those that were never replaced.                          *)
(***************************************************************************)
EXTENDS Naturals, Sequences

CONSTANTS
    Users, GlobalAdmins,   \* accounts, and those with the role admin or superadmin
    Properties, Meters,
    PropertyOf,            \* meter -> property
    Role,                  \* property -> account -> property role or "none"
    Files,                 \* names uuid4 can draw, each drawn once
    Images, ImageOf,       \* SHA-256 of the bytes stored under a name
    ScanRequests, CreateRequests,  \* the requests clients send
    Workers,               \* request threads
    MaxReadings,           \* bound: readings ever inserted
    MaxCrashes,            \* bound: process restarts
    None

PropertyRole == {"admin", "manager", "user"}

ASSUME StoreAssumption ==
    /\ GlobalAdmins \subseteq Users
    /\ PropertyOf \in [Meters -> Properties]
    /\ Role \in [Properties -> [Users -> PropertyRole \union {"none"}]]
    /\ ImageOf \in [Files -> Images]
    /\ ScanRequests \subseteq [user : Users, meter : Meters \union {None}, image : Files,
                               serial : Files \union {None}, rid : {0}]
    /\ CreateRequests \subseteq [user : Users, meter : Meters, image : Files \union {None},
                                 serial : Files \union {None}, rid : {0}]
    /\ MaxReadings \in Nat
    /\ MaxCrashes \in Nat
    /\ None \notin Users \union Properties \union Meters \union Files \union Images

VARIABLES
    props, meters,  \* rows of properties and meters
    disk,           \* file -> "unused" | "fresh" | "old" | "removed"
    registry,       \* file -> row of upload_files or None
    readings,       \* id -> row of readings or None
    nextId,         \* sequence of readings.id
    published,      \* files whose path a response has handed to clients
    pc, job, hash, left,  \* request threads
    cleaner,        \* the retention thread
    crashes,
    origin,         \* history: the rows a file was ever registered with
    attached,       \* history: files some reading was ever created with
    spilled,        \* history: files a failed write, registration or unlink left
    stray,          \* history: files whose row a failed DELETE left
    asOf            \* history: nextId when a thread last looked for references

tables  == <<props, meters, registry, readings, nextId>>
threads == <<pc, job, hash, left, asOf>>
history == <<origin, attached, spilled, stray>>
vars == <<tables, disk, published, threads, cleaner, crashes, history>>

----------------------------------------------------------------------------
Registration == [prop : Properties \union {None}, owner : Users]

Reading == [meter : Meters, image : Files \union {None}, serial : Files \union {None},
            hash : Images \union {None}, by : Users]

ASSUME RowAssumption == None \notin Reading

Job == [user : Users \union {None}, meter : Meters \union {None},
        image : Files \union {None}, serial : Files \union {None}, rid : Nat]

NoJob == [user |-> None, meter |-> None, image |-> None, serial |-> None, rid |-> 0]

ScanPc == {"scanRegister", "scanOcr", "scanSerialRegister", "scanSerialOcr",
           "scanUnlink", "scanUnregister"}
CreatePc == {"createHash", "createCheck", "createInsert"}
DeletePc == {"deleteRow", "deleteCheck", "deleteUnlink", "deleteUnregister"}
Pc == {"idle"} \union ScanPc \union CreatePc \union DeletePc

TypeOK ==
    /\ props \subseteq Properties /\ meters \subseteq Meters
    /\ disk \in [Files -> {"unused", "fresh", "old", "removed"}]
    /\ registry \in [Files -> Registration \union {None}]
    /\ readings \in [1..MaxReadings -> Reading \union {None}]
    /\ nextId \in 1..(MaxReadings + 1)
    /\ published \subseteq Files
    /\ pc \in [Workers -> Pc]
    /\ job \in [Workers -> Job]
    /\ hash \in [Workers -> Images \union {None}]
    /\ left \in [Workers -> Seq(Files)]
    /\ cleaner \in [on : BOOLEAN, kept : SUBSET Files, young : SUBSET Files,
                   todo : SUBSET Files, asOf : Nat]
    /\ crashes \in 0..MaxCrashes
    /\ origin \in [Files -> SUBSET Registration]
    /\ attached \subseteq Files
    /\ spilled \subseteq Files /\ stray \subseteq Files
    /\ asOf \in [Workers -> Nat]

----------------------------------------------------------------------------
OnDisk(f) == disk[f] \in {"fresh", "old"}

Paths(r) == {r.image, r.serial} \ {None}

PathList(r) == (IF r.image = None THEN <<>> ELSE <<r.image>>)
               \o (IF r.serial = None THEN <<>> ELSE <<r.serial>>)

Exists(id) == readings[id] # None

References(id, f) == Exists(id) /\ f \in Paths(readings[id])

(* Mutant: the serial crop is forgotten. *)
ReferencedAsImage(f) == \E id \in DOMAIN readings : Exists(id) /\ readings[id].image = f

Referenced(f) == \E id \in DOMAIN readings : References(id, f)

LevelRoles == [read |-> PropertyRole, write |-> {"admin", "manager"}, delete |-> {"admin"}]

HasAccess(u, p, level) == u \in GlobalAdmins \/ Role[p][u] \in LevelRoles[level]

MeterAccess(u, m, level) == m \in meters /\ HasAccess(u, PropertyOf[m], level)

(* Mutant: a file scanned without a meter belongs to everybody. *)
MayUseUntied(u, f, p) ==
    /\ registry[f] # None
    /\ u \in GlobalAdmins \/ registry[f].owner = u \/ registry[f].prop \in {p, None}

(* may_use_upload with the property the file is about to be used for. *)
MayUse(u, f, p) ==
    /\ registry[f] # None
    /\ \/ u \in GlobalAdmins
       \/ registry[f].owner = u
       \/ registry[f].prop = p

(* The readings _find_duplicate_reading can see: every one for a global    *)
(* admin, those of the caller's properties for anyone else.                *)
Duplicate(u, h) ==
    \E id \in DOMAIN readings :
        /\ Exists(id) /\ readings[id].hash = h
        /\ HasAccess(u, PropertyOf[readings[id].meter], "read")

(* Mutant: no such index, the look-up alone decides. *)
NoIndex(m, h) == TRUE

(* The partial unique index uq_readings_meter_image_hash. *)
IndexAllows(m, h) ==
    h = None \/ ~ \E id \in DOMAIN readings :
        Exists(id) /\ readings[id].meter = m /\ readings[id].hash = h

(* Rows left after the database cascades the deletion of the meters ms. *)
WithoutMeters(ms) ==
    [id \in DOMAIN readings |->
        IF Exists(id) /\ readings[id].meter \in ms THEN None ELSE readings[id]]

----------------------------------------------------------------------------
Goto(w, to) == pc' = [pc EXCEPT ![w] = to]

(* The request ends, with whatever answer; its thread is free again. *)
Respond(w) ==
    /\ pc' = [pc EXCEPT ![w] = "idle"]
    /\ job' = [job EXCEPT ![w] = NoJob]
    /\ hash' = [hash EXCEPT ![w] = None]
    /\ left' = [left EXCEPT ![w] = <<>>]
    /\ asOf' = [asOf EXCEPT ![w] = 0]

Accept(w, j, to) ==
    /\ pc[w] = "idle"
    /\ job' = [job EXCEPT ![w] = j]
    /\ Goto(w, to)

----------------------------------------------------------------------------
(* POST /ocr/scan.  The photo and the optional serial crop get names drawn *)
(* by uuid4; the scan may be tied to a meter the caller can read.          *)

(* A name nobody has drawn: neither stored nor held by a scan in flight. *)
Unused(f) == disk[f] = "unused" /\ \A v \in Workers : f \notin Paths(job[v])

MayScan(q) ==
    /\ q.meter = None \/ MeterAccess(q.user, q.meter, "read")
    /\ q.image # q.serial /\ \A f \in Paths(q) : Unused(f)

ScanStore(w, q) ==
    /\ MayScan(q)
    /\ Accept(w, q, "scanRegister")
    /\ disk' = [disk EXCEPT ![q.image] = "fresh"]
    /\ UNCHANGED <<tables, published, hash, left, asOf, cleaner, crashes, history>>

(* The write of the photo fails halfway (a full disk): the request answers *)
(* 500 and nothing removes the piece.                                      *)
ScanStoreFails(w, q) ==
    /\ pc[w] = "idle" /\ MayScan(q)
    /\ disk' = [disk EXCEPT ![q.image] = "fresh"]
    /\ spilled' = spilled \union {q.image}
    /\ UNCHANGED <<tables, published, threads, cleaner, crashes, origin, attached, stray>>

ScanProperty(w) == IF job[w].meter = None THEN None ELSE PropertyOf[job[w].meter]

(* The insert fails when the property is gone: foreign key.                *)
CanRegister(w) == ScanProperty(w) \in props \union {None}

Register(w, f) ==
    LET row == [prop |-> ScanProperty(w), owner |-> job[w].user]
    IN  /\ registry' = [registry EXCEPT ![f] = row]
        /\ origin' = [origin EXCEPT ![f] = @ \union {row}]

(* register_upload and commit of the photo.  It is outside the try block,  *)
(* so a failure - the property is gone, or any other of the database -     *)
(* answers 500 and leaves the file behind.                                 *)
ScanRegister(w) ==
    /\ pc[w] = "scanRegister"
    /\ \/ /\ CanRegister(w)
          /\ Register(w, job[w].image)
          /\ Goto(w, "scanOcr")
          /\ UNCHANGED <<job, hash, left, asOf, spilled>>
       \/ /\ spilled' = spilled \union {job[w].image}
          /\ Respond(w)
          /\ UNCHANGED <<registry, origin>>
    /\ UNCHANGED <<props, meters, readings, nextId, disk, published, cleaner, crashes,
                   attached, stray>>

(* OCR answered; without a serial crop the scan is done, else store it.    *)
(* The crop's name joins `stored` once it is written: of a write that      *)
(* fails halfway the handler knows no name to discard.                     *)
ScanOcr(w) ==
    /\ pc[w] = "scanOcr"
    /\ \/ /\ job[w].serial = None
          /\ published' = published \union {job[w].image}
          /\ Respond(w)
          /\ UNCHANGED <<disk, spilled>>
       \/ /\ job[w].serial # None
          /\ disk' = [disk EXCEPT ![job[w].serial] = "fresh"]
          /\ \/ Goto(w, "scanSerialRegister") /\ UNCHANGED <<job, spilled>>
             \/ /\ spilled' = spilled \union {job[w].serial}
                /\ job' = [job EXCEPT ![w].serial = None]
                /\ Goto(w, "scanUnlink")
          /\ UNCHANGED <<published, hash, left, asOf>>
    /\ UNCHANGED <<tables, cleaner, crashes, origin, attached, stray>>

ScanSerialRegister(w) ==
    /\ pc[w] = "scanSerialRegister"
    /\ \/ /\ CanRegister(w)
          /\ Register(w, job[w].serial)
          /\ Goto(w, "scanSerialOcr")
       \/ /\ Goto(w, "scanUnlink")
          /\ UNCHANGED <<registry, origin>>
    /\ UNCHANGED <<props, meters, readings, nextId, disk, published, job, hash, left, asOf,
                   cleaner, crashes, attached, spilled, stray>>

ScanDone(w) ==
    /\ pc[w] = "scanSerialOcr"
    /\ published' = published \union {job[w].image, job[w].serial}
    /\ Respond(w)
    /\ UNCHANGED <<tables, disk, cleaner, crashes, history>>

(* The OCR service or the LLM gateway failed. *)
ScanFail(w) ==
    /\ pc[w] \in {"scanOcr", "scanSerialOcr"}
    /\ Goto(w, "scanUnlink")
    /\ UNCHANGED <<tables, disk, published, job, hash, left, asOf, cleaner, crashes, history>>

(* Mutant: only the photo is discarded. *)
ScanUnlinkPhoto(w) ==
    /\ pc[w] = "scanUnlink"
    /\ disk' = [disk EXCEPT ![job[w].image] = "removed"]
    /\ Goto(w, "scanUnregister")
    /\ UNCHANGED <<tables, published, job, hash, left, asOf, cleaner, crashes, history>>

(* _discard_upload: the names in `stored`, on disk first; an unlink that   *)
(* fails is logged and the file stays.  The serial name of a scan that     *)
(* failed before storing it is still unused.                               *)
ScanUnlink(w) ==
    /\ pc[w] = "scanUnlink"
    /\ \E stays \in SUBSET {f \in Paths(job[w]) : OnDisk(f)} :
          /\ disk' = [f \in Files |-> IF f \in Paths(job[w]) \ stays /\ OnDisk(f)
                                     THEN "removed" ELSE disk[f]]
          /\ spilled' = spilled \union stays
    /\ Goto(w, "scanUnregister")
    /\ UNCHANGED <<tables, published, job, hash, left, asOf, cleaner, crashes,
                   origin, attached, stray>>

(* ... and then in the registry, in one DELETE.  Any failure of it is      *)
(* rolled back and logged and the rows stay; after a failed registration   *)
(* the session refuses the statement, so that it always fails.             *)
ScanUnregister(w) ==
    /\ pc[w] = "scanUnregister"
    /\ \/ /\ registry' = [f \in Files |-> IF f \in Paths(job[w]) THEN None ELSE registry[f]]
          /\ UNCHANGED stray
       \/ /\ stray' = stray \union {f \in Paths(job[w]) : registry[f] # None}
          /\ UNCHANGED registry
    /\ Respond(w)
    /\ UNCHANGED <<props, meters, readings, nextId, disk, published, cleaner, crashes,
                   origin, attached, spilled>>

----------------------------------------------------------------------------
(* POST .../readings.  Only requests that pass the checks are steps: a     *)
(* refused one changes nothing.                                            *)

CreateStart(w, q) ==
    /\ MeterAccess(q.user, q.meter, "write")
    /\ \A f \in Paths(q) : f \in published /\ MayUse(q.user, f, PropertyOf[q.meter])
    /\ Accept(w, q, "createHash")
    /\ UNCHANGED <<tables, disk, published, hash, left, asOf, cleaner, crashes, history>>

(* A missing file is no error: the reading is stored without a hash. *)
CreateHash(w) ==
    /\ pc[w] = "createHash"
    /\ LET f == job[w].image
       IN  hash' = [hash EXCEPT ![w] =
                        IF f # None /\ OnDisk(f) THEN ImageOf[f] ELSE None]
    /\ Goto(w, "createCheck")
    /\ UNCHANGED <<tables, disk, published, job, left, asOf, cleaner, crashes, history>>

CreateCheck(w) ==
    /\ pc[w] = "createCheck"
    /\ \/ /\ hash[w] # None /\ Duplicate(job[w].user, hash[w])   \* 409
          /\ Respond(w)
       \/ /\ hash[w] = None \/ ~Duplicate(job[w].user, hash[w])
          /\ Goto(w, "createInsert")
          /\ UNCHANGED <<job, hash, left, asOf>>
    /\ UNCHANGED <<tables, disk, published, cleaner, crashes, history>>

(* flush and commit; the index or the meter's foreign key may refuse. *)
CreateInsert(w) ==
    /\ pc[w] = "createInsert"
    /\ \/ /\ job[w].meter \in meters /\ IndexAllows(job[w].meter, hash[w])
          /\ nextId <= MaxReadings
          /\ readings' = [readings EXCEPT ![nextId] =
                [meter |-> job[w].meter, image |-> job[w].image, serial |-> job[w].serial,
                 hash |-> hash[w], by |-> job[w].user]]
          /\ nextId' = nextId + 1
          /\ attached' = attached \union Paths(job[w])
       \/ /\ job[w].meter \notin meters \/ ~IndexAllows(job[w].meter, hash[w])
          /\ UNCHANGED <<readings, nextId, attached>>
    /\ Respond(w)
    /\ UNCHANGED <<props, meters, registry, disk, published, cleaner, crashes,
                   origin, spilled, stray>>

----------------------------------------------------------------------------
(* DELETE .../readings/{id}.                                               *)

(* Mutant: other references are looked up before the row is deleted. *)
DeleteStartChecks(w, u, id) ==
    LET alone(f) == IF \E i \in DOMAIN readings : i # id /\ References(i, f) THEN None ELSE f
    IN  /\ Exists(id)
        /\ MeterAccess(u, readings[id].meter, "delete")
        /\ Accept(w, [user |-> u, meter |-> readings[id].meter,
                      image |-> alone(readings[id].image),
                      serial |-> alone(readings[id].serial), rid |-> id], "deleteRow")
        /\ UNCHANGED <<tables, disk, published, hash, left, asOf, cleaner, crashes, history>>

DeleteStart(w, u, id) ==
    /\ Exists(id)
    /\ MeterAccess(u, readings[id].meter, "delete")
    /\ Accept(w, [user |-> u, meter |-> readings[id].meter, image |-> readings[id].image,
                  serial |-> readings[id].serial, rid |-> id], "deleteRow")
    /\ UNCHANGED <<tables, disk, published, hash, left, asOf, cleaner, crashes, history>>

(* The ORM's DELETE may find no row any more; that is only a warning. *)
DeleteRow(w) ==
    /\ pc[w] = "deleteRow"
    /\ readings' = [readings EXCEPT ![job[w].rid] = None]
    /\ left' = [left EXCEPT ![w] = PathList(job[w])]
    /\ Goto(w, "deleteCheck")
    /\ UNCHANGED <<props, meters, registry, nextId, disk, published, job, hash, asOf,
                   cleaner, crashes, history>>

(* other_references for the next path, or the end of the request. *)
DeleteCheck(w) ==
    /\ pc[w] = "deleteCheck"
    /\ \/ /\ left[w] = <<>>
          /\ Respond(w)
       \/ /\ left[w] # <<>> /\ Referenced(Head(left[w]))
          /\ left' = [left EXCEPT ![w] = Tail(@)]
          /\ UNCHANGED <<pc, job, hash, asOf>>
       \/ /\ left[w] # <<>> /\ ~Referenced(Head(left[w]))
          /\ asOf' = [asOf EXCEPT ![w] = nextId]
          /\ Goto(w, "deleteUnlink")
          /\ UNCHANGED <<job, hash, left>>
    /\ UNCHANGED <<tables, disk, published, cleaner, crashes, history>>

DeleteUnlink(w) ==
    /\ pc[w] = "deleteUnlink"
    /\ disk' = [disk EXCEPT ![Head(left[w])] = "removed"]
    /\ Goto(w, "deleteUnregister")
    /\ UNCHANGED <<tables, published, job, hash, left, asOf, cleaner, crashes, history>>

DeleteUnregister(w) ==
    /\ pc[w] = "deleteUnregister"
    /\ registry' = [registry EXCEPT ![Head(left[w])] = None]
    /\ left' = [left EXCEPT ![w] = Tail(@)]
    /\ Goto(w, "deleteCheck")
    /\ UNCHANGED <<props, meters, readings, nextId, disk, published, job, hash, asOf,
                   cleaner, crashes, history>>

----------------------------------------------------------------------------
(* cleanup_orphan_uploads, once a night on the scheduler's thread.         *)

CleanerIdle == [on |-> FALSE, kept |-> {}, young |-> {}, todo |-> {}, asOf |-> 0]

(* Mutant: only registered files are looked at. *)
CleanerStartRegistered ==
    /\ ~cleaner.on
    /\ cleaner' = [on |-> TRUE,
                   kept |-> {f \in Files : Referenced(f)},
                   young |-> {f \in Files : disk[f] = "fresh"},
                   todo |-> {f \in Files : OnDisk(f) /\ registry[f] # None},
                   asOf |-> nextId]
    /\ UNCHANGED <<tables, disk, published, threads, crashes, history>>

(* The references are read, the cut-off is taken and the directory listed. *)
CleanerStart ==
    /\ ~cleaner.on
    /\ cleaner' = [on |-> TRUE,
                   kept |-> {f \in Files : Referenced(f)},
                   young |-> {f \in Files : disk[f] = "fresh"},
                   todo |-> {f \in Files : OnDisk(f)},
                   asOf |-> nextId]
    /\ UNCHANGED <<tables, disk, published, threads, crashes, history>>

(* One directory entry.  It is removed when unreferenced and older than    *)
(* the cut-off; a file that vanishes between is_file and stat ends the job *)
(* with an exception.                                                      *)
CleanerVisit(f) ==
    /\ cleaner.on /\ f \in cleaner.todo
    /\ disk' = [disk EXCEPT ![f] =
                    IF OnDisk(f) /\ f \notin cleaner.kept \union cleaner.young
                    THEN "removed" ELSE @]
    /\ \/ cleaner' = [cleaner EXCEPT !.todo = @ \ {f}]
       \/ /\ ~OnDisk(f) /\ f \notin cleaner.kept
          /\ cleaner' = CleanerIdle
    /\ UNCHANGED <<tables, published, threads, crashes, history>>

CleanerEnd ==
    /\ cleaner.on /\ cleaner.todo = {}
    /\ cleaner' = CleanerIdle
    /\ UNCHANGED <<tables, disk, published, threads, crashes, history>>

(* 24 hours pass over a file.  No scan is in flight that long: the OCR and *)
(* gateway calls have timeouts of at most minutes.                         *)
GraceElapses(f) ==
    /\ disk[f] = "fresh"
    /\ \A w \in Workers : pc[w] \in ScanPc => f \notin Paths(job[w])
    /\ disk' = [disk EXCEPT ![f] = "old"]
    /\ UNCHANGED <<tables, published, threads, cleaner, crashes, history>>

----------------------------------------------------------------------------
(* DELETE of a meter or a property: the readings go by cascade, the        *)
(* property's registry rows too, the files stay.                           *)

DeleteMeter(m) ==
    /\ \E u \in Users : MeterAccess(u, m, "delete")
    /\ meters' = meters \ {m}
    /\ readings' = WithoutMeters({m})
    /\ UNCHANGED <<props, registry, nextId, disk, published, threads, cleaner, crashes, history>>

DeleteProperty(p) ==
    /\ GlobalAdmins # {} /\ p \in props
    /\ LET gone == {m \in meters : PropertyOf[m] = p}
       IN  meters' = meters \ gone /\ readings' = WithoutMeters(gone)
    /\ props' = props \ {p}
    /\ registry' = [f \in Files |->
                       IF registry[f] # None /\ registry[f].prop = p THEN None ELSE registry[f]]
    /\ UNCHANGED <<nextId, disk, published, threads, cleaner, crashes, history>>

(* The backend process dies and is started again. *)
Crash ==
    /\ crashes < MaxCrashes
    /\ crashes' = crashes + 1
    /\ pc' = [w \in Workers |-> "idle"]
    /\ job' = [w \in Workers |-> NoJob]
    /\ hash' = [w \in Workers |-> None]
    /\ left' = [w \in Workers |-> <<>>]
    /\ asOf' = [w \in Workers |-> 0]
    /\ cleaner' = CleanerIdle
    /\ UNCHANGED <<tables, disk, published, history>>

----------------------------------------------------------------------------
Init ==
    /\ props = Properties /\ meters = Meters
    /\ disk = [f \in Files |-> "unused"]
    /\ registry = [f \in Files |-> None]
    /\ readings = [id \in 1..MaxReadings |-> None]
    /\ nextId = 1
    /\ published = {}
    /\ pc = [w \in Workers |-> "idle"]
    /\ job = [w \in Workers |-> NoJob]
    /\ hash = [w \in Workers |-> None]
    /\ left = [w \in Workers |-> <<>>]
    /\ cleaner = CleanerIdle
    /\ crashes = 0
    /\ origin = [f \in Files |-> {}]
    /\ attached = {}
    /\ spilled = {} /\ stray = {}
    /\ asOf = [w \in Workers |-> 0]

ScanStep(w) ==
    \/ ScanRegister(w) \/ ScanOcr(w) \/ ScanSerialRegister(w) \/ ScanDone(w)
    \/ ScanFail(w) \/ ScanUnlink(w) \/ ScanUnregister(w)

CreateStep(w) == CreateHash(w) \/ CreateCheck(w) \/ CreateInsert(w)

DeleteStep(w) == DeleteRow(w) \/ DeleteCheck(w) \/ DeleteUnlink(w) \/ DeleteUnregister(w)

CleanerStep == CleanerStart \/ CleanerEnd \/ \E f \in Files : CleanerVisit(f)

Next ==
    \/ \E w \in Workers :
        \/ \E q \in ScanRequests : ScanStore(w, q) \/ ScanStoreFails(w, q)
        \/ \E q \in CreateRequests : CreateStart(w, q)
        \/ \E u \in Users, id \in 1..MaxReadings : DeleteStart(w, u, id)
    \/ \E w \in Workers : ScanStep(w) \/ CreateStep(w) \/ DeleteStep(w)
    \/ CleanerStep
    \/ \E f \in Files : GraceElapses(f)
    \/ \E m \in Meters : DeleteMeter(m)
    \/ \E p \in Properties : DeleteProperty(p)
    \/ Crash

Spec == Init /\ [][Next]_vars

(* Every thread that was started runs on, the clean-up runs every night    *)
(* and visits every entry, and files age.                                  *)
Fairness ==
    /\ \A w \in Workers : WF_vars(ScanStep(w) \/ CreateStep(w) \/ DeleteStep(w))
    /\ WF_vars(CleanerStart) /\ WF_vars(CleanerEnd)
    /\ \A f \in Files : WF_vars(CleanerVisit(f)) /\ WF_vars(GraceElapses(f))

FairSpec == Spec /\ Fairness

----------------------------------------------------------------------------
(* Two readings of one meter never carry the same image, however the       *)
(* look-ups and inserts of concurrent POSTs interleave: create_reading     *)
(* checks first, the unique index decides (F-022).                         *)
UniqueImagePerMeter ==
    \A i, j \in DOMAIN readings :
        /\ Exists(i) /\ Exists(j) /\ readings[i].hash # None
        /\ readings[i].meter = readings[j].meter
        /\ readings[i].hash = readings[j].hash
        => i = j

(* A photo attached to a reading, as image or as serial crop, was uploaded *)
(* by the account that created the reading, or for the property of its     *)
(* meter; only global admins are exempt.  The registry row may be gone by  *)
(* then, the check was made when there was one (F-004).                    *)
MayAttach(row, u, p) == u \in GlobalAdmins \/ row.owner = u \/ row.prop = p

EvidenceOwned ==
    \A id \in DOMAIN readings : Exists(id) =>
        LET r == readings[id]
        IN  \A f \in Paths(r) : \E row \in origin[f] : MayAttach(row, r.by, PropertyOf[r.meter])

(* Whoever is about to unlink a file - delete_reading after its reference  *)
(* check, the clean-up after its snapshot - can only hit readings inserted *)
(* after it looked; those that were there already keep their photo.        *)
RemovalSparesEarlier ==
    /\ \A w \in Workers : pc[w] = "deleteUnlink" =>
           \A id \in DOMAIN readings :
               References(id, Head(left[w])) => id >= asOf[w]
    /\ cleaner.on =>
           \A f \in cleaner.todo \ cleaner.kept, id \in DOMAIN readings :
               References(id, f) => id >= cleaner.asOf

(* Concurrent deletions of the readings that share a file: the one that    *)
(* commits last finds no other reference and removes file and row, so      *)
(* nothing is left behind when they are done.  (Restarts and cascades do   *)
(* leave files; the clean-up is for those.)                                *)
DeletesLeaveNothing ==
    /\ crashes = 0 /\ meters = Meters
    /\ \A w \in Workers : pc[w] \notin DeletePc
    => \A f \in attached : Referenced(f) \/ (~OnDisk(f) /\ registry[f] = None)

Held(f) == \E w \in Workers : pc[w] \in ScanPc /\ f \in Paths(job[w])

(* A failed scan removes everything it wrote (F-028), except for what the  *)
(* step that failed left: whatever is on disk was handed to a client,      *)
(* belongs to a scan in flight or is `spilled`, and so for the registry    *)
(* and `stray`, as long as the process lives.                              *)
FailedScansLeaveNothing ==
    crashes = 0 =>
        \A f \in Files :
            /\ OnDisk(f) => f \in published \/ Held(f) \/ f \in spilled
            /\ registry[f] # None => f \in published \/ Held(f) \/ f \in stray

(* A file that no reading references does not stay for ever, whatever      *)
(* crash or failure left it there: it is attached or removed eventually.   *)
OrphansCollected ==
    \A f \in Files : OnDisk(f) /\ ~Referenced(f) ~> ~OnDisk(f) \/ Referenced(f)

----------------------------------------------------------------------------
(* What documents and comments say, and the code does not do.              *)

(* specs/006, FR-002: "deletion never removes a file that other readings   *)
(* reference."  A POST may attach the file between check and unlink.       *)
DeletionSparesReferenced ==
    [][\A w \in Workers : DeleteUnlink(w) => ~Referenced(Head(left[w]))]_vars
=============================================================================
