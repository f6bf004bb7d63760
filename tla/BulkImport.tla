---------------------------- MODULE BulkImport ----------------------------
(***************************************************************************)
(* The bulk import: many meter photos scanned in batches, reviewed, saved. *)
(*                                                                         *)
(* The client (BulkImport.vue) cuts the selected files into batches and    *)
(* sends one request after the other; the server (bulk_scan_meters)        *)
(* answers each with a stream of events, one per file, from a generator    *)
(* that stores, registers and reads one file at a time.  The connection    *)
(* may break at any moment: the client goes on with its next batch while   *)
(* the generator of the broken one still runs, until it is cancelled.      *)
(* When all batches are through, the user reviews, edits and removes the   *)
(* rows and saves them, one POST after the other.                          *)
(*                                                                         *)
(* One import per behaviour.  A stored photo is named by the file it was   *)
(* made from; what was read from it is abstracted to whether the row has   *)
(* a meter and a value.                                                    *)
(***************************************************************************)
EXTENDS Naturals, FiniteSets, SequencesExt

CONSTANTS
    Files, SizeOf,         \* files the user can select, and their sizes
    Selections,            \* the sequences of files a user selects
    MaxBatchBytes, MaxBatchFiles,   \* BATCH_MAX_BYTES, BATCH_MAX_FILES
    Images, ImageOf,       \* hash of the sanitised bytes
    Unusable,              \* files the server's checks refuse
    KnownImages,           \* images the accessible meters already have readings of
    LlmEngine,             \* the engine chosen is not "ocr"
    MaxCuts                \* bound: broken connections

ASSUME ImportAssumption ==
    /\ SizeOf \in [Files -> Nat]
    /\ IsFiniteSet(Files)
    /\ Selections \subseteq Seq(Files) /\ \A files \in Selections : IsInjective(files)
    /\ MaxBatchBytes \in Nat /\ MaxBatchFiles \in Nat \ {0}
    /\ ImageOf \in [Files -> Images]
    /\ Unusable \subseteq Files /\ KnownImages \subseteq Images
    /\ LlmEngine \in BOOLEAN /\ MaxCuts \in Nat

VARIABLES
    stage,                  \* "upload" | "scanning" | "review" | "done"
    batches, current,       \* the batches, and the one being scanned
    awaiting, stream,       \* the response is being read; its unread events
    rows, row,              \* reviewItems: keys in order, and their contents
    scanDone,
    gen,                    \* batch -> state of the server's generator
    stored, registered,     \* files in the upload directory, rows of the registry
    spilled, stray,         \* history: files and rows that a failed write or discard left
    readings,               \* rows saved as readings
    committing, queue, commitDone, commitSaved, commitFailed,
    removed,                \* history: rows the user took out
    cuts                    \* history: broken connections

client  == <<stage, batches, current, awaiting, rows, row, scanDone>>
commits == <<committing, queue, commitDone, commitSaved, commitFailed>>
uploads == <<stored, registered, spilled, stray>>
server  == <<gen, uploads>>
history == <<removed, cuts>>
vars == <<client, stream, server, readings, commits, history>>

----------------------------------------------------------------------------
(* buildBatches: a batch is closed when the next file would exceed either  *)
(* limit.                                                                  *)

Bytes(b) ==
    LET sum[n \in 0..Len(b)] == IF n = 0 THEN 0 ELSE sum[n - 1] + SizeOf[b[n]]
    IN  sum[Len(b)]

Overfull(b, f) == Bytes(b) + SizeOf[f] > MaxBatchBytes \/ Len(b) >= MaxBatchFiles

(* Mutant: the file that does not fit joins the batch it closes. *)
AddFileLate(bs, f) ==
    IF bs = <<>> \/ (Bytes(Last(bs)) > MaxBatchBytes \/ Len(Last(bs)) >= MaxBatchFiles)
    THEN Append(bs, <<f>>)
    ELSE Append(Front(bs), Append(Last(bs), f))

AddFile(bs, f) ==
    IF bs = <<>> \/ Overfull(Last(bs), f)
    THEN Append(bs, <<f>>)
    ELSE Append(Front(bs), Append(Last(bs), f))

BuildBatches(files) ==
    LET built[n \in 0..Len(files)] == IF n = 0 THEN <<>> ELSE AddFile(built[n - 1], files[n])
    IN  built[Len(files)]

----------------------------------------------------------------------------
BatchNo == 1..Cardinality(Files)

(* A row comes from the stream or from the catch of a batch that failed. *)
Keys == [file : Files, from : {"stream", "catch"}]

ErrorRow == [error |-> TRUE, photo |-> FALSE, ready |-> FALSE, dup |-> "no"]

Idle == [pc |-> "idle", payloads |-> <<>>, seen |-> {}, dup |-> "no", abort |-> FALSE]

----------------------------------------------------------------------------
(* The client scans.                                                       *)

StartScan(files) ==
    /\ stage = "upload" /\ batches = <<>> /\ files # <<>>
    /\ stage' = "scanning"
    /\ batches' = BuildBatches(files)
    /\ UNCHANGED <<current, awaiting, rows, row, scanDone, stream, server, readings, commits, history>>

(* The request passed the limits; the response begins. *)
Send ==
    /\ stage = "scanning" /\ ~awaiting /\ current <= Len(batches)
    /\ awaiting' = TRUE
    /\ gen' = [gen EXCEPT ![current] = [Idle EXCEPT !.pc = "next", !.payloads = batches[current]]]
    /\ UNCHANGED <<stage, batches, current, rows, row, scanDone, stream, uploads, readings,
                   commits, history>>

(* The catch of startScan: a row with an error for every file of the batch. *)
FailBatch ==
    LET keys == [i \in DOMAIN batches[current] |-> [file |-> batches[current][i], from |-> "catch"]]
    IN  /\ rows' = rows \o keys
        /\ row' = [k \in Keys |-> IF k \in ToSet(keys) THEN ErrorRow ELSE row[k]]
        /\ scanDone' = scanDone + Len(keys)
        /\ awaiting' = FALSE
        /\ current' = current + 1

(* 4xx, 5xx or no answer at all. *)
Refused ==
    /\ stage = "scanning" /\ ~awaiting /\ current <= Len(batches)
    /\ FailBatch
    /\ UNCHANGED <<stage, batches, stream, server, readings, commits, history>>

(* Mutant: the next batch is not reached. *)
BreakAbandons ==
    /\ awaiting /\ cuts < MaxCuts
    /\ cuts' = cuts + 1
    /\ stream' = <<>>
    /\ awaiting' = FALSE
    /\ current' = current + 1
    /\ UNCHANGED <<stage, batches, rows, row, scanDone, server, readings, commits, removed>>

(* The connection breaks; what was not read is lost, what was stays. *)
Break ==
    /\ awaiting /\ cuts < MaxCuts
    /\ cuts' = cuts + 1
    /\ stream' = <<>>
    /\ FailBatch
    /\ UNCHANGED <<stage, batches, server, readings, commits, removed>>

Receive ==
    /\ awaiting /\ stream # <<>>
    /\ LET e == Head(stream)
           k == [file |-> e.file, from |-> "stream"]
       IN  /\ rows' = Append(rows, k)
           /\ row' = [row EXCEPT ![k] = e.row]
    /\ scanDone' = scanDone + 1
    /\ stream' = Tail(stream)
    /\ UNCHANGED <<stage, batches, current, awaiting, server, readings, commits, history>>

(* The final event brought the meters, and the response is closed. *)
EndOfStream ==
    /\ awaiting /\ stream = <<>> /\ gen[current].pc = "end"
    /\ awaiting' = FALSE
    /\ current' = current + 1
    /\ UNCHANGED <<stage, batches, rows, row, scanDone, stream, server, readings, commits, history>>

(* Mutant: the review waits until the counter says that all files are done. *)
FinishScanByCount ==
    /\ stage = "scanning" /\ ~awaiting /\ current > Len(batches)
    /\ scanDone = Len(FlattenSeq(batches))
    /\ stage' = "review"
    /\ UNCHANGED <<batches, current, awaiting, rows, row, scanDone, stream, server, readings,
                   commits, history>>

FinishScan ==
    /\ stage = "scanning" /\ ~awaiting /\ current > Len(batches)
    /\ stage' = "review"
    /\ UNCHANGED <<batches, current, awaiting, rows, row, scanDone, stream, server, readings,
                   commits, history>>

----------------------------------------------------------------------------
(* The server's generator for batch b.                                     *)

Connected(b) == awaiting /\ b = current

Emit(b, f, r) ==
    stream' = IF Connected(b) THEN Append(stream, [file |-> f, row |-> r]) ELSE stream

Advance(b, g) == gen' = [gen EXCEPT ![b] = [g EXCEPT !.pc = "next", !.payloads = Tail(@), !.dup = "no"]]

Aborted(g) == LlmEngine /\ g.abort

(* A file that is refused before anything is stored, or not sent any more. *)
GenRefuse(b) ==
    LET g == gen[b]
    IN  /\ g.pc = "next" /\ g.payloads # <<>>
        /\ Aborted(g) \/ Head(g.payloads) \in Unusable
        /\ Advance(b, g)
        /\ Emit(b, Head(g.payloads), ErrorRow)
        /\ UNCHANGED <<client, uploads, readings, commits, history>>

SavedImages == {ImageOf[k.file] : k \in readings}

DuplicateOf(g, f) ==
    CASE ImageOf[f] \in g.seen -> "session"
      [] ImageOf[f] \notin g.seen /\ ImageOf[f] \in KnownImages \union SavedImages -> "database"
      [] OTHER -> "no"

(* Mutant: the images of the batch are not remembered. *)
GenStoreForgets(b) ==
    LET g == gen[b]
        f == Head(g.payloads)
    IN  /\ g.pc = "next" /\ g.payloads # <<>>
        /\ ~Aborted(g) /\ f \notin Unusable
        /\ stored' = stored \union {f} /\ registered' = registered \union {f}
        /\ gen' = [gen EXCEPT ![b].pc = "ocr", ![b].dup = DuplicateOf(g, f)]
        /\ UNCHANGED <<client, stream, spilled, stray, readings, commits, history>>

(* Hash, file, duplicate look-up and registry row; no await in between. *)
GenStore(b) ==
    LET g == gen[b]
        f == Head(g.payloads)
    IN  /\ g.pc = "next" /\ g.payloads # <<>>
        /\ ~Aborted(g) /\ f \notin Unusable
        /\ stored' = stored \union {f} /\ registered' = registered \union {f}
        /\ gen' = [gen EXCEPT ![b].pc = "ocr", ![b].seen = @ \union {ImageOf[f]},
                              ![b].dup = DuplicateOf(g, f)]
        /\ UNCHANGED <<client, stream, spilled, stray, readings, commits, history>>

(* The write, the look-up or the registration fails.  A piece of a file    *)
(* whose write failed stays, stored_name is still None; a file that could  *)
(* not be registered is discarded, and stays if its unlink fails too.  The *)
(* look-up may not have been reached.                                      *)
GenStoreFails(b) ==
    LET g == gen[b]
        f == Head(g.payloads)
        dup == DuplicateOf(g, f)
    IN  /\ g.pc = "next" /\ g.payloads # <<>>
        /\ ~Aborted(g) /\ f \notin Unusable
        /\ \/ stored' = stored \union {f} /\ spilled' = spilled \union {f}
           \/ UNCHANGED <<stored, spilled>>
        /\ Advance(b, [g EXCEPT !.seen = @ \union {ImageOf[f]}])
        /\ \/ Emit(b, f, [ErrorRow EXCEPT !.dup = dup])
           \/ dup = "database" /\ Emit(b, f, ErrorRow)
        /\ UNCHANGED <<client, registered, stray, readings, commits, history>>

(* The OCR service and the model answered; meter and value may be missing. *)
GenRead(b, found) ==
    LET g == gen[b]
    IN  /\ g.pc = "ocr"
        /\ Advance(b, g)
        /\ Emit(b, Head(g.payloads),
                [error |-> FALSE, photo |-> TRUE, ready |-> found, dup |-> g.dup])
        /\ UNCHANGED <<client, uploads, readings, commits, history>>

(* _discard_upload: an unlink that fails leaves the file, a DELETE that    *)
(* fails the row; both are logged and swallowed.                           *)
Discard(f) ==
    /\ \/ stored' = stored \ {f} /\ UNCHANGED spilled
       \/ UNCHANGED stored /\ spilled' = spilled \union {f}
    /\ \/ registered' = registered \ {f} /\ UNCHANGED stray
       \/ UNCHANGED registered /\ stray' = stray \union {f}

(* Mutant: the file is kept. *)
GenLlmErrorKeeps(b) ==
    LET g == gen[b]
    IN  /\ g.pc = "ocr" /\ LlmEngine
        /\ Advance(b, [g EXCEPT !.abort = TRUE])
        /\ Emit(b, Head(g.payloads), [ErrorRow EXCEPT !.dup = g.dup])
        /\ UNCHANGED <<client, uploads, readings, commits, history>>

(* LLMError: the file is discarded and the rest of the batch not sent. *)
GenLlmError(b) ==
    LET g == gen[b]
    IN  /\ g.pc = "ocr" /\ LlmEngine
        /\ Discard(Head(g.payloads))
        /\ Advance(b, [g EXCEPT !.abort = TRUE])
        /\ Emit(b, Head(g.payloads), [ErrorRow EXCEPT !.dup = g.dup])
        /\ UNCHANGED <<client, readings, commits, history>>

(* Any other exception after the file was registered. *)
GenError(b) ==
    LET g == gen[b]
    IN  /\ g.pc = "ocr"
        /\ Discard(Head(g.payloads))
        /\ Advance(b, g)
        /\ Emit(b, Head(g.payloads), [ErrorRow EXCEPT !.dup = g.dup])
        /\ UNCHANGED <<client, readings, commits, history>>

GenComplete(b) ==
    /\ gen[b].pc = "next" /\ gen[b].payloads = <<>>
    /\ gen' = [gen EXCEPT ![b].pc = "end"]
    /\ UNCHANGED <<client, stream, uploads, readings, commits, history>>

(* The server notices that the client is gone and cancels the generator;   *)
(* neither except clause catches that, so a file being read stays.         *)
GenCancelled(b) ==
    /\ gen[b].pc \in {"next", "ocr"} /\ ~Connected(b)
    /\ gen' = [gen EXCEPT ![b].pc = "end"]
    /\ UNCHANGED <<client, stream, uploads, readings, commits, history>>

GenStep(b) ==
    \/ GenRefuse(b) \/ GenStore(b) \/ GenStoreFails(b)
    \/ (\E found \in BOOLEAN : GenRead(b, found)) \/ GenLlmError(b) \/ GenError(b) \/ GenComplete(b) \/ GenCancelled(b)

----------------------------------------------------------------------------
(* Review and commit.                                                      *)

(* The user chooses or clears a meter or a value, also while rows are being *)
(* saved; a row with an error has no inputs.                                *)
Edit(k) ==
    /\ stage = "review" /\ k \in ToSet(rows) /\ ~row[k].error
    /\ row' = [row EXCEPT ![k].ready = ~@]
    /\ UNCHANGED <<stage, batches, current, awaiting, rows, scanDone, stream, server, readings,
                   commits, history>>

RemoveRow(i) ==
    /\ stage = "review" /\ i \in DOMAIN rows
    /\ removed' = removed \union {rows[i]}
    /\ rows' = RemoveAt(rows, i)
    /\ UNCHANGED <<stage, batches, current, awaiting, row, scanDone, stream, server, readings,
                   commits, cuts>>

(* The cancel button is there while rows are being saved, too. *)
Cancel ==
    /\ stage = "review"
    /\ stage' = "upload"
    /\ removed' = removed \union ToSet(rows)
    /\ rows' = <<>>
    /\ UNCHANGED <<batches, current, awaiting, row, scanDone, stream, server, readings,
                   commits, cuts>>

Included ==
    LET chosen[n \in 0..Len(rows)] ==
            IF n = 0 THEN <<>>
            ELSE IF ~row[rows[n]].error /\ row[rows[n]].ready THEN Append(chosen[n - 1], rows[n])
            ELSE chosen[n - 1]
    IN  chosen[Len(rows)]

CommitAll ==
    /\ stage = "review" /\ ~committing /\ Included # <<>>
    /\ committing' = TRUE
    /\ queue' = Included
    /\ commitDone' = 0 /\ commitSaved' = 0 /\ commitFailed' = 0
    /\ UNCHANGED <<client, stream, server, readings, history>>

(* create_reading accepts a row that names a stored photo whose image has   *)
(* no reading yet (module UploadStore).                                     *)
Acceptable(k) ==
    /\ row[k].ready
    /\ row[k].photo => k.file \in registered /\ ImageOf[k.file] \notin KnownImages \union SavedImages

(* Mutant: res.ok is not looked at. *)
CommitNextTrusting ==
    /\ committing /\ queue # <<>>
    /\ \E k \in {Head(queue)} :
           readings' = IF Acceptable(k) THEN readings \union {k} ELSE readings
    /\ commitSaved' = commitSaved + 1
    /\ commitDone' = commitDone + 1
    /\ queue' = Tail(queue)
    /\ UNCHANGED <<client, stream, server, committing, commitFailed, history>>

(* One POST.  The answer may be lost after the reading was saved, and the   *)
(* request may be refused or lost for any reason.                           *)
CommitNext ==
    /\ committing /\ queue # <<>>
    /\ \/ /\ Acceptable(Head(queue))
          /\ readings' = readings \union {Head(queue)}
          /\ \/ commitSaved' = commitSaved + 1 /\ UNCHANGED commitFailed
             \/ commitFailed' = commitFailed + 1 /\ UNCHANGED commitSaved
       \/ /\ commitFailed' = commitFailed + 1
          /\ UNCHANGED <<readings, commitSaved>>
    /\ commitDone' = commitDone + 1
    /\ queue' = Tail(queue)
    /\ UNCHANGED <<client, stream, server, committing, history>>

CommitEnd ==
    /\ committing /\ queue = <<>>
    /\ committing' = FALSE
    /\ stage' = "done"
    /\ UNCHANGED <<batches, current, awaiting, rows, row, scanDone, stream, server, readings,
                   queue, commitDone, commitSaved, commitFailed, history>>

----------------------------------------------------------------------------
Init ==
    /\ stage = "upload" /\ batches = <<>> /\ current = 1
    /\ awaiting = FALSE /\ stream = <<>>
    /\ rows = <<>> /\ row = [k \in Keys |-> ErrorRow] /\ scanDone = 0
    /\ gen = [b \in BatchNo |-> Idle]
    /\ stored = {} /\ registered = {} /\ spilled = {} /\ stray = {} /\ readings = {}
    /\ committing = FALSE /\ queue = <<>>
    /\ commitDone = 0 /\ commitSaved = 0 /\ commitFailed = 0
    /\ removed = {} /\ cuts = 0

ScanStep == Send \/ Receive \/ EndOfStream \/ FinishScan

CommitStep == CommitNext \/ CommitEnd

Next ==
    \/ \E files \in Selections : StartScan(files)
    \/ ScanStep \/ Refused \/ Break
    \/ \E b \in BatchNo : GenStep(b)
    \/ \E k \in Keys : Edit(k)
    \/ \E i \in DOMAIN rows : RemoveRow(i)
    \/ Cancel \/ CommitAll \/ CommitStep

Spec == Init /\ [][Next]_vars

(* The event loop of the page and the server's run on; the services a       *)
(* generator waits for have timeouts, so it always takes its next step.     *)
FairSpec ==
    /\ Spec
    /\ WF_vars(ScanStep) /\ WF_vars(CommitStep)
    /\ \A b \in BatchNo : WF_vars(GenStep(b))

----------------------------------------------------------------------------
Reviewed == ToSet(rows) \union removed

(* The batches are the selection, in order and complete, none of them over *)
(* a limit unless a single file is (buildBatches: "no file is ever         *)
(* dropped"), and none could have taken the file that follows it.          *)
BatchesSound ==
    batches # <<>> =>
        /\ FlattenSeq(batches) \in Selections
        /\ \A i \in DOMAIN batches :
              LET b == batches[i]
              IN  /\ b # <<>> /\ Len(b) <= MaxBatchFiles
                  /\ Bytes(b) <= MaxBatchBytes \/ Len(b) = 1
                  /\ i < Len(batches) => Overfull(b, batches[i + 1][1])

(* However requests are refused and connections break, every file of the   *)
(* batches that are through has a row the user sees: its result, an error, *)
(* or both when the stream broke after it; no row is there twice.          *)
EveryFileReviewed ==
    /\ \A i \in 1..(current - 1) : \A f \in ToSet(batches[i]) :
           \E k \in Reviewed : k.file = f
    /\ \A i, j \in DOMAIN rows : rows[i] = rows[j] => i = j

(* A photo shown for review is in the upload directory and registered: an  *)
(* item that failed has lost its path with its file.  And as long as no    *)
(* connection broke, a stored or registered photo is being read, on its    *)
(* way to the client or was shown for review: failed items leave nothing   *)
(* (F-028) but what the write or the discard that failed left itself.      *)
PhotosFollowTheRows ==
    /\ \A k \in Reviewed : row[k].photo => k.file \in stored \intersect registered
    /\ cuts = 0 => \A f \in (stored \ spilled) \union (registered \ stray) :
          \/ \E b \in BatchNo : gen[b].pc = "ocr" /\ f = Head(gen[b].payloads)
          \/ \E i \in DOMAIN stream : stream[i].file = f /\ stream[i].row.photo
          \/ \E k \in Reviewed : k.file = f /\ row[k].photo

(* Of the photos of one batch that show the same image at most one is not  *)
(* marked as a duplicate, also when an earlier one failed in between.      *)
DuplicatesMarked ==
    \A i \in DOMAIN batches : \A k, l \in Reviewed :
        /\ {k.file, l.file} \subseteq ToSet(batches[i])
        /\ k.file # l.file /\ ImageOf[k.file] = ImageOf[l.file]
        /\ row[k].photo /\ row[l].photo
        => row[k].dup # "no" \/ row[l].dup # "no"

(* What is saved is a reviewed row without an error, each image once, and  *)
(* the summary never claims more saved readings than there are; rows the   *)
(* user edits, removes or cancels while they are being saved included.     *)
CommitIsHonest ==
    /\ \A k \in readings : k \in Reviewed /\ ~row[k].error
    /\ \A k, l \in readings : ImageOf[k.file] = ImageOf[l.file] => k = l
    /\ commitSaved <= Cardinality(readings)
    /\ commitDone = commitSaved + commitFailed

(* A scan that was started comes to its review and a commit to its end,    *)
(* whatever is refused, fails or breaks on the way.                        *)
ImportEnds ==
    /\ stage = "scanning" ~> stage # "scanning"
    /\ committing ~> ~committing
=============================================================================
