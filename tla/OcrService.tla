----------------------------- MODULE OcrService ----------------------------
(***************************************************************************)
(* The standalone OCR container (ocr-service/app/main.py, pipeline.py):    *)
(* /scan and /serial store the upload, prepare a working image beside it,  *)
(* have the reader look for texts and choose one of them.  A call runs in  *)
(* a thread; all threads share the reader, which the first of them build.  *)
(*                                                                         *)
(* A text is what the reader found, as far as choosing looks at it;        *)
(* confidence and scores are counted in thousandths.  A process keeps its  *)
(* files in a directory of its own; file names are drawn.                  *)
(***************************************************************************)
EXTENDS Integers, Sequences, FiniteSets, FiniteSetsExt

CONSTANTS
    Calls,                      \* requests that are let in, each made once
    Images,                     \* [width, height, supported]
    MaxSide, MaxPixels,         \* max_image_side, max_image_pixels
    MaxUpscaled,                \* MAX_UPSCALED_SIDE
    Results, SerialResults,     \* what the reader may find: sequences of texts
    None

VARIABLES
    pc, kind, image,    \* per call
    work,               \* size of its working image, or None
    files,              \* in _TMP_DIR: <<"upload" or "work", call>>
    reader, built,      \* whether _reader is set; history: how many readers were built
    answer,             \* text, None, or "error"
    spilled             \* history: files whose writing failed

vars == <<pc, kind, image, work, files, reader, built, answer, spilled>>

----------------------------------------------------------------------------
(* Choosing a reading: _fix_seven_segment, _extract_numeric.  Letters that *)
(* look like digits of a display become digits, gaps between digits close. *)
Corrected(t) == [t EXCEPT !.digits = @ + t.alike, !.chars = @ - t.gaps]

Numeric(t) == t.digits >= 3 /\ 10 * t.digits >= 4 * t.chars /\ t.dots <= 1

Score(t) ==
    t.conf
    + (IF t.digits = 3 THEN -200 ELSE IF t.digits <= 8 THEN 300 ELSE -400)
    + (IF t.dots = 1 THEN 200 ELSE 0)
    + (IF t.height = "large" THEN 400 ELSE IF t.height = "medium" THEN 100 ELSE 0)

(* The first of those that nothing beats: the sort is stable. *)
Best(worth) ==
    CHOOSE i \in DOMAIN worth :
       \A j \in DOMAIN worth : worth[j] <= worth[i] /\ (worth[j] = worth[i] => i <= j)

Detected(results) ==
    LET corrected  == [i \in DOMAIN results |-> Corrected(results[i])]
        candidates == SelectSeq(corrected, Numeric)
    IN  IF candidates = <<>> THEN None
        ELSE candidates[Best([i \in DOMAIN candidates |-> Score(candidates[i])])].name

Legible(t) == t.chars >= 4 /\ 2 * t.alnum >= t.chars

DetectedSerial(results) ==
    LET candidates == SelectSeq(results, Legible)
    IN  IF candidates = <<>> THEN None
        ELSE candidates[Best([i \in DOMAIN candidates |-> candidates[i].conf])].name

----------------------------------------------------------------------------
(* _save_upload, _check_dimensions *)
Acceptable(im) ==
    /\ im.supported
    /\ Max({im.width, im.height}) <= MaxSide
    /\ im.width * im.height <= MaxPixels

Size(w, h) == [width |-> w, height |-> h]

(* upscaled_size *)
Upscaled(s, factor) ==
    LET side == Max({s.width, s.height})
    IN  IF factor * side <= MaxUpscaled
        THEN Size(factor * s.width, factor * s.height)
        ELSE Size(Max({1, (s.width * MaxUpscaled) \div side}), Max({1, (s.height * MaxUpscaled) \div side}))

(* The display strip around the row y with the most edges, or the whole    *)
(* image when it is too small.                                             *)
Display(im, y) ==
    LET strip == Max({20, im.height \div 20})
        h     == Min({im.height, y + 2 * strip}) - Max({0, y - strip})
        w     == (9 * im.width) \div 10 - im.width \div 10
    IN  IF h < 10 \/ w < 20 THEN Size(im.width, im.height) ELSE Size(w, h)

StripRows(im) ==
    {(35 * im.height) \div 100}
    \union {y \in (im.height \div 10)..((7 * im.height) \div 10 - 1) :
              (y - im.height \div 10) % Max({10, im.height \div 50}) = 0}

(* What is worked on: a cropped image and a serial as they are. *)
Prepared(c) ==
    IF kind[c] = "serial" THEN {Upscaled(Size(image[c].width, image[c].height), 3)}
    ELSE {Upscaled(s, 4) : s \in {Size(image[c].width, image[c].height)}
                                 \union {Display(image[c], y) : y \in StripRows(image[c])}}

----------------------------------------------------------------------------
Goes(c, to) == pc' = [pc EXCEPT ![c] = to]

(* The thread is through; the coroutine goes on later. *)
Returns(c, a) == Goes(c, "returned") /\ answer' = [answer EXCEPT ![c] = a]

(* scan turns every exception into a 500, serial most of them into None. *)
Nothing(c) == IF kind[c] = "scan" THEN "error" ELSE None

Upload(c) == <<"upload", c>>
Work(c)   == <<"work", c>>

Receive(c, k, im) ==
    /\ pc[c] = "idle" /\ Acceptable(im)
    /\ kind' = [kind EXCEPT ![c] = k] /\ image' = [image EXCEPT ![c] = im]
    /\ \/ /\ Goes(c, "stored")
          /\ files' = files \union {Upload(c)}
          /\ UNCHANGED <<answer, spilled>>
       \/ /\ Goes(c, "done") /\ answer' = [answer EXCEPT ![c] = "error"]   \* it cannot be written
          /\ files' \in {files, files \union {Upload(c)}}
          /\ spilled' = spilled \union {Upload(c)}
    /\ UNCHANGED <<work, reader, built>>

(* /scan asks for the reader first, /serial for the working image.         *)
NeedsReader(c) == pc[c] = IF kind[c] = "scan" THEN "stored" ELSE "prepared"
NeedsImage(c)  == pc[c] = IF kind[c] = "scan" THEN "ready" ELSE "stored"

WithReader(c) == Goes(c, IF kind[c] = "scan" THEN "ready" ELSE "reading")

(* _get_reader: what is checked is set only after the reader is built.     *)
GetReader(c) ==
    /\ NeedsReader(c)
    /\ IF reader THEN WithReader(c) ELSE Goes(c, "building")
    /\ UNCHANGED <<kind, image, work, files, reader, built, answer, spilled>>

ReaderBuilt(c) ==
    /\ pc[c] = "building"
    /\ reader' = TRUE /\ built' = built + 1
    /\ WithReader(c)
    /\ UNCHANGED <<kind, image, work, files, answer, spilled>>

(* The finally clause of the thread: the working image goes. *)
Leaves(c, a) ==
    /\ Returns(c, a)
    /\ files' = files \ {Work(c)}
    /\ UNCHANGED <<kind, image, work, reader, built, spilled>>

ReaderFails(c) == pc[c] = "building" /\ Leaves(c, Nothing(c))

(* _preprocess_image, or what _extract_serial_sync does itself. *)
Preprocess(c) ==
    /\ NeedsImage(c)
    /\ \E size \in Prepared(c) : work' = [work EXCEPT ![c] = size]
    /\ files' = files \union {Work(c)}
    /\ Goes(c, IF kind[c] = "scan" THEN "reading" ELSE "prepared")
    /\ UNCHANGED <<kind, image, reader, built, answer, spilled>>

(* It cannot be decoded or worked on.  *)
Unreadable(c) == NeedsImage(c) /\ \E a \in {Nothing(c), "error"} : Leaves(c, a)

(* The working image cannot be saved: nobody knows its path then, and what *)
(* was written of it stays.                                                *)
SaveFails(c) ==
    /\ NeedsImage(c)
    /\ Returns(c, "error")
    /\ files' \in {files, files \union {Work(c)}}
    /\ spilled' = spilled \union {Work(c)}
    /\ UNCHANGED <<kind, image, work, reader, built>>

(* Mutant: what the reader raises goes past the clean-up. *)
ReadKeeps(c) ==
    /\ pc[c] = "reading"
    /\ \/ \E results \in (IF kind[c] = "scan" THEN Results ELSE SerialResults) :
             Leaves(c, IF kind[c] = "scan" THEN Detected(results) ELSE DetectedSerial(results))
       \/ Returns(c, Nothing(c)) /\ UNCHANGED <<kind, image, work, files, reader, built, spilled>>

Read(c) ==
    /\ pc[c] = "reading"
    /\ \/ \E results \in (IF kind[c] = "scan" THEN Results ELSE SerialResults) :
             Leaves(c, IF kind[c] = "scan" THEN Detected(results) ELSE DetectedSerial(results))
       \/ Leaves(c, Nothing(c))

(* The finally clause of the endpoint. *)
Respond(c) ==
    /\ pc[c] = "returned"
    /\ Goes(c, "done")
    /\ files' = files \ {Upload(c)}
    /\ UNCHANGED <<kind, image, work, reader, built, answer, spilled>>

Init ==
    /\ pc = [c \in Calls |-> "idle"]
    /\ kind = [c \in Calls |-> None] /\ image = [c \in Calls |-> None]
    /\ work = [c \in Calls |-> None]
    /\ files = {} /\ spilled = {}
    /\ reader = FALSE /\ built = 0
    /\ answer = [c \in Calls |-> None]

Next ==
    \E c \in Calls :
       \/ \E k \in {"scan", "serial"}, im \in Images : Receive(c, k, im)
       \/ GetReader(c) \/ ReaderBuilt(c) \/ ReaderFails(c)
       \/ Preprocess(c) \/ Unreadable(c) \/ SaveFails(c)
       \/ Read(c) \/ Respond(c)

Spec == Init /\ [][Next]_vars

----------------------------------------------------------------------------
(* Whatever fails, in whichever order the two endpoints ask for reader and *)
(* image: a file is there from its writing until the step that last uses   *)
(* it is through and no longer, unless its writing failed; and the working *)
(* image is never empty nor larger than MAX_UPSCALED_SIDE.                 *)
ScansLeaveNothing ==
    \A c \in Calls :
       /\ Upload(c) \in files \ spilled <=> pc[c] \notin {"idle", "done"}
       /\ Work(c) \in files \ spilled <=>
             \/ pc[c] \in {"prepared", "reading"}
             \/ pc[c] = "building" /\ kind[c] = "serial"
       /\ work[c] # None => work[c].width \in 1..MaxUpscaled /\ work[c].height \in 1..MaxUpscaled
=============================================================================
