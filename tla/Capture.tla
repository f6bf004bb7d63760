------------------------------ MODULE Capture ------------------------------
(***************************************************************************)
(* Entering one reading with a photo (OcrCapture.vue): choose a photo, cut *)
(* the display and the serial, scan, correct, save.  A cut, a scan and the *)
(* storing of the reading are all awaited, while the dialog stays usable,  *)
(* but for the stage that shows a scan; each of them, when it is done,     *)
(* goes on with whatever it finds.                                         *)
(*                                                                         *)
(* A photo is named, a scanned image by the photo it was cut from, a value *)
(* by the photo it was read from, or "typed".                              *)
(***************************************************************************)
EXTENDS Naturals, FiniteSets

CONSTANTS
    Photos,
    MaxChosen, MaxTyped,    \* bounds: photos chosen, values typed
    MaxPending,             \* bound: cuts and scans asked for
    None

VARIABLES
    stage,
    original, preview,      \* originalUrl and previewUrl: whose photo they show
    image,                  \* imagePath, with serialImagePath and imageHash
    value,                  \* confirmedValue
    pending,                \* the cuts and scans that are awaited
    saving,                 \* the POST that is awaited: [image, value, for, late]
    posted,                 \* readings stored, likewise
    chosen, typed, clicks,  \* history
    late                    \* history: the photo on screen was replaced or taken away
                            \* while a cut or a scan was awaited

vars == <<stage, original, preview, image, value, pending, saving, posted, chosen, typed, clicks, late>>

TypeOK ==
    /\ stage \in {"idle", "crop", "serial_crop", "scanning", "result"}
    /\ {original, preview, image} \subseteq Photos \union {None}
    /\ value \in Photos \union {"typed", None}
    /\ pending \subseteq [id : Nat, of : {"cut", "scan"}, photo : Photos \union {None}]
    /\ late \in BOOLEAN /\ clicks \in Nat

(* onFileSelected.  What was typed before stays. *)
Choose(photo) ==
    /\ stage = "idle" /\ chosen < MaxChosen
    /\ original' = photo /\ stage' = "crop"
    /\ chosen' = chosen + 1
    /\ late' = (pending # {})
    /\ UNCHANGED <<preview, image, value, pending, saving, posted, typed, clicks>>

(* Mutant: leaving the dialog forgets the value and not the image. *)
CancelKeepsImage ==
    /\ stage \in {"crop", "result"}
    /\ original' = None /\ preview' = None /\ value' = None
    /\ stage' = "idle"
    /\ late' = (pending # {})
    /\ UNCHANGED <<image, pending, saving, posted, chosen, typed, clicks>>

(* cancelCrop *)
Cancel ==
    /\ stage \in {"crop", "result"}
    /\ original' = None /\ preview' = None /\ image' = None /\ value' = None
    /\ stage' = "idle"
    /\ late' = (pending # {})
    /\ UNCHANGED <<pending, saving, posted, chosen, typed, clicks>>

BackToCrop ==
    /\ stage = "result"
    /\ stage' = "crop"
    /\ UNCHANGED <<original, preview, image, value, pending, saving, posted, chosen, typed, clicks, late>>

Ask(of, photo) ==
    /\ clicks < MaxPending
    /\ pending' = pending \union {[id |-> clicks, of |-> of, photo |-> photo]}
    /\ clicks' = clicks + 1

(* goToSerialCrop, once the cropper has decoded the photo (without one it  *)
(* never is ready): a cut is asked for, the stage stays.                   *)
GoToSerialCrop ==
    /\ stage = "crop" /\ original # None
    /\ Ask("cut", original)
    /\ UNCHANGED <<stage, original, preview, image, value, saving, posted, chosen, typed, late>>

(* It is there, or cannot be made, at whatever stage that finds. *)
CutMade(r) ==
    /\ r \in pending /\ r.of = "cut"
    /\ \/ preview' = r.photo /\ stage' = "serial_crop"
       \/ UNCHANGED <<preview, stage>>
    /\ pending' = pending \ {r}
    /\ UNCHANGED <<original, image, value, saving, posted, chosen, typed, clicks, late>>

(* startScan sends the cut the preview shows; the preview may be gone.     *)
StartScan ==
    /\ stage = "serial_crop"
    /\ Ask("scan", preview)
    /\ stage' = "scanning"
    /\ UNCHANGED <<original, preview, image, value, saving, posted, chosen, typed, late>>

(* What was not recognised leaves an empty value. *)
ScanAnswered(r) ==
    /\ r \in pending /\ r.of = "scan" /\ r.photo # None
    /\ image' = r.photo /\ value' \in {r.photo, None}
    /\ pending' = pending \ {r} /\ stage' = "result"
    /\ UNCHANGED <<original, preview, saving, posted, chosen, typed, clicks, late>>

(* Refused or lost; or the preview could not be read, and nothing was sent. *)
ScanFailed(r) ==
    /\ r \in pending /\ r.of = "scan"
    /\ pending' = pending \ {r} /\ stage' \in {"result", "serial_crop"}
    /\ UNCHANGED <<original, preview, image, value, saving, posted, chosen, typed, clicks, late>>

Type ==
    /\ stage \in {"idle", "result"} /\ typed < MaxTyped
    /\ value' = "typed" /\ typed' = typed + 1
    /\ UNCHANGED <<stage, original, preview, image, pending, saving, posted, chosen, clicks, late>>

SaveReading ==
    /\ stage \in {"idle", "result"} /\ value # None /\ saving = None
    /\ saving' = [image |-> image, value |-> value, for |-> original, late |-> late]
    /\ UNCHANGED <<stage, original, preview, image, value, pending, posted, chosen, typed, clicks, late>>

(* The server stored the reading; its answer arrives or is lost. *)
Saved ==
    /\ saving # None
    /\ posted' = posted \union {saving} /\ saving' = None
    /\ \/ /\ value' = None /\ preview' = None /\ original' = None /\ image' = None
          /\ stage' = "idle"
          /\ late' = (pending # {})
       \/ UNCHANGED <<value, preview, original, image, stage, late>>
    /\ UNCHANGED <<pending, chosen, typed, clicks>>

(* Refused, for a duplicate image or anything else. *)
SaveRefused ==
    /\ saving # None
    /\ saving' = None
    /\ UNCHANGED <<stage, original, preview, image, value, pending, posted, chosen, typed, clicks, late>>

Init ==
    /\ stage = "idle"
    /\ original = None /\ preview = None /\ image = None /\ value = None
    /\ pending = {} /\ saving = None /\ posted = {}
    /\ chosen = 0 /\ typed = 0 /\ clicks = 0 /\ late = FALSE

Next ==
    \/ \E photo \in Photos : Choose(photo)
    \/ \E r \in pending : CutMade(r) \/ ScanAnswered(r) \/ ScanFailed(r)
    \/ Cancel \/ BackToCrop \/ GoToSerialCrop \/ StartScan
    \/ Type \/ SaveReading \/ Saved \/ SaveRefused

Spec == Init /\ [][Next]_vars

----------------------------------------------------------------------------
(* The photo stored as evidence is the one a recognised value was read     *)
(* from, always; and it is a cut of the photo that was on screen, also     *)
(* after repeated and failed scans and with several cuts and scans under   *)
(* way, unless that photo was chosen, or the one before it left or reset   *)
(* by an answer to a POST, while a cut or a scan was still awaited.        *)
EvidenceMatchesValue ==
    \A r \in posted :
        /\ r.value \in Photos => r.image = r.value
        /\ ~r.late => r.image \in {None, r.for}
=============================================================================
