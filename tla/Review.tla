------------------------------- MODULE Review ------------------------------
(***************************************************************************)
(* The review of a bulk scan while requests about its rows are on their    *)
(* way: the crop dialog and the hint re-scan of BulkImport.vue.            *)
(*                                                                         *)
(* A row is an object named by the photo it was made from; the list holds  *)
(* rows by position, and the dialog, the flags of running re-scans and the *)
(* opening of a photo know positions only.  The dialog covers the page.    *)
(* What BulkImport models (scanning, saving, leaving) is left out here.    *)
(***************************************************************************)
EXTENDS Naturals, Sequences, SequencesExt

CONSTANTS
    Photos,                 \* rows of the review; all have a photo
    Meters,                 \* what the user or an answer assigns rows to
    MaxCrops, MaxCuts, MaxHints, MaxTyped,  \* bounds
    None

VARIABLES
    rows,           \* reviewItems: rows in order
    shown,          \* row -> the photo its temp_image_path is a cut of
    value,          \* row -> the photo its value was read from, "typed", or None
    meter,          \* row -> selected_meter_id, or None
    crop,           \* the dialog: [index, photo, display, stage]; index 0: closed
    cuts,           \* cuts of the display being made: slot -> photo, or None
    loading,        \* photos being loaded for the dialog: request -> [index, photo], or None
    scans,          \* crops being scanned: request -> photo, or None
    hints,          \* re-scans: request -> [row, index, photo, meter], or None
    flagged,        \* hintRescanning: positions
    crops, asked, typed,        \* history: requests sent so far, values typed
    strayed,        \* history: the dialog was opened for one photo while a cut of another
                    \* was made or scanned, or rows moved while a photo was loaded for it
    moved           \* history: rows moved or were assigned by a crop during a re-scan

vars == <<rows, shown, value, meter, crop, cuts, loading, scans, hints, flagged,
          crops, asked, typed, strayed, moved>>

CropIds == 1..MaxCrops
CutIds  == 1..MaxCuts
HintIds == 1..MaxHints

Closed == [index |-> 0, photo |-> None, display |-> None, stage |-> "display"]

Dialog == [index : Nat, photo : Photos \union {None}, display : Photos \union {None},
           stage : {"display", "serial", "scanning"}]

TypeOK ==
    /\ rows \in Seq(Photos) /\ IsInjective(rows)
    /\ shown \in [Photos -> Photos] /\ value \in [Photos -> Photos \union {"typed", None}]
    /\ meter \in [Photos -> Meters \union {None}]
    /\ crop \in Dialog
    /\ loading \in [CropIds -> [index : Nat, photo : Photos] \union {None}]
    /\ cuts \in [CutIds -> Photos \union {None}] /\ scans \in [CropIds -> Photos \union {None}]
    /\ hints \in [HintIds -> [row : Photos, index : Nat, photo : Photos, meter : Meters] \union {None}]
    /\ flagged \subseteq Nat /\ {crops, asked, typed} \subseteq Nat
    /\ strayed \in BOOLEAN /\ moved \in BOOLEAN

(* A cut of another photo is made or scanned. *)
Elsewhere(photo) == \/ \E k \in CropIds : scans[k] \notin {None, photo}
                    \/ \E k \in CutIds : cuts[k] \notin {None, photo}

Loading  == \E k \in CropIds : loading[k] # None
Hinting  == \E k \in HintIds : hints[k] # None

----------------------------------------------------------------------------
(* Mutant: the dialog leaves the list within reach. *)
AlwaysReachable == TRUE

PageReachable == crop.index = 0

Show(i, photo) == crop' = [Closed EXCEPT !.index = i, !.photo = photo]

(* openCropForItem: at once when the photo is loaded already. *)
OpenCrop(i) ==
    /\ PageReachable /\ crops < MaxCrops
    /\ \/ /\ Show(i, shown[rows[i]])
          /\ strayed' = (strayed \/ Elsewhere(shown[rows[i]]))
          /\ UNCHANGED loading
       \/ /\ loading' = [loading EXCEPT ![crops + 1] = [index |-> i, photo |-> shown[rows[i]]]]
          /\ UNCHANGED <<crop, strayed>>
    /\ crops' = crops + 1
    /\ UNCHANGED <<cuts, rows, shown, value, meter, scans, hints, flagged, asked, typed, moved>>

Loaded(k) ==
    /\ loading[k] # None
    /\ \/ /\ Show(loading[k].index, loading[k].photo)
          /\ strayed' = (strayed \/ Elsewhere(loading[k].photo))
       \/ UNCHANGED <<crop, strayed>>       \* it cannot be loaded
    /\ loading' = [loading EXCEPT ![k] = None]
    /\ UNCHANGED <<cuts, rows, shown, value, meter, scans, hints, flagged, crops, asked, typed, moved>>

Close ==
    /\ crop.index # 0
    /\ crop' = [crop EXCEPT !.index = 0, !.photo = None, !.display = None]
    /\ UNCHANGED <<cuts, rows, shown, value, meter, loading, scans, hints, flagged, crops, asked, typed,
                   strayed, moved>>

(* The first slot that is free. *)
Free(slots, k) == slots[k] = None /\ \A j \in 1..(k - 1) : slots[j] # None

(* cropGoToSerial asks for the cut; the dialog stays as it is, with all of *)
(* its buttons.                                                            *)
GoToSerial ==
    /\ crop.index # 0 /\ crop.stage = "display"
    /\ \E k \in CutIds : Free(cuts, k) /\ cuts' = [cuts EXCEPT ![k] = crop.photo]
    /\ UNCHANGED <<rows, shown, value, meter, crop, loading, scans, hints, flagged, crops, asked,
                   typed, strayed, moved>>

(* The cut is there, whatever the dialog is about by now, or cannot be made. *)
CutMade(k) ==
    /\ cuts[k] # None
    /\ \/ crop' = [crop EXCEPT !.display = cuts[k], !.stage = "serial"]
       \/ UNCHANGED crop
    /\ cuts' = [cuts EXCEPT ![k] = None]
    /\ UNCHANGED <<rows, shown, value, meter, loading, scans, hints, flagged, crops, asked, typed,
                   strayed, moved>>

CropSubmit ==
    /\ crop.index # 0 /\ crop.stage = "serial" /\ crop.display # None
    /\ \E k \in CropIds : Free(scans, k) /\ scans' = [scans EXCEPT ![k] = crop.display]
    /\ crop' = [crop EXCEPT !.stage = "scanning"]
    /\ UNCHANGED <<cuts, rows, shown, value, meter, loading, hints, flagged, crops, asked, typed,
                   strayed, moved>>

(* The answer goes to the row the dialog is about by now; a serial it      *)
(* shows may assign the row; the dialog closes.                            *)
CropAnswered(k, m) ==
    /\ scans[k] # None
    /\ crop.index \in DOMAIN rows
    /\ LET row == rows[crop.index]
       IN  /\ \/ value' = [value EXCEPT ![row] = scans[k]]
              \/ UNCHANGED value                    \* nothing was recognised
           /\ shown' = [shown EXCEPT ![row] = scans[k]]
           /\ meter' = IF m = None THEN meter ELSE [meter EXCEPT ![row] = m]
           /\ moved' = (moved \/ (m # None /\ Hinting))
    /\ crop' = [crop EXCEPT !.index = 0, !.photo = None, !.display = None]
    /\ scans' = [scans EXCEPT ![k] = None]
    /\ UNCHANGED <<cuts, rows, loading, hints, flagged, crops, asked, typed, strayed>>

(* The request fails, or there is no such row any more; or the cut of the  *)
(* serial cannot be made, which nobody notices.                            *)
CropFailed(k) ==
    /\ scans[k] # None
    /\ crop' = [crop EXCEPT !.stage = "serial"] \/ UNCHANGED crop
    /\ scans' = [scans EXCEPT ![k] = None]
    /\ UNCHANGED <<cuts, rows, shown, value, meter, loading, hints, flagged, crops, asked, typed, strayed, moved>>

----------------------------------------------------------------------------
RemoveRow(i) ==
    /\ PageReachable
    /\ rows' = RemoveAt(rows, i)
    /\ strayed' = (strayed \/ Loading)
    /\ moved' = (moved \/ Hinting)
    /\ UNCHANGED <<cuts, shown, value, meter, crop, loading, scans, hints, flagged, crops, asked, typed>>

TypeValue(i) ==
    /\ PageReachable /\ typed < MaxTyped
    /\ value' = [value EXCEPT ![rows[i]] = "typed"]
    /\ typed' = typed + 1
    /\ UNCHANGED <<cuts, rows, shown, meter, crop, loading, scans, hints, flagged, crops, asked, strayed, moved>>

(* Mutant: the choice of the meter stays enabled during a re-scan. *)
NeverDisabled(i) == FALSE

Disabled(i) == i \in flagged

(* Choosing a meter asks for a re-scan with what is known of it. *)
SelectMeter(i, m) ==
    /\ PageReachable /\ ~Disabled(i) /\ meter[rows[i]] # m /\ asked < MaxHints
    /\ meter' = [meter EXCEPT ![rows[i]] = m]
    /\ hints' = [hints EXCEPT ![asked + 1] =
                    [row |-> rows[i], index |-> i, photo |-> shown[rows[i]], meter |-> m]]
    /\ asked' = asked + 1
    /\ flagged' = flagged \union {i}
    /\ UNCHANGED <<cuts, rows, shown, value, crop, loading, scans, crops, typed, strayed, moved>>

(* hint_applied is false when the value fits already, or the model has     *)
(* nothing better; the row keeps its value then, as it does on an error.   *)
HintAnswered(k, applied) ==
    /\ hints[k] # None
    /\ value' = IF applied THEN [value EXCEPT ![hints[k].row] = hints[k].photo] ELSE value
    /\ flagged' = flagged \ {hints[k].index}
    /\ hints' = [hints EXCEPT ![k] = None]
    /\ UNCHANGED <<cuts, rows, shown, meter, crop, loading, scans, crops, asked, typed, strayed, moved>>

Init ==
    /\ rows \in SetToSeqs(Photos)
    /\ shown = [p \in Photos |-> p]
    /\ value \in [Photos -> {None}] \union {[p \in Photos |-> p]}
    /\ meter = [p \in Photos |-> None]
    /\ crop = Closed
    /\ cuts = [k \in CutIds |-> None]
    /\ loading = [k \in CropIds |-> None] /\ scans = [k \in CropIds |-> None]
    /\ hints = [k \in HintIds |-> None] /\ flagged = {}
    /\ crops = 0 /\ asked = 0 /\ typed = 0
    /\ strayed = FALSE /\ moved = FALSE

Next ==
    \/ \E i \in DOMAIN rows :
          \/ OpenCrop(i) \/ RemoveRow(i) \/ TypeValue(i)
          \/ \E m \in Meters : SelectMeter(i, m)
    \/ \E k \in CropIds :
          \/ Loaded(k) \/ CropFailed(k)
          \/ \E m \in Meters \union {None} : CropAnswered(k, m)
    \/ \E k \in CutIds : CutMade(k)
    \/ Close \/ GoToSerial \/ CropSubmit
    \/ \E k \in HintIds, applied \in BOOLEAN : HintAnswered(k, applied)

Spec == Init /\ [][Next]_vars

----------------------------------------------------------------------------
(* A row shows its own photo, or a cut of it, and its value was read from  *)
(* it or typed, although a cut goes to whatever the dialog shows when it   *)
(* is made, and the answer to a crop to whatever row the dialog is about.  *)
(* It may be closed meanwhile, and opened for the row again; but this no   *)
(* longer holds when it is opened for another row while a cut or a crop is *)
(* under way, or when rows are removed while a photo is loaded.            *)
CropAnswersLand ==
    ~strayed => \A i \in DOMAIN rows :
                   /\ shown[rows[i]] = rows[i]
                   /\ value[rows[i]] \in {rows[i], "typed", None}

(* A value corrected with what is known of a meter is for the meter the    *)
(* row is assigned to when the answer arrives: the choice is locked        *)
(* meanwhile, by position, so unless rows moved or a crop assigned one.    *)
HintsFitTheMeter ==
    [][\A k \in HintIds :
          HintAnswered(k, TRUE) /\ ~moved => meter[hints[k].row] = hints[k].meter]_vars
=============================================================================
