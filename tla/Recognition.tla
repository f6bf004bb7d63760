---------------------------- MODULE Recognition ----------------------------
(***************************************************************************)
(* What happens to one photo: the engines that are asked for its reading   *)
(* and serial number, the passes that are repeated with a hint, and the    *)
(* meter it is given to (_run_ocr_on_file and its callers in               *)
(* routers/ocr.py, services/ocr_pipeline.py, services/llm_client.py).      *)
(*                                                                         *)
(* A reading is the sequence of its digits, by name, and how many of them  *)
(* follow the separator: [digits, frac], frac = 0 without one.  What an    *)
(* engine answers is arbitrary; storing photos is UploadStore's part, the  *)
(* stream of a bulk scan BulkImport's.                                     *)
(***************************************************************************)
EXTENDS Serials

CONSTANTS
    Count,              \* digit sequences: name -> number of digits
    SameAsSerial,       \* serials: serial -> name of its digits
    Answers,            \* readings an engine may answer with, and None
    SerialAnswers,      \* serials likewise
    MinDigits, MaxDigits, EqualFrom,    \* 3, 12; and 6, for the serial taken for a reading
    Decimals,           \* meter type -> digits behind the separator
    Meters,             \* the meters of the property: <<[id, serial, type]>>
    Requests,           \* what is asked, see Request
    None

Types == DOMAIN Decimals

(* kind of request; engine; what is configured: the path to a language     *)
(* model and whether there is an OCR service; the type of the meter it is  *)
(* for and whether an earlier reading of it is known (scan, re-scan and    *)
(* hint); whether a crop of the serial is there; the value the user has.   *)
Request == [kind : {"scan", "rescan", "bulk", "hint"}, engine : {"auto", "ocr", "llm"},
            llm : {"none", "ollama", "gateway"}, ocr : BOOLEAN,
            type : Types \union {None}, last : BOOLEAN,
            crop : BOOLEAN, current : Answers]

VARIABLES
    req,
    pc,
    value, serial, method,          \* detected_value, detected_serial, detection_method
    match,                          \* matched_meter, match_confidence, candidate_meters
    source,                         \* history: the pass the value comes from
    hinted                          \* history: the type of the meter a hint was given for

vars == <<req, pc, value, serial, method, match, source, hinted>>

TypeOK ==
    /\ req \in Requests
    /\ pc \in {"start", "first", "retry", "ocr", "recognised", "match", "zoom", "hint", "done",
               "unavailable", "bad gateway"}
    /\ value # None => Count[value.digits] \in MinDigits..MaxDigits \/ source = "client"
    /\ method \in {"llm", "ocr", None}
    /\ match.confidence \in {"none", "exact", "partial"}
    /\ source \in {"llm", "hint", "ocr", "client", None}
    /\ hinted \in Types \union {None}

----------------------------------------------------------------------------
LlmEnabled == req.llm # "none"

(* sanitize_reading, then _clean_reading of a pass with a hint: the        *)
(* separator is put where displays of the type have it.                    *)
Clean(v, type) ==
    IF v = None \/ Count[v.digits] \notin MinDigits..MaxDigits THEN None
    ELSE IF type # None /\ Count[v.digits] > Decimals[type] THEN [v EXCEPT !.frac = Decimals[type]]
    ELSE v

(* drop_reading_equal_to_serial *)
Distinct(v, s) ==
    IF v # None /\ s # None /\ Count[v.digits] >= EqualFrom /\ SameAsSerial[s] = v.digits
    THEN None ELSE v

(* _matches_format *)
Fits(v, type) == v = None \/ type = None \/ v.frac = Decimals[type]

MeterById(id) == CHOOSE m \in ToSet(Meters) : m.id = id

HintRetryNeeded(v) == req.last /\ req.type # None /\ ~Fits(v, req.type)

----------------------------------------------------------------------------
(* One call of the language model.  The gateway tells why it failed, and   *)
(* that ends the request; Ollama, or an answer that cannot be read, counts *)
(* as nothing recognised, which is one of the Answers.                     *)
LlmFails ==
    /\ req.llm = "gateway"
    /\ pc' \in {"unavailable", "bad gateway"}
    /\ UNCHANGED <<req, value, serial, method, match, source, hinted>>

(* Init of a request: what is not configured is refused. *)
Start ==
    /\ pc = "start" /\ req.kind # "hint"
    /\ pc' = CASE req.engine = "llm" /\ ~LlmEnabled -> "unavailable"
               [] req.engine = "ocr" -> IF req.ocr THEN "ocr" ELSE "unavailable"
               [] req.engine # "ocr" /\ LlmEnabled  -> "first"
               [] req.engine = "auto" /\ ~LlmEnabled -> IF req.ocr THEN "ocr" ELSE "recognised"
    /\ UNCHANGED <<req, value, serial, method, match, source, hinted>>

(* Where a request goes that is through with the language model. *)
AfterLlm(v, s) ==
    IF v = None /\ req.engine = "auto" /\ req.ocr
    THEN /\ pc' = "ocr"
         /\ value' = None /\ serial' = None /\ UNCHANGED method
    ELSE /\ pc' = "recognised"
         /\ value' = v /\ serial' = s
         /\ method' = IF req.engine = "llm" \/ v # None THEN "llm" ELSE None

FirstPass(answer, s) ==
    /\ pc = "first"
    /\ LET v == Distinct(Clean(answer, None), s)
       IN  /\ source' = IF v # None THEN "llm" ELSE None
           /\ IF HintRetryNeeded(v)
              THEN pc' = "retry" /\ value' = v /\ serial' = s /\ UNCHANGED method
              ELSE AfterLlm(v, s)
    /\ UNCHANGED <<req, match, hinted>>

(* Original values are kept where the pass with the hint yields nothing.   *)
Retry(answer, s) ==
    /\ pc = "retry"
    /\ LET v == Distinct(Clean(answer, req.type), s)
       IN  /\ AfterLlm(IF v # None THEN v ELSE value, IF s # None THEN s ELSE serial)
           /\ source' = IF v # None THEN "hint" ELSE source
    /\ hinted' = req.type
    /\ UNCHANGED <<req, match>>

(* Of what the service says of its method "llm" would be believed, any     *)
(* other word be taken for "ocr"; it says "ocr", as its contract has it    *)
(* (ocr-service/app/pipeline.py).                                          *)
OcrScan(answer, s) ==
    /\ pc = "ocr"
    /\ value' = Distinct(Clean(answer, None), s)
    /\ serial' = s /\ method' = "ocr"
    /\ source' = IF value' # None THEN "ocr" ELSE None
    /\ pc' = "recognised"
    /\ UNCHANGED <<req, match, hinted>>

(* Unreachable, or its answer is of no use. *)
OcrFails ==
    /\ pc = "ocr"
    /\ pc' \in {"unavailable", "bad gateway"}
    /\ UNCHANGED <<req, value, serial, method, match, source, hinted>>

----------------------------------------------------------------------------
(* scan and re-scan: the crop of the serial, if the photo did not show it. *)
SerialCrop(s) ==
    /\ pc = "recognised" /\ req.kind \in {"scan", "rescan"}
    /\ serial' = IF /\ req.crop /\ serial = None /\ req.ocr
                    /\ req.kind = "scan" \/ req.engine # "llm"
                 THEN s ELSE serial
    /\ pc' = "done"
    /\ UNCHANGED <<req, value, method, match, source, hinted>>

(* bulk: the meter the serial belongs to. *)
MatchSerial ==
    /\ pc = "recognised" /\ req.kind = "bulk"
    /\ match' = IF serial = None THEN NoMatch ELSE Match(serial, Meters)
    /\ pc' = IF match'.meter = "none" /\ req.engine # "ocr" /\ LlmEnabled THEN "zoom" ELSE "hint"
    /\ UNCHANGED <<req, value, serial, method, source, hinted>>

(* Three bands of the photo, each seen closer: of the serials they show    *)
(* the first that belongs to a meter counts, others are never kept.        *)
ZoomPass(seen) ==
    /\ pc = "zoom"
    /\ IF seen = None \/ Match(seen, Meters).meter = "none"
       THEN UNCHANGED <<serial, method, match>>
       ELSE /\ serial' = seen
            /\ match' = Match(seen, Meters)
            /\ method' = IF method # None THEN method ELSE "llm"
    /\ pc' = "hint"
    /\ UNCHANGED <<req, value, source, hinted>>

BulkHintNeeded ==
    /\ match.meter # "none" /\ req.engine # "ocr" /\ LlmEnabled /\ req.last
    /\ value = None \/ ~Fits(value, MeterById(match.meter).type)

(* Mutant: the value changes, and the engine it is ascribed to does not.   *)
BulkHintUnascribed(answer, s) ==
    /\ pc = "hint" /\ req.kind = "bulk" /\ BulkHintNeeded
    /\ LET type == MeterById(match.meter).type
           v    == Distinct(Clean(answer, type), s)
       IN  /\ IF v # None THEN value' = v /\ source' = "hint" ELSE UNCHANGED <<value, source>>
           /\ hinted' = type
    /\ serial' = IF serial = None THEN s ELSE serial
    /\ pc' = "done"
    /\ UNCHANGED <<req, match, method>>

BulkHint(answer, s) ==
    /\ pc = "hint" /\ req.kind = "bulk" /\ BulkHintNeeded
    /\ LET type == MeterById(match.meter).type
           v    == Distinct(Clean(answer, type), s)
       IN  /\ IF v # None
              THEN value' = v /\ method' = "llm" /\ source' = "hint"
              ELSE UNCHANGED <<value, method, source>>
           /\ hinted' = type
    /\ serial' = IF serial = None THEN s ELSE serial
    /\ pc' = "done"
    /\ UNCHANGED <<req, match>>

BulkDone ==
    /\ pc = "hint" /\ req.kind = "bulk" /\ ~BulkHintNeeded
    /\ pc' = "done"
    /\ UNCHANGED <<req, value, serial, method, match, source, hinted>>

(* hint_rescan_for_meter: the user chose the meter.  Its answer names no   *)
(* serial; nothing is asked when the value fits, or cannot be asked.       *)
MustAsk == ~Fits(req.current, req.type) /\ req.engine # "ocr" /\ LlmEnabled

HintRescanKeep ==
    /\ pc = "start" /\ req.kind = "hint"
    /\ ~MustAsk
    /\ value' = req.current
    /\ source' = IF req.current # None THEN "client" ELSE None
    /\ pc' = "done"
    /\ UNCHANGED <<req, serial, method, match, hinted>>

HintRescanAsk(answer, s) ==
    /\ pc = "start" /\ req.kind = "hint"
    /\ MustAsk
    /\ LET v == Distinct(Clean(answer, req.type), s)
       IN  /\ value' = IF v # None THEN v ELSE req.current
           /\ method' = IF v # None THEN "llm" ELSE None
           /\ source' = IF v # None THEN "hint" ELSE "client"
    /\ hinted' = req.type
    /\ pc' = "done"
    /\ UNCHANGED <<req, serial, match>>

LlmError ==
    /\ \/ pc \in {"first", "retry", "zoom"}
       \/ pc = "hint" /\ BulkHintNeeded
       \/ /\ pc = "start" /\ req.kind = "hint"
          /\ MustAsk
    /\ LlmFails

Init ==
    /\ req \in Requests
    /\ pc = "start"
    /\ value = None /\ serial = None /\ method = None
    /\ match = NoMatch
    /\ source = None /\ hinted = None

Next ==
    \/ Start \/ OcrFails \/ MatchSerial \/ BulkDone \/ HintRescanKeep \/ LlmError
    \/ \E answer \in Answers, s \in SerialAnswers :
          \/ FirstPass(answer, s) \/ Retry(answer, s) \/ BulkHint(answer, s)
          \/ HintRescanAsk(answer, s) \/ OcrScan(answer, s)
    \/ \E s \in SerialAnswers : SerialCrop(s) \/ ZoomPass(s)

Spec == Init /\ [][Next]_vars

----------------------------------------------------------------------------
(* However many passes it took, the answer names the engine its value      *)
(* comes from, also after a fallback; a request for one engine is never    *)
(* answered by the other, what the user typed is ascribed to none, and a   *)
(* value from a pass with a hint has as many digits behind the separator   *)
(* as displays of that meter's type, unless it is too short for them.      *)
MethodHonest ==
    pc = "done" =>
       /\ source \in {"llm", "hint"} => method = "llm" /\ req.engine # "ocr"
       /\ source = "ocr" => method = "ocr" /\ req.engine # "llm"
       /\ source = "client" => method = None
       /\ source = "hint" /\ Count[value.digits] > Decimals[hinted] => Fits(value, hinted)

(* A photo is given to a meter only if the serial the user is shown with   *)
(* it resembles the meter's: equal, one part of the other, or as few edits *)
(* apart as its length forgives; "exact" names the only equal one; and a   *)
(* serial that resembles a meter of the property is never left without.    *)
SerialExplainsMatch ==
    LET chars == UNION {ToSet(m.serial) : m \in ToSet(Meters)}
        Alike(m) == Resembles(serial, m.serial, chars)
    IN  pc = "done" /\ req.kind = "bulk" =>
           IF match.meter # "none"
           THEN /\ serial # None /\ Alike(MeterById(match.meter))
                /\ match.confidence = "exact" =>
                      \A m \in ToSet(Meters) : m.serial = serial <=> m.id = match.meter
           ELSE serial = None \/ \A m \in ToSet(Meters) : ~Alike(m)
=============================================================================
