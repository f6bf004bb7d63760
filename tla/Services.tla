------------------------------ MODULE Services -----------------------------
(***************************************************************************)
(* Nine components that share no state, side by side: the discovery cache, *)
(* the price of oil, the down-sampling job, the recognition of a photo,    *)
(* the standalone OCR service, the limit on request bodies, two dialogs of *)
(* the frontend, and the month and year views.  A behaviour moves one of   *)
(* them, its focus; the others rest.                                       *)
(***************************************************************************)
EXTENDS Discovery, Integers, Sequences, FiniteSets

CONSTANTS
    Foci,                       \* which components may move
    \* OilMarket
    Tasks, Offers, MinPrice, MaxPrice, MinRecords, RecentDays, SeasonalAge, SeasonalDays, DaysPerYear,
    Recorded, FirstDay, LastDay,
    \* Retention
    Minute, Hour, Old, Aging, Day, Nights, Buckets, StoredReadings, ReadingTimes, ReadingValues,
    MaxId, MaxRequests,
    \* Recognition
    Count, SameAsSerial, Answers, SerialAnswers, MinDigits, MaxDigits, EqualFrom, Decimals,
    MetersByNumber, Asked, OneEditFrom, TwoEditsFrom,
    \* OcrService
    Calls, Images, MaxSide, MaxPixels, MaxUpscaled, Results, SerialResults,
    \* Edge
    Limit, Chunks, Declarations, Garbage,
    \* Review and Capture
    Photos, ReviewMeters, MaxCrops, MaxCuts, MaxHints, MaxTyped, MaxChosen, MaxPending,
    \* Statistics
    CountedMeters, MonthStart, MonthsPerYear, LongestMonth, Tolerance, Months, EstimatedFrom, Scale,
    CountTimes, CountValues, PriceEntries, StoredCounts, FirstNow, LastNow, MaxReadings, MaxChanges

VARIABLES
    focus,
    today, prices, task, job, offered,
    readings, nextId, night, tier, step, averages, deleted, inserted, requests, touched,
    req, pass, reading, serial, method, match, source, hinted,
    stageOf, kind, upload, work, files, reader, built, answer, spilled,
    declared, received, exceeded, sent_413, app, taken, wire,
    rows, shown, value, meter, crop, loading, cuts, scans, hints, flagged, crops, asked, typed, strayed,
    moved,
    stage, original, preview, image, confirmed, pending, saving, posted, chosen, written, clicks, late,
    clock, counted, nextCounted, entries, changes

market      == <<today, prices, task, job, offered>>
retention   == <<readings, nextId, night, tier, step, averages, deleted, inserted, requests, touched>>
recognition == <<req, pass, reading, serial, method, match, source, hinted>>
ocr         == <<stageOf, kind, upload, work, files, reader, built, answer, spilled>>
edge        == <<declared, received, exceeded, sent_413, app, taken, wire>>
review      == <<rows, shown, value, meter, crop, loading, cuts, scans, hints, flagged, crops, asked,
                 typed, strayed, moved>>
capture     == <<stage, original, preview, image, confirmed, pending, saving, posted, chosen, written,
                 clicks, late>>
statistics  == <<clock, counted, nextCounted, entries, changes>>

all == <<focus, vars, market, retention, recognition, ocr, edge, review, capture, statistics>>

----------------------------------------------------------------------------
O == INSTANCE OilMarket WITH pc <- task, Year <- DaysPerYear, NoTask <- None

R == INSTANCE Retention WITH
        Stored <- StoredReadings, Times <- ReadingTimes, Values <- ReadingValues, NoRow <- None

G == INSTANCE Recognition WITH
        pc <- pass, value <- reading, Meters <- MetersByNumber, Requests <- Asked

W == INSTANCE OcrService WITH pc <- stageOf, image <- upload

E == INSTANCE Edge

V == INSTANCE Review WITH Meters <- ReviewMeters

C == INSTANCE Capture WITH value <- confirmed, typed <- written

S == INSTANCE Statistics WITH
        now <- clock, readings <- counted, nextId <- nextCounted, prices <- entries,
        Meters <- CountedMeters, Times <- CountTimes, Values <- CountValues, Prices <- PriceEntries,
        Stored <- StoredCounts

ASSUME MarketAssumption ==
    /\ FirstDay \in Int /\ MinPrice \in Nat \ {0} /\ RecentDays \in Nat /\ SeasonalAge \in Nat
    /\ \A table \in Recorded : /\ IsFiniteSet(table) /\ table \subseteq O!Row
                               /\ \A r, s \in table : r.day = s.day => r = s

(* What is stored of a reading. *)
RetainedRow ==
    [meter  : {1} \union UNION {{table[i].meter : i \in DOMAIN table} : table \in StoredReadings},
     at     : Int, value : Int,
     source : {"manual", "auto", "archived"}, note : BOOLEAN]

ASSUME RetentionAssumption ==
    /\ MaxId \in Nat /\ Minute \in Nat \ {0} /\ Hour \in Nat \ {0}
    /\ Old \in Int /\ Aging \in Int /\ Old <= Aging /\ Day \in Int
    /\ Buckets \in [1..3 -> Nat \ {0}] /\ Buckets[1] # 1 /\ Buckets[2] # 1
    /\ ReadingTimes \subseteq Int /\ ReadingValues \subseteq Int
    /\ None \notin RetainedRow
    /\ \A table \in StoredReadings : /\ \E n \in 0..MaxId : DOMAIN table = 1..n
                                     /\ \A i \in DOMAIN table : table[i] \in RetainedRow

(* Serials are sequences; meters have identities of their own, none of     *)
(* which is the "none" of a photo that belongs to no meter.                *)
ASSUME RecognitionAssumption ==
    /\ Asked \subseteq G!Request /\ \A r \in Asked : r.kind = "bulk" => r.type = None
    /\ Answers \subseteq [digits : DOMAIN Count, frac : Nat] \union {None}
    /\ None \notin {"llm", "ocr", "hint", "client"}
    /\ \A s \in SerialAnswers \ {None} : s \in Seq(G!ToSet(s))
    /\ Len(MetersByNumber) \in Nat /\ DOMAIN MetersByNumber = 1..Len(MetersByNumber)
    /\ \A i \in DOMAIN MetersByNumber : /\ MetersByNumber[i].id # "none"
                                        /\ MetersByNumber[i].serial \in Seq(G!ToSet(MetersByNumber[i].serial))
    /\ \A i, j \in DOMAIN MetersByNumber : MetersByNumber[i].id = MetersByNumber[j].id => i = j

ASSUME OcrAssumption ==
    /\ MaxUpscaled \in Nat \ {0}
    /\ \A im \in Images : im.width \in Nat \ {0} /\ im.height \in Nat \ {0}

ASSUME EdgeAssumption ==
    Limit \in Nat /\ Chunks \subseteq Nat /\ Declarations \subseteq Nat \union {Garbage, None}

ASSUME ReviewAssumption == IsFiniteSet(Photos) /\ {MaxCrops, MaxCuts, MaxHints} \subseteq Nat

ASSUME CaptureAssumption == None \notin Photos /\ "typed" \notin Photos

(* When readings are taken. *)
Instants == CountTimes \union UNION {{table[i].at : i \in DOMAIN table} : table \in StoredCounts}

(* The calendar holds the months that are asked for, and the year before,  *)
(* as long as the clock runs, and those of every reading, of the future    *)
(* too; Scale is a multiple of what divides it.                            *)
ASSUME StatisticsAssumption ==
    /\ MonthStart \in Seq(Int) /\ \A k, l \in DOMAIN MonthStart : k < l => MonthStart[k] < MonthStart[l]
    /\ Months \in DOMAIN MonthStart /\ MonthStart[Months] <= FirstNow
    /\ FirstNow \in Int /\ LastNow \in Int /\ FirstNow <= LastNow /\ LastNow < MonthStart[Len(MonthStart)]
    /\ MonthsPerYear \in Nat \ {0} /\ LongestMonth \in Nat /\ Tolerance \in Nat /\ MaxReadings \in Nat
    /\ MonthStart[1] <= 0
    /\ MonthsPerYear + 1 \in DOMAIN MonthStart /\ MonthStart[MonthsPerYear + 1] <= FirstNow
    /\ \A k \in 1..(Len(MonthStart) - 1) : MonthStart[k + 1] - MonthStart[k] <= LongestMonth
    /\ Instants \subseteq Nat /\ \A t \in Instants : t < MonthStart[Len(MonthStart)]
    /\ CountValues \subseteq Int
    /\ Scale \in Int /\ \A s, t \in Instants : s < t => Scale % (t - s) = 0
    /\ \A table \in StoredCounts :
          /\ \E n \in 0..MaxReadings : DOMAIN table = 1..n /\ Len(table) = n
          /\ \A i \in DOMAIN table : table[i].value \in Int
    /\ \A entry \in PriceEntries : entry.from \in Int /\ entry.price \in Int
    /\ IsFiniteSet(CountedMeters) /\ None \notin Int

----------------------------------------------------------------------------
(* A component that rests is at one of its initial states. *)
AllInit ==
    /\ focus \in Foci
    /\ Init
    /\ O!Init /\ (focus = "market" \/ prices = CHOOSE p \in Recorded : TRUE)
    /\ R!Init /\ (focus = "retention" \/ nextId = 1)
    /\ G!Init /\ (focus = "recognition" \/ req = CHOOSE r \in Asked : TRUE)
    /\ W!Init
    /\ E!Init /\ (focus = "edge" \/ declared = CHOOSE d \in Declarations : TRUE)
    /\ V!Init /\ (focus = "review" \/ \A p \in Photos : value[p] = None)
    /\ C!Init
    /\ S!Init /\ (focus = "statistics" <=> nextCounted # 1)

AllNext ==
    \/ /\ focus = "discovery" /\ Next
       /\ UNCHANGED <<focus, market, retention, recognition, ocr, edge, review, capture, statistics>>
    \/ /\ focus = "market" /\ O!Next
       /\ UNCHANGED <<focus, vars, retention, recognition, ocr, edge, review, capture, statistics>>
    \/ /\ focus = "retention" /\ R!Next
       /\ UNCHANGED <<focus, vars, market, recognition, ocr, edge, review, capture, statistics>>
    \/ /\ focus = "recognition" /\ G!Next
       /\ UNCHANGED <<focus, vars, market, retention, ocr, edge, review, capture, statistics>>
    \/ /\ focus = "ocr" /\ W!Next
       /\ UNCHANGED <<focus, vars, market, retention, recognition, edge, review, capture, statistics>>
    \/ /\ focus = "edge" /\ E!Next
       /\ UNCHANGED <<focus, vars, market, retention, recognition, ocr, review, capture, statistics>>
    \/ /\ focus = "review" /\ V!Next
       /\ UNCHANGED <<focus, vars, market, retention, recognition, ocr, edge, capture, statistics>>
    \/ /\ focus = "capture" /\ C!Next
       /\ UNCHANGED <<focus, vars, market, retention, recognition, ocr, edge, review, statistics>>
    \/ /\ focus = "statistics" /\ S!Next
       /\ UNCHANGED <<focus, vars, market, retention, recognition, ocr, edge, review, capture>>

AllSpec == AllInit /\ [][AllNext]_all

----------------------------------------------------------------------------
(* OilMarket: a day has one price, and keeps one. *)
OnePricePerDay == O!OnePricePerDay

(* OilMarket: cheaper oil is never a worse buy. *)
CheaperNeverWorse == O!CheaperNeverWorse

(* Retention: evidence that requests commit in time is left alone. *)
EvidenceSurvives == R!EvidenceSurvives

(* Retention: buckets keep one row, and counters still rise. *)
DownsamplingFaithful == R!DownsamplingFaithful

(* Recognition: the answer names the engine its value comes from. *)
MethodHonest == G!MethodHonest

(* Recognition: a meter is assigned only by a serial that resembles its own. *)
SerialExplainsMatch == G!SerialExplainsMatch

(* OcrService: whatever fails, no file outlives its call. *)
ScansLeaveNothing == W!ScansLeaveNothing

(* Edge: what exceeds the limit is answered by one 413. *)
OversizedRefused == E!OversizedRefused

(* Review: the answer to a crop finds its row. *)
CropAnswersLand == V!CropAnswersLand

(* Review: a hint corrects the row for the meter it was given for. *)
HintsFitTheMeter == V!HintsFitTheMeter

(* Capture: the photo stored as evidence is the one the value was read from. *)
EvidenceMatchesValue == C!EvidenceMatchesValue

(* Statistics: the month and the year view cannot disagree. *)
ViewsAgree == focus = "statistics" => S!ViewsAgree

(* Statistics: a complete month is over and done with. *)
CompleteMonthsStay == S!CompleteMonthsStay

(* Statistics: the latest reading is the one read last. *)
LatestReadingShown == S!LatestReadingShown
=============================================================================
