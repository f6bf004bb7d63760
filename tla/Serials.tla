------------------------------ MODULE Serials ------------------------------
(***************************************************************************)
(* Matching a detected serial number with the meters of a property         *)
(* (_match_serial_to_meters and _levenshtein in services/ocr_pipeline.py). *)
(* A serial is the sequence of its characters after _normalize_serial;     *)
(* meters is a sequence of [id, serial].                                   *)
(***************************************************************************)
EXTENDS Integers, Sequences, SequencesExt, FiniteSetsExt

CONSTANTS
    OneEditFrom, TwoEditsFrom   \* lengths from which one or two edits are forgiven: 6, 10

Cost(ca, cb) == IF ca = cb THEN 0 ELSE 1

(* Mutant: a substitution is free. *)
NextRowFreeSubstitution(prev, i, ca, b) ==
    FoldLeftDomain(LAMBDA cur, j : Append(cur, Min({prev[j + 1] + 1, cur[j] + 1, prev[j]})),
                   <<i>>, b)

(* One row of the table from the row above it. *)
NextRow(prev, i, ca, b) ==
    FoldLeftDomain(LAMBDA cur, j : Append(cur, Min({prev[j + 1] + 1, cur[j] + 1, prev[j] + Cost(ca, b[j])})),
                   <<i>>, b)

(* Edit distance with two rows, the longer string outside. *)
Distance(a, b) ==
    Last(FoldLeftDomain(LAMBDA prev, i : NextRow(prev, i, a[i], b),
                        [j \in 1..(Len(b) + 1) |-> j - 1], a))

Levenshtein(s, t) == IF Len(s) < Len(t) THEN Distance(t, s) ELSE Distance(s, t)

PartOf(s, t) == \E i \in 0..(Len(t) - Len(s)) : SubSeq(t, i + 1, i + Len(s)) = s

(* What is forgiven depends on the shorter of the two. *)
MaxEdits(s, t) ==
    LET n == Min({Len(s), Len(t)})
    IN  IF n >= TwoEditsFrom THEN 2 ELSE IF n >= OneEditFrom THEN 1 ELSE 0

Partial(s, t) ==
    \/ PartOf(s, t) \/ PartOf(t, s)
    \/ MaxEdits(s, t) > 0 /\ Levenshtein(s, t) <= MaxEdits(s, t)

NoMatch == [meter |-> "none", confidence |-> "none", candidates |-> {}]

(* The first of the meters hit, how sure it is, and all if there are several. *)
FirstOf(hits, meters, confidence) ==
    [meter |-> meters[Min(hits)].id, confidence |-> confidence,
     candidates |-> IF Cardinality(hits) = 1 THEN {} ELSE {meters[i].id : i \in hits}]

Match(serial, meters) ==
    LET exact   == {i \in DOMAIN meters : meters[i].serial = serial}
        partial == {i \in DOMAIN meters \ exact : Partial(serial, meters[i].serial)}
    IN  CASE Cardinality(exact) = 1 -> FirstOf(exact, meters, "exact")
          [] Cardinality(exact) > 1 -> FirstOf(exact, meters, "partial")
          [] exact = {} /\ partial # {} -> FirstOf(partial, meters, "partial")
          [] OTHER -> NoMatch

----------------------------------------------------------------------------
(* The reference: what a number of single edits makes of a string.         *)
Edited(s, chars) ==
    {RemoveAt(s, i) : i \in DOMAIN s}
    \union {InsertAt(s, i, c) : i \in 1..(Len(s) + 1), c \in chars}
    \union {ReplaceAt(s, i, c) : i \in DOMAIN s, c \in chars}

(* s and t differ by as many edits as their lengths forgive. *)
Forgiven(s, t, chars) ==
    LET once == Edited(s, chars)
    IN  \/ MaxEdits(s, t) >= 1 /\ t \in once
        \/ MaxEdits(s, t) = 2 /\ t \in UNION {Edited(u, chars) : u \in once}

Resembles(s, t, chars) ==
    s = t \/ PartOf(s, t) \/ PartOf(t, s) \/ Forgiven(s, t, chars)
=============================================================================
