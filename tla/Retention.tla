----------------------------- MODULE Retention -----------------------------
(***************************************************************************)
(* Down-sampling of stored readings (run_retention and _downsample in      *)
(* jobs/retention.py): every night, in three tiers by age, the readings of *)
(* a meter that fall into one bucket give way to one row with their        *)
(* average, all in one transaction that reads what requests commit         *)
(* meanwhile.                                                              *)
(*                                                                         *)
(* Requests create 'manual' readings only; 'auto' rows are those an older  *)
(* client stored.  Images are part of what "note" stands for: evidence.    *)
(***************************************************************************)
EXTENDS Integers, FiniteSets, FiniteSetsExt

CONSTANTS
    Minute, Hour,       \* instants per minute, minutes per hour
    Old, Aging, Day,    \* cutoff_2y and cutoff_90d of the night before, and how they move
    Nights,             \* bound: runs of the job
    Buckets,            \* minutes per bucket of the old, the aging and the recent tier
    Stored,             \* readings there may be at first: functions id -> row
    Times, Values,      \* what a PATCH or POST names
    MaxId, MaxRequests, \* bounds: ids of rows, requests while the job runs
    NoRow

VARIABLES
    readings,       \* committed: id -> [meter, at, value, source, note], or NoRow
    nextId,
    night,
    tier, step,     \* the job: 1..3, 4 when all tiers are done; the statement to come
    averages,       \* the temporary table
    deleted, inserted,      \* what the transaction did and did not commit yet
    requests,
    touched         \* history: rows requests changed or deleted since the job began

vars == <<readings, nextId, night, tier, step, averages, deleted, inserted, requests, touched>>

Ids  == 1..MaxId
Rows == {i \in Ids : readings[i] # NoRow}

TypeOK ==
    /\ \A i \in Rows : readings[i].source \in {"manual", "auto", "archived"}
    /\ nextId \in 1..(MaxId + 1) /\ night \in 0..Nights /\ tier \in 0..4
    /\ step \in {"select", "delete", "insert"}
    /\ deleted \subseteq Ids /\ DOMAIN inserted \subseteq Ids
    /\ deleted \intersect DOMAIN inserted = {} /\ \A i \in DOMAIN inserted : readings[i] = NoRow
    /\ touched \subseteq Ids /\ requests \in 0..MaxRequests

----------------------------------------------------------------------------
MinuteOf(at) == at \div Minute

(* bucket_start, as a minute. *)
BucketStart(at, bucket) == MinuteOf(at) - ((MinuteOf(at) % Hour) % bucket)

(* The rows the statements of the job see: what is committed at that       *)
(* moment, less what the job deleted, and what it inserted.                *)
Seen == (Rows \ deleted) \union DOMAIN inserted

Row(i) == IF i \in DOMAIN inserted THEN inserted[i] ELSE readings[i]

Cutoff2y  == Old + night * Day
Cutoff90d == Aging + night * Day

InTier(at) == CASE tier = 1 -> at < Cutoff2y
                [] tier = 2 -> Cutoff2y <= at /\ at < Cutoff90d
                [] tier = 3 -> Cutoff90d <= at

(* Mutant: rows averaged once are left alone ever after. *)
SourcesAutoOnly == {"auto"}

Sources == IF Buckets[tier] = 1 THEN {"auto"} ELSE {"auto", "archived"}

(* Mutant: evidence does not protect a reading. *)
MatchesAnyEvidence(i) == Row(i).source \in Sources /\ InTier(Row(i).at)

(* The WHERE clause, evaluated for each statement anew. *)
Matches(i) == Row(i).source \in Sources /\ ~Row(i).note /\ InTier(Row(i).at)

Group(i) == {j \in Seen : /\ Matches(j)
                          /\ Row(j).meter = Row(i).meter
                          /\ BucketStart(Row(j).at, Buckets[tier]) = BucketStart(Row(i).at, Buckets[tier])}

(* AVG into a column with fixed digits: rounded half away from zero.       *)
Averaged(group) ==
    LET n   == Cardinality(group)
        sum == MapThenSumSet(LAMBDA i : Row(i).value, group)
    IN  [meter  |-> Row(CHOOSE i \in group : TRUE).meter,
         at     |-> Min({Row(i).at : i \in group}),
         value  |-> (2 * sum + n) \div (2 * n),
         source |-> "archived", note |-> FALSE]

----------------------------------------------------------------------------
JobUnchanged == UNCHANGED <<night, tier, step, averages, deleted, inserted>>

Begin ==
    /\ tier = 0 /\ night < Nights
    /\ tier' = 1 /\ night' = night + 1
    /\ touched' = {}
    /\ UNCHANGED <<readings, nextId, step, averages, deleted, inserted, requests>>

SelectAverages ==
    /\ tier \in 1..3 /\ step = "select"
    /\ averages' = {Averaged(Group(i)) : i \in {j \in Seen : Matches(j)}}
    /\ step' = "delete"
    /\ UNCHANGED <<readings, nextId, night, tier, deleted, inserted, requests, touched>>

DeleteMatching ==
    /\ tier \in 1..3 /\ step = "delete"
    /\ LET gone == {i \in Seen : Matches(i)}
       IN  /\ deleted' = deleted \union (gone \intersect Rows)
           /\ inserted' = [i \in DOMAIN inserted \ gone |-> inserted[i]]
    /\ step' = "insert"
    /\ UNCHANGED <<readings, nextId, night, tier, averages, requests, touched>>

(* In any order: nothing depends on which row gets which id. *)
Numbered(ids) == CHOOSE given \in [ids -> averages] : {given[i] : i \in ids} = averages

InsertAverages ==
    /\ tier \in 1..3 /\ step = "insert"
    /\ LET ids == nextId..(nextId + Cardinality(averages) - 1)
       IN  /\ ids \subseteq Ids
           /\ inserted' = [i \in DOMAIN inserted \union ids |->
                              IF i \in ids THEN Numbered(ids)[i] ELSE inserted[i]]
           /\ nextId' = nextId + Cardinality(averages)
    /\ averages' = {} /\ step' = "select" /\ tier' = tier + 1
    /\ UNCHANGED <<readings, night, deleted, requests, touched>>

Reset ==
    /\ tier' = 0 /\ step' = "select"
    /\ averages' = {} /\ deleted' = {} /\ inserted' = <<>>
    /\ UNCHANGED <<night, touched>>

(* What the transaction leaves, once it is committed. *)
Final == [i \in Ids |-> CASE i \in deleted          -> NoRow
                          [] i \in DOMAIN inserted  -> inserted[i]
                          [] OTHER                  -> readings[i]]

Commit ==
    /\ tier = 4
    /\ readings' = Final
    /\ Reset
    /\ UNCHANGED <<nextId, requests>>

(* Any statement fails, or the process dies: all of it is rolled back. *)
Fail ==
    /\ tier # 0
    /\ Reset
    /\ UNCHANGED <<readings, nextId, requests>>

----------------------------------------------------------------------------
(* Requests, between nights and while the job runs.  A row the job deleted is locked until it commits;  *)
(* a request about it waits and then finds no row to write.                *)
Request ==
    /\ requests < MaxRequests /\ requests' = requests + 1
    /\ JobUnchanged

UpdateReading(i) ==
    /\ Request
    /\ i \in Rows \ deleted
    /\ \E row \in [meter : {readings[i].meter}, at : Times \union {readings[i].at},
                   value : {readings[i].value}, source : {readings[i].source}, note : BOOLEAN] :
          /\ row # readings[i]
          /\ readings' = [readings EXCEPT ![i] = row]
    /\ touched' = touched \union {i}
    /\ UNCHANGED nextId

DeleteReading(i) ==
    /\ Request
    /\ i \in Rows \ deleted
    /\ readings' = [readings EXCEPT ![i] = NoRow]
    /\ touched' = touched \union {i}
    /\ UNCHANGED nextId

CreateReading(at, value) ==
    /\ Request
    /\ nextId \in Ids
    /\ readings' = [readings EXCEPT ![nextId] =
                       [meter |-> 1, at |-> at, value |-> value, source |-> "manual", note |-> FALSE]]
    /\ nextId' = nextId + 1
    /\ UNCHANGED touched

Init ==
    /\ \E rows \in Stored :
          /\ readings = [i \in Ids |-> IF i \in DOMAIN rows THEN rows[i] ELSE NoRow]
          /\ nextId = Cardinality(DOMAIN rows) + 1
    /\ night = 0 /\ tier = 0 /\ step = "select"
    /\ averages = {} /\ deleted = {} /\ inserted = <<>>
    /\ requests = 0 /\ touched = {}

Next ==
    \/ Begin \/ SelectAverages \/ DeleteMatching \/ InsertAverages \/ Commit \/ Fail
    \/ \E i \in Ids : UpdateReading(i) \/ DeleteReading(i)
    \/ \E at \in Times, value \in Values : CreateReading(at, value)

Spec == Init /\ [][Next]_vars

----------------------------------------------------------------------------
Evidence(row) == row.source = "manual" \/ row.note

(* Whatever requests commit between the statements, the job neither merges *)
(* nor deletes a reading that was entered by hand, or that has a note or a *)
(* photo by then.                                                          *)
EvidenceSurvives ==
    [][Commit => \A i \in Rows : Evidence(readings[i]) => readings'[i] = readings[i]]_vars

Rises(rows, ids) ==
    \A i, j \in ids : /\ rows[i].meter = rows[j].meter
                      /\ rows[i].at < rows[j].at
                      => rows[i].value <= rows[j].value

TierOf(at) == IF at < Cutoff2y THEN 1 ELSE IF at < Cutoff90d THEN 2 ELSE 3

SameBucket(r, s) ==
    /\ r.meter = s.meter
    /\ TierOf(r.at) = TierOf(s.at)
    /\ BucketStart(r.at, Buckets[TierOf(r.at)]) = BucketStart(s.at, Buckets[TierOf(s.at)])

(* The recent tier averages 'auto' rows around those averaged before; a    *)
(* bucket has both after a late change of read_at.                         *)
Unmixed ==
    \A i, j \in Rows : readings[i].source = "archived" /\ readings[j].source = "auto"
                         /\ TierOf(readings[i].at) = 3
                       => ~SameBucket(readings[i], readings[j])

(* The rows there are after a step. *)
Left == {i \in Ids : readings'[i] # NoRow}

Faithful ==
    /\ \A i \in deleted : \E j \in Left : SameBucket(readings[i], readings'[j])
    /\ \A i, j \in {k \in Left : ~Evidence(readings'[k]) /\ TierOf(readings'[k].at) # 3} :
          SameBucket(readings'[i], readings'[j]) => i = j
    /\ (Rises(readings, Rows) /\ Unmixed /\ \A i \in Rows : ~Evidence(readings[i]))
          => Rises(readings', Left)

(* Unless a request changed or deleted rows between its statements: the    *)
(* bucket of a row the job removed keeps a row of the meter, in the older  *)
(* tiers at most one, and where nothing but rows without evidence is       *)
(* stored, and no mixed bucket, counters that rose before still rise.      *)
DownsamplingFaithful == [][Commit /\ touched = {} => Faithful]_vars
=============================================================================
