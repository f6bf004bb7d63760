------------------------------ MODULE OilTank ------------------------------
(***************************************************************************)
(* The oil tanks of a property: their level readings, the deliveries, the  *)
(* consumption computed from both (services/oil_consumption.py and         *)
(* oil_loader.py), and the notices of probable deliveries with their       *)
(* dismissal (routers/oil_deliveries.py).                                  *)
(*                                                                         *)
(* Readings of a tank come from the API alone, which stores them as        *)
(* 'manual'; the retention job does not touch those.  Prices are in cents  *)
(* (total) and hundredths of a cent (per litre), the units of the columns. *)
(***************************************************************************)
EXTENDS Integers, Sequences, FiniteSets, FiniteSetsExt

CONSTANTS
    Tanks,              \* the oil meters, numbered in the order of their names
    Levels,             \* levels a reading can show, litres
    Times, Window,      \* instants in days, and WINDOW_DAYS
    Litres, Totals, PerLitre,     \* what requests about deliveries name
    Asked,              \* pairs of readings requests want to dismiss
    MaxTotal, MaxPerLiter,        \* MAX_TOTAL_PRICE, MAX_PRICE_PER_LITER
    Stored, Today,      \* readings there may be at first, and the time then
    Workers,            \* request threads
    MaxReadings, MaxDeliveries,   \* bounds: rows ever inserted
    MaxRequests,        \* bound: requests that change or dismiss something
    None, Unset         \* null, and a field a PATCH does not send

Reading == [tank : Tanks, at : Times, value : Levels]

Delivery == [at : Times, liters : Litres, total : 0..MaxTotal \union {None},
             per : 0..MaxPerLiter \union {None}]

(* OilDeliveryUpdate: null clears a price but nothing else. *)
Body == [at : Times \union {Unset}, liters : Litres \union {Unset},
         total : Totals \union {None, Unset}, per : PerLitre \union {None, Unset}]

ReadingIds  == 1..MaxReadings
DeliveryIds == 1..MaxDeliveries
Pair        == ReadingIds \X ReadingIds
Dismissal   == [tank : Tanks, pair : Pair]

ASSUME OilAssumption ==
    /\ Tanks \subseteq Nat /\ IsFiniteSet(Tanks)
    /\ Times \subseteq Nat /\ Window \in Nat
    /\ Levels \subseteq Nat
    /\ Litres \subseteq Nat \ {0}
    /\ MaxTotal \in Nat /\ MaxPerLiter \in Nat
    /\ Totals \subseteq 0..MaxTotal /\ PerLitre \subseteq 0..MaxPerLiter
    /\ \A rs \in Stored : rs \in Seq(Reading) /\ Len(rs) <= MaxReadings
    /\ Today \in Times /\ Asked \subseteq Pair
    /\ MaxReadings \in Nat /\ MaxDeliveries \in Nat /\ MaxRequests \in Nat
    /\ None # Unset /\ {None, Unset} \intersect (Int \union Reading \union Delivery) = {}

VARIABLES
    active,         \* tanks whose meter is not replaced
    now,            \* the clock
    reading,        \* readings: id -> row, None before its insert and after its deletion
    deliveries,     \* oil_deliveries: likewise
    dismissals,     \* oil_delivery_dismissals, unique by pair
    nextReading, nextDelivery,    \* the sequences of the ids
    pc, job,        \* request threads
    requests,
    answered,       \* history: pairs whose dismissal was answered with 204
    torn            \* history: deliveries two overlapping updates wrote

vars == <<active, now, reading, deliveries, dismissals, nextReading, nextDelivery,
          pc, job, requests, answered, torn>>

data == <<active, now, reading, deliveries, dismissals, nextReading, nextDelivery>>

----------------------------------------------------------------------------
(* The calculation.  A view v holds what load_oil_results loaded: the      *)
(* tanks it was asked about, readings, deliveries, dismissed pairs, and    *)
(* where the window begins.                                                *)

Counting(v, t) == {i \in DOMAIN v.readings :
                      /\ v.readings[i] # None
                      /\ v.readings[i].tank = t
                      /\ v.readings[i].at >= v.since}

Sooner(v, i, j) == \/ v.readings[i].at < v.readings[j].at
                   \/ v.readings[i].at = v.readings[j].at /\ i < j

Intervals(v, t) ==
    LET points == Counting(v, t)
    IN  {s \in points \X points :
            /\ v.readings[s[1]].at < v.readings[s[2]].at
            /\ ~\E k \in points : Sooner(v, s[1], k) /\ Sooner(v, k, s[2])}

Rise(v, s) == v.readings[s[2]].value - v.readings[s[1]].value

(* Mutant: an interval includes both of its ends. *)
CoversBothEnds(v, s, at) == v.readings[s[1]].at <= at /\ at <= v.readings[s[2]].at

Covers(v, s, at) == v.readings[s[1]].at < at /\ at <= v.readings[s[2]].at

(* Mutant: the tank with the smallest rise takes the delivery. *)
AssignedLeast(v, d, t) ==
    \E s \in Intervals(v, t) :
       /\ Covers(v, s, v.deliveries[d].at)
       /\ \A u \in v.tanks : \A r \in Intervals(v, u) :
             Covers(v, r, v.deliveries[d].at) =>
                \/ Rise(v, r) > Rise(v, s)
                \/ Rise(v, r) = Rise(v, s) /\ t <= u

(* assign_deliveries: the tank with the largest rise around the delivery,  *)
(* the first by name among equals.                                         *)
Assigned(v, d, t) ==
    \E s \in Intervals(v, t) :
       /\ Covers(v, s, v.deliveries[d].at)
       /\ \A u \in v.tanks : \A r \in Intervals(v, u) :
             Covers(v, r, v.deliveries[d].at) =>
                \/ Rise(v, r) < Rise(v, s)
                \/ Rise(v, r) = Rise(v, s) /\ t <= u

DeliveredIn(v, t, s) ==
    {d \in DOMAIN v.deliveries : /\ v.deliveries[d] # None
                                 /\ Covers(v, s, v.deliveries[d].at)
                                 /\ Assigned(v, d, t)}

Delivered(v, t, s) == MapThenSumSet(LAMBDA d : v.deliveries[d].liters, DeliveredIn(v, t, s))

JUMP_MIN_LITERS == 50
OneOfMaxLevel   == 20     \* JUMP_FRACTION_OF_MAX_LEVEL is 1/20

(* The rise is above jump_threshold of the levels in the window. *)
IsJump(v, t, s) ==
    /\ Rise(v, s) > JUMP_MIN_LITERS
    /\ \A i \in Counting(v, t) : OneOfMaxLevel * Rise(v, s) > v.readings[i].value

IsKnown(v, t, s) == DeliveredIn(v, t, s) # {} \/ ~IsJump(v, t, s)

(* Mutant: noise is clamped away, interval by interval. *)
ConsumptionClamped(v, t, s) ==
    LET balance == Delivered(v, t, s) - Rise(v, s) IN IF balance < 0 THEN 0 ELSE balance

Consumption(v, t, s) ==
    LET balance == Delivered(v, t, s) - Rise(v, s)
    IN  IF DeliveredIn(v, t, s) # {} /\ balance < 0 THEN 0 ELSE balance

Known(v, t) == {s \in Intervals(v, t) : IsKnown(v, t, s)}

Net(v, t) == MapThenSumSet(LAMBDA s : Consumption(v, t, s), Known(v, t))

Probable(v, t) == {s \in Intervals(v, t) : /\ ~IsKnown(v, t, s)
                                           /\ s \notin v.dismissed}

----------------------------------------------------------------------------
(* load_oil_results for the tanks ts, over the readings rs. *)
LoadOilResults(ts, rs, since) ==
    [tanks |-> ts, readings |-> rs, since |-> since, deliveries |-> deliveries,
     dismissed |-> {d.pair : d \in {e \in dismissals : e.tank \in ts}}]

Since == now - Window

(* What the dashboard computes: all active tanks of the property together. *)
Dashboard == LoadOilResults(active, reading, Since)

(* What the cost forecast computes: one tank by itself. *)
Forecast(t) == LoadOilResults({t}, reading, Since)

----------------------------------------------------------------------------
(* Prices.                                                                 *)

RoundHalfUp(a, b) == (2 * a + b) \div (2 * b)

Agree(liters, total, per) ==
    LET gap == 100 * total - liters * per
    IN  gap <= liters + 100 /\ -gap <= liters + 100

DerivePrices(liters, total, per) ==
    LET t == IF total = None /\ per # None THEN RoundHalfUp(liters * per, 100) ELSE total
        p == IF total # None /\ per = None THEN RoundHalfUp(100 * total, liters) ELSE per
    IN  [total |-> t, per |-> p,
         ok |-> /\ total # None /\ per # None => Agree(liters, total, per)
                /\ t # None => t <= MaxTotal
                /\ p # None => p <= MaxPerLiter]

(* Mutant: new litres leave the prices alone. *)
PatchedPricesKept(row, body, liters) ==
    CASE body.total # Unset /\ body.per # Unset ->
            [DerivePrices(liters, body.total, body.per) EXCEPT !.total = body.total, !.per = body.per]
      [] body.total # Unset /\ body.per = Unset -> DerivePrices(liters, body.total, None)
      [] body.total = Unset /\ body.per # Unset -> DerivePrices(liters, None, body.per)
      [] OTHER -> [total |-> row.total, per |-> row.per, ok |-> TRUE]

(* The prices update_delivery leaves in the row; when both are sent, the   *)
(* derivation only checks them.                                            *)
PatchedPrices(row, body, liters) ==
    CASE body.total # Unset /\ body.per # Unset ->
            [DerivePrices(liters, body.total, body.per) EXCEPT !.total = body.total, !.per = body.per]
      [] body.total # Unset /\ body.per = Unset -> DerivePrices(liters, body.total, None)
      [] body.total = Unset /\ body.per # Unset -> DerivePrices(liters, None, body.per)
      [] body.total = Unset /\ body.per = Unset ->
            IF body.liters # Unset /\ row.total # None
            THEN DerivePrices(liters, row.total, None)
            ELSE [total |-> row.total, per |-> row.per, ok |-> TRUE]

Sent(field, old) == IF field = Unset THEN old ELSE field

----------------------------------------------------------------------------
(* Readings and tanks, from routers/readings.py and routers/meters.py; each *)
(* is one commit.                                                          *)

Request == requests < MaxRequests /\ requests' = requests + 1

CreateReading(t, at, value) ==
    /\ nextReading <= MaxReadings
    /\ reading' = [reading EXCEPT ![nextReading] = [tank |-> t, at |-> at, value |-> value]]
    /\ nextReading' = nextReading + 1
    /\ UNCHANGED <<active, now, deliveries, dismissals, nextDelivery, pc, job, requests, answered, torn>>

(* Mutant: an edited reading takes its dismissals along. *)
UpdateReadingReopens(i, at, value) ==
    /\ Request
    /\ reading[i] # None
    /\ reading' = [reading EXCEPT ![i].at = at, ![i].value = value]
    /\ dismissals' = {d \in dismissals : i \notin {d.pair[1], d.pair[2]}}
    /\ UNCHANGED <<active, now, deliveries, nextReading, nextDelivery, pc, job, answered, torn>>

UpdateReading(i, at, value) ==
    /\ Request
    /\ reading[i] # None
    /\ reading' = [reading EXCEPT ![i].at = at, ![i].value = value]
    /\ UNCHANGED <<active, now, deliveries, dismissals, nextReading, nextDelivery, pc, job, answered, torn>>

(* The database deletes the dismissals that name the reading. *)
DeleteReading(i) ==
    /\ Request
    /\ reading[i] # None
    /\ reading' = [reading EXCEPT ![i] = None]
    /\ dismissals' = {d \in dismissals : i \notin {d.pair[1], d.pair[2]}}
    /\ UNCHANGED <<active, now, deliveries, nextReading, nextDelivery, pc, job, answered, torn>>

(* A PATCH of the meter sets replaced_at. *)
ReplaceTank(t) ==
    /\ Request
    /\ t \in active
    /\ active' = active \ {t}
    /\ UNCHANGED <<now, reading, deliveries, dismissals, nextReading, nextDelivery,
                   pc, job, answered, torn>>

Tick ==
    /\ now + 1 \in Times
    /\ now' = now + 1
    /\ UNCHANGED <<active, reading, deliveries, dismissals, nextReading, nextDelivery,
                   pc, job, requests, answered, torn>>

----------------------------------------------------------------------------
(* Deliveries.                                                             *)

CreateDelivery(at, liters, total, per) ==
    LET price == DerivePrices(liters, total, per)
    IN  /\ nextDelivery <= MaxDeliveries
        /\ at <= now + 1
        /\ price.ok
        /\ deliveries' = [deliveries EXCEPT ![nextDelivery] =
              [at |-> at, liters |-> liters, total |-> price.total, per |-> price.per]]
        /\ nextDelivery' = nextDelivery + 1
        /\ UNCHANGED <<active, now, reading, dismissals, nextReading, pc, job, requests, answered, torn>>

Respond(w) ==
    /\ pc' = [pc EXCEPT ![w] = "idle"]
    /\ job' = [job EXCEPT ![w] = None]

(* update_delivery up to its commit: what it answers with 422 changes nothing. *)
UpdateDelivery(w, d, body) ==
    LET old    == deliveries[d]
        liters == Sent(body.liters, old.liters)
        price  == PatchedPrices(old, body, liters)
    IN  /\ Request
        /\ pc[w] = "idle" /\ old # None
        /\ body.at # Unset => body.at <= now + 1
        /\ price.ok
        /\ pc' = [pc EXCEPT ![w] = "update"]
        /\ job' = [job EXCEPT ![w] =
              [delivery |-> d, old |-> old,
               new |-> [at |-> Sent(body.at, old.at), liters |-> liters,
                        total |-> price.total, per |-> price.per]]]
        /\ UNCHANGED <<data, answered, torn>>

(* The UPDATE names the columns that differ from the row that was loaded;  *)
(* it fails when the row is gone.                                          *)
UpdateFlush(w) ==
    LET d == job[w].delivery  old == job[w].old  new == job[w].new
    IN  /\ pc[w] = "update"
        /\ IF deliveries[d] = None
           THEN UNCHANGED <<deliveries, torn>>
           ELSE /\ deliveries' = [deliveries EXCEPT ![d] =
                      [c \in DOMAIN new |-> IF new[c] # old[c] THEN new[c] ELSE deliveries[d][c]]]
                /\ torn' = IF deliveries[d] # old THEN torn \union {d} ELSE torn
        /\ Respond(w)
        /\ UNCHANGED <<active, now, reading, dismissals, nextReading, nextDelivery, requests, answered>>

DeleteDelivery(d) ==
    /\ Request
    /\ deliveries[d] # None
    /\ deliveries' = [deliveries EXCEPT ![d] = None]
    /\ UNCHANGED <<active, now, reading, dismissals, nextReading, nextDelivery, pc, job, answered, torn>>

----------------------------------------------------------------------------
(* dismiss_probable.                                                       *)

Dismissed == {d.pair : d \in dismissals}

(* _dismissal_exists *)
Dismiss(w, pair) ==
    /\ Request
    /\ pc[w] = "idle"
    /\ pc' = [pc EXCEPT ![w] = IF pair \in Dismissed THEN "confirm" ELSE "look"]
    /\ job' = [job EXCEPT ![w] = [pair |-> pair]]
    /\ UNCHANGED <<data, answered, torn>>

(* _pair_belongs_to_property: 404 when the pair is gone meanwhile. *)
DismissConfirm(w) ==
    /\ pc[w] = "confirm"
    /\ answered' = IF job[w].pair \in Dismissed THEN answered \union {job[w].pair} ELSE answered
    /\ Respond(w)
    /\ UNCHANGED <<data, requests, torn>>

(* open_probable_deliveries: the meters and their readings. *)
DismissLook(w) ==
    /\ pc[w] = "look"
    /\ pc' = [pc EXCEPT ![w] = "match"]
    /\ job' = [job EXCEPT ![w] = [pair |-> job[w].pair, tanks |-> active,
                                  readings |-> reading, since |-> Since]]
    /\ UNCHANGED <<data, requests, answered, torn>>

(* open_probable_deliveries: deliveries and dismissals, read later, and    *)
(* the match; 404 without one.                                             *)
DismissMatch(w) ==
    LET j == job[w]
        v == LoadOilResults(j.tanks, j.readings, j.since)
    IN  /\ pc[w] = "match"
        /\ \/ \E t \in j.tanks :
                 /\ j.pair \in Probable(v, t)
                 /\ pc' = [pc EXCEPT ![w] = "insert"]
                 /\ job' = [job EXCEPT ![w] = [pair |-> j.pair, tank |-> t]]
           \/ /\ \A t \in j.tanks : j.pair \notin Probable(v, t)
              /\ Respond(w)
        /\ UNCHANGED <<data, requests, answered, torn>>

(* What the constraints of the table demand. *)
Insertable(j) ==
    /\ j.pair \notin Dismissed
    /\ reading[j.pair[1]] # None /\ reading[j.pair[2]] # None

(* Whatever the constraint that refuses the row: rolled back, 204. *)
DismissInsert(w) ==
    LET j == job[w]
    IN  /\ pc[w] = "insert"
        /\ dismissals' = IF Insertable(j)
                         THEN dismissals \union {[tank |-> j.tank, pair |-> j.pair]}
                         ELSE dismissals
        /\ answered' = answered \union {j.pair}
        /\ Respond(w)
        /\ UNCHANGED <<active, now, reading, deliveries, nextReading, nextDelivery, requests, torn>>

----------------------------------------------------------------------------
Init ==
    /\ active = Tanks
    /\ now = Today
    /\ \E rs \in Stored :
          /\ reading = [i \in ReadingIds |-> IF i <= Len(rs) THEN rs[i] ELSE None]
          /\ nextReading = Len(rs) + 1
    /\ deliveries = [d \in DeliveryIds |-> None] /\ nextDelivery = 1
    /\ dismissals = {}
    /\ pc = [w \in Workers |-> "idle"]
    /\ job = [w \in Workers |-> None]
    /\ requests = 0
    /\ answered = {} /\ torn = {}

ReadingStep ==
    \/ \E t \in Tanks, at \in Times, value \in Levels : CreateReading(t, at, value)
    \/ \E i \in ReadingIds : DeleteReading(i)
    \/ \E i \in ReadingIds, at \in Times, value \in Levels : UpdateReading(i, at, value)

DeliveryStep ==
    \/ \E at \in Times, liters \in Litres, total \in Totals \union {None}, per \in PerLitre \union {None} :
          CreateDelivery(at, liters, total, per)
    \/ \E d \in DeliveryIds : DeleteDelivery(d)
    \/ \E w \in Workers, d \in DeliveryIds, body \in Body : UpdateDelivery(w, d, body)

WorkerStep(w) ==
    \/ UpdateFlush(w)
    \/ \E pair \in Asked : Dismiss(w, pair)
    \/ DismissConfirm(w)
    \/ DismissLook(w)
    \/ DismissMatch(w)
    \/ DismissInsert(w)

Next ==
    \/ ReadingStep
    \/ DeliveryStep
    \/ \E t \in Tanks : ReplaceTank(t)
    \/ Tick
    \/ \E w \in Workers : WorkerStep(w)

Spec == Init /\ [][Next]_vars

----------------------------------------------------------------------------
(* Properties.                                                             *)

UpdateJob == [delivery : DeliveryIds, old : Delivery, new : Delivery]
LookJob   == [pair : Pair]
MatchJob  == [pair : Pair, tanks : SUBSET Tanks, readings : [ReadingIds -> Reading \union {None}],
              since : Int]
InsertJob == [pair : Pair, tank : Tanks]

(* Every variable has its type, and a request holds what its place in the  *)
(* handler says; rows that are not inserted yet do not exist.              *)
TypeOK ==
    /\ active \subseteq Tanks /\ now \in Times
    /\ reading \in [ReadingIds -> Reading \union {None}]
    /\ deliveries \in [DeliveryIds -> Delivery \union {None}]
    /\ dismissals \subseteq Dismissal
    /\ nextReading \in 1..(MaxReadings + 1) /\ nextDelivery \in 1..(MaxDeliveries + 1)
    /\ \A i \in ReadingIds : i >= nextReading => reading[i] = None
    /\ pc \in [Workers -> {"idle", "update", "confirm", "look", "match", "insert"}]
    /\ DOMAIN job = Workers
    /\ \A w \in Workers :
          /\ pc[w] = "idle"   => job[w] = None
          /\ pc[w] = "update" => job[w] \in UpdateJob
          /\ pc[w] \in {"confirm", "look"} => job[w] \in LookJob
          /\ pc[w] = "match"  => job[w] \in MatchJob
          /\ pc[w] = "insert" => job[w] \in InsertJob
    /\ requests \in 0..MaxRequests
    /\ answered \subseteq Pair /\ torn \subseteq DeliveryIds

(* Each delivery counts exactly once, in one interval of one tank, if any  *)
(* tank was observed around it, and not at all otherwise; and tile and     *)
(* forecast of a tank derive their rate from the same deliveries, unless   *)
(* one came between two readings of another tank, of which the forecast    *)
(* knows nothing (assign_deliveries, compute_oil_consumption,              *)
(* cost_forecast).                                                         *)
DeliveriesCountOnce ==
    LET v == Dashboard
        places == UNION {{t} \X Intervals(v, t) : t \in active}
        Observed(d) == {p \in places : Covers(v, p[2], deliveries[d].at)}
        Given == {d \in DeliveryIds : deliveries[d] # None}
    IN  /\ \A d \in Given :
              Cardinality({p \in Observed(d) : d \in DeliveredIn(v, p[1], p[2])})
                = IF Observed(d) = {} THEN 0 ELSE 1
        /\ \A t \in active :
              (\A d \in Given : \A p \in Observed(d) : p[1] = t)
              => \A s \in Intervals(v, t) : DeliveredIn(Forecast(t), t, s) = DeliveredIn(v, t, s)

(* Noise cancels out: as long as no jump is unexplained and no two readings *)
(* of a tank share their time, what a tank used is its first level less its *)
(* last plus the deliveries - or more, where a delivery smaller than the    *)
(* rise was clamped (compute_oil_consumption).                             *)
BalanceTelescopes ==
    LET v == Dashboard
    IN  \A t \in active :
           LET points    == Counting(v, t)
               delivered == UNION {DeliveredIn(v, t, s) : s \in Intervals(v, t)}
               balance(i, j) == MapThenSumSet(LAMBDA d : deliveries[d].liters, delivered)
                                - Rise(v, <<i, j>>)
           IN  /\ Known(v, t) = Intervals(v, t)
               /\ \A i, j \in points : i # j => reading[i].at # reading[j].at
               => \A first, last \in points :
                     (\A k \in points : reading[first].at <= reading[k].at
                                        /\ reading[k].at <= reading[last].at)
                     => IF delivered = {} THEN Net(v, t) = balance(first, last)
                                          ELSE Net(v, t) >= balance(first, last)

(* A notice asks for a delivery nobody recorded: every delivery recorded   *)
(* for its time went to another tank, which rose at least as much          *)
(* (open_probable_deliveries).                                             *)
NoticesAreUnexplained ==
    LET v == Dashboard
    IN  \A t \in active : \A s \in Probable(v, t) : \A d \in DeliveryIds :
           deliveries[d] # None /\ Covers(v, s, deliveries[d].at) =>
              \E u \in active \ {t} : \E r \in Intervals(v, u) :
                 Covers(v, r, deliveries[d].at) /\ Rise(v, r) >= Rise(v, s)

(* Once a dismissal was answered with 204 the pair is never offered again, *)
(* whichever requests raced with it and whichever constraint refused its   *)
(* row (dismiss_probable).                                                 *)
DismissedStaysClosed ==
    \A t \in active : Probable(Dashboard, t) \intersect answered = {}

(* The two prices of a delivery agree with its litres, unless overlapping  *)
(* updates wrote it (update_delivery, derive_prices).                      *)
SerialPricesAgree ==
    \A d \in DeliveryIds \ torn :
       LET row == deliveries[d]
       IN  row # None /\ row.total # None /\ row.per # None => Agree(row.liters, row.total, row.per)
=============================================================================
