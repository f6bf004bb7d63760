----------------------------- MODULE Statistics ----------------------------
(***************************************************************************)
(* The month and year views of water and electricity meters                *)
(* (services/consumption_stats.py and stats_loader.py, /monthly and        *)
(* /yearly in routers/dashboard.py): two answers computed from the same    *)
(* readings by different ways, each over a window of its own.              *)
(*                                                                         *)
(* Instants are whole units of time, and MonthStart is the local calendar. *)
(* A consumption is Scale times the rise of the counter, so that shares of *)
(* it are whole numbers: the views round to six digits, the model not.     *)
(***************************************************************************)
EXTENDS Integers, Sequences, FiniteSets, FiniteSetsExt

CONSTANTS
    Meters,             \* active meters of one type
    MonthStart,         \* month -> its first instant: consecutive months
    MonthsPerYear, LongestMonth,    \* 12 and 31
    Tolerance,          \* _COMPLETE_TOLERANCE_SECONDS: 1
    Months,             \* how many months are asked for
    EstimatedFrom,      \* ESTIMATED_INTERVAL_DAYS
    Scale,
    Times, Values,      \* what new readings name
    Prices,             \* price entries requests name: [from, price]
    Stored,             \* readings there may be at first: sequences of rows
    FirstNow, LastNow,  \* the clock, and its bound
    MaxReadings, MaxChanges,        \* bounds: rows ever inserted, requests
    None

ReadingIds == 1..MaxReadings

VARIABLES
    now,
    readings,       \* id -> [meter, at, value], None before its insert and after its deletion
    nextId,
    prices,         \* price_entries: [meter, from, price]
    changes

vars == <<now, readings, nextId, prices, changes>>

----------------------------------------------------------------------------
(* load_intervals: consecutive readings, by time and then by id, since the *)
(* beginning of a window.  Only a rise is known.                           *)
Rows == {i \in ReadingIds : readings[i] # None}

Counting(m, since) == {i \in Rows : readings[i].meter = m /\ readings[i].at >= since}

Sooner(i, j) == \/ readings[i].at < readings[j].at
                \/ readings[i].at = readings[j].at /\ i < j

Interval(i, j) == [from |-> readings[i].at, to |-> readings[j].at,
                   consumption |-> Scale * (readings[j].value - readings[i].value)]

Known(m, since) ==
    LET points == Counting(m, since)
        Consecutive(i, j) == /\ readings[i].at < readings[j].at
                             /\ ~\E k \in points : Sooner(i, k) /\ Sooner(k, j)
    IN  {Interval(p[1], p[2]) : p \in
            {q \in points \X points : /\ Consecutive(q[1], q[2])
                                      /\ readings[q[2]].value > readings[q[1]].value}}

MonthWindow == now - ((Months + MonthsPerYear) * LongestMonth + 1)

MonthOf(t) == CHOOSE k \in DOMAIN MonthStart :
                 /\ MonthStart[k] <= t
                 /\ k + 1 \in DOMAIN MonthStart => t < MonthStart[k + 1]

(* The first month of the year a month is in. *)
January(k) == k - ((k - 1) % MonthsPerYear)

ThisYear  == January(MonthOf(now))
YearStart == MonthStart[ThisYear]

YearWindow == now - (now - MonthStart[ThisYear - MonthsPerYear] + 2)

----------------------------------------------------------------------------
(* The month view. *)
Overlap(iv, from, to) == Min({iv.to, to}) - Max({iv.from, from})

Share(iv, from, to) == (iv.consumption * Overlap(iv, from, to)) \div (iv.to - iv.from)

(* Mutant: an interval is given to months that begin within it. *)
SpansFromNext(iv, k) == iv.from <= MonthStart[k] /\ MonthStart[k] < iv.to

(* The months an interval is distributed over: from the one it begins in,  *)
(* as long as they begin before its end.                                   *)
Spans(iv, k) == iv.from < MonthStart[k + 1] /\ MonthStart[k] < iv.to

(* month_totals of one month. *)
MonthTotal(ivs, k) ==
    LET hits == {iv \in ivs : Spans(iv, k) /\ Overlap(iv, MonthStart[k], MonthStart[k + 1]) > 0}
        Part(iv) == Share(iv, MonthStart[k], MonthStart[k + 1])
    IN  [value   |-> MapThenSumSet(Part, hits),
         covered |-> MapThenSumSet(LAMBDA iv : Overlap(iv, MonthStart[k], MonthStart[k + 1]), hits),
         long    |-> MapThenSumSet(Part, {iv \in hits : iv.to - iv.from > EstimatedFrom})]

(* Mutant: the month that runs is complete as soon as it is covered so far. *)
MonthStateSoFar(k, total) ==
    CASE total.covered <= 0 -> "no_data"
      [] total.covered > 0 /\ total.covered >= Min({MonthStart[k + 1], now}) - MonthStart[k] - Tolerance -> "complete"
      [] OTHER -> "partial"

MonthState(k, total) ==
    CASE total.covered <= 0 -> "no_data"
      [] total.covered > 0 /\ total.covered >= MonthStart[k + 1] - MonthStart[k] - Tolerance -> "complete"
      [] OTHER -> "partial"

Valid(m, t) == {p \in prices : p.meter = m /\ p.from < t}

(* price_at the last second before an instant. *)
PriceBefore(m, t) == CHOOSE p \in Valid(m, t) : \A q \in Valid(m, t) : q.from <= p.from

(* unit_price_costs of one month. *)
Cost(m, k, total) ==
    IF MonthState(k, total) = "no_data" \/ Valid(m, MonthStart[k + 1]) = {} THEN None
    ELSE total.value * PriceBefore(m, MonthStart[k + 1]).price

MonthValue(ivs, k) ==
    LET total == MonthTotal(ivs, k)
    IN  [state |-> MonthState(k, total),
         value |-> IF MonthState(k, total) = "no_data" THEN None ELSE total.value]

(* More than half of it from long intervals. *)
Estimated(ivs, k) ==
    LET total == MonthTotal(ivs, k)
    IN  MonthState(k, total) # "no_data" /\ 2 * total.long > total.value

(* monthly_series of one meter, and one row of it; the percentage is shown *)
(* when both months are complete.                                          *)
Shown == (MonthOf(now) - Months + 1)..MonthOf(now)

MonthRow(ivs, m, k) ==
    LET previous == MonthValue(ivs, k - MonthsPerYear)
        row == MonthValue(ivs, k)
    IN  [value |-> row.value, state |-> row.state,
         estimated |-> Estimated(ivs, k),
         previous |-> previous,
         compared |-> row.state = "complete" /\ previous.state = "complete",
         cost |-> Cost(m, k, MonthTotal(ivs, k))]

Series(m) ==
    LET ivs == Known(m, MonthWindow)
    IN  [k \in Shown |-> MonthRow(ivs, m, k)]

(* Values by key, added up where there are any. *)
Total(values) ==
    LET some == {v \in values : v.value # None}
    IN  IF some = {} THEN None ELSE MapThenSumSet(LAMBDA v : v.value, some)

(* merge_month_series for a month and the series of a scope. *)
MergedMonth(series, k) ==
    LET scope == DOMAIN series
        with == {m \in scope : series[m][k].state # "no_data"}
    IN  [value |-> Total({[meter |-> m, value |-> series[m][k].value] : m \in scope}),
         state |-> CASE with = {} -> "no_data"
                     [] with # {} /\ \A m \in with : series[m][k].state = "complete" -> "complete"
                     [] OTHER -> "partial",
         cost |-> IF \E m \in with : series[m][k].cost = None THEN None
                  ELSE Total({[meter |-> m, value |-> series[m][k].cost] : m \in scope})]

----------------------------------------------------------------------------
(* The year view. *)
InWindow(ivs, from, to) ==
    LET hits == {iv \in ivs : Overlap(iv, from, to) > 0}
    IN  IF hits = {} THEN None ELSE MapThenSumSet(LAMBDA iv : Share(iv, from, to), hits)

(* The same local moment of the year before; 29 February becomes the 28th. *)
YearEarlier(t) ==
    LET k == MonthOf(t)
        before == k - MonthsPerYear
    IN  MonthStart[before] + Min({t - MonthStart[k], MonthStart[before + 1] - MonthStart[before] - 1})

NoYear == [current |-> None, previous |-> None]

(* year_summary *)
YearSummary(m) ==
    LET ivs == Known(m, YearWindow)
        cut == Min({now, Max({iv.to : iv \in ivs})})
    IN  CASE ivs = {}                            -> NoYear
          [] ivs # {} /\ cut <= YearStart        -> NoYear
          [] ivs # {} /\ cut > YearStart ->
               [current  |-> InWindow(ivs, YearStart, cut),
                previous |-> InWindow(ivs, MonthStart[ThisYear - MonthsPerYear], YearEarlier(cut))]

MonthsOfYear == {k \in ThisYear..(ThisYear + MonthsPerYear - 1) : k + 1 \in DOMAIN MonthStart}

(* unit_price_costs of a meter for the months of the year with data. *)
YearCosts(m) ==
    LET ivs == Known(m, YearWindow)
    IN  {[meter |-> m, month |-> k, value |-> Cost(m, k, MonthTotal(ivs, k))] :
           k \in {j \in MonthsOfYear : MonthTotal(ivs, j).covered > 0}}

(* /yearly for a scope, from the summary and the costs of every meter. *)
Year(scope, summary, costs) ==
    LET all == UNION {costs[m] : m \in scope}
    IN  [current  |-> Total({[meter |-> m, value |-> summary[m].current] : m \in scope}),
         previous |-> Total({[meter |-> m, value |-> summary[m].previous] : m \in scope}),
         cost     |-> Total(all),
         complete |-> /\ Total(all) # None
                      /\ \A c \in all : c.value # None
                      /\ \A m \in scope : \E p \in prices : p.meter = m]

----------------------------------------------------------------------------
Change == changes < MaxChanges /\ changes' = changes + 1

CreateReading(m, at, value) ==
    /\ Change /\ nextId \in ReadingIds
    /\ readings' = [readings EXCEPT ![nextId] = [meter |-> m, at |-> at, value |-> value]]
    /\ nextId' = nextId + 1
    /\ UNCHANGED <<now, prices>>

DeleteReading(i) ==
    /\ Change
    /\ readings' = [readings EXCEPT ![i] = None]
    /\ UNCHANGED <<now, nextId, prices>>

(* Two prices of one meter from the same instant are left out. *)
CreatePrice(m, entry) ==
    /\ Change
    /\ \A p \in prices : p.meter = m => p.from # entry.from
    /\ prices' = prices \union {[meter |-> m, from |-> entry.from, price |-> entry.price]}
    /\ UNCHANGED <<now, readings, nextId>>

Tick ==
    /\ now < LastNow
    /\ now' = now + 1
    /\ UNCHANGED <<readings, nextId, prices, changes>>

Init ==
    /\ now = FirstNow
    /\ \E rows \in Stored :
          /\ readings = [i \in ReadingIds |-> IF i \in DOMAIN rows THEN rows[i] ELSE None]
          /\ nextId = Len(rows) + 1
    /\ prices = {} /\ changes = 0

Next ==
    \/ \E m \in Meters :
          \/ \E at \in Times, value \in Values : CreateReading(m, at, value)
          \/ \E entry \in Prices : CreatePrice(m, entry)
    \/ \E i \in Rows : DeleteReading(i)
    \/ Tick

Spec == Init /\ [][Next]_vars

----------------------------------------------------------------------------
Scopes == SUBSET Meters \ {{}}

(* All known intervals of this year begin within the window the year view  *)
(* loads; the month view loads a longer one.                               *)
YearLoaded(m) == \A iv \in Known(m, 0) : iv.to > YearStart => iv.from >= YearWindow

(* No consumption is of the future: the month view distributes it over the *)
(* months to come, the year view ends now.                                 *)
NoneAhead(m) == \A iv \in Known(m, 0) : iv.to <= now

SharesAddUp(iv) ==
    MapThenSumSet(LAMBDA k : MonthTotal({iv}, k).value, 1..(Len(MonthStart) - 1)) = iv.consumption

YearTellsItsMonths(scope, series, summary, costs) ==
    LET year   == Year(scope, summary, costs)
        merged == [k \in Shown |-> MergedMonth([m \in scope |-> series[m]], k)]
        months == {k \in Shown : k >= ThisYear}
    IN  /\ year.current = Total({[month |-> k, value |-> merged[k].value] : k \in months})
        /\ year.complete =>
              year.cost = Total({[month |-> k, value |-> merged[k].cost] : k \in months})

(* "cannot disagree": the shares of an interval add up to it, whatever     *)
(* months it spans, and the year to date is the sum of its months in the   *)
(* month view, for a meter and for meters together, a year without a value *)
(* being one without months; so is its cost where it is called complete.   *)
(* Not so when an interval began before the window of the year view, nor   *)
(* with readings of the future, which requests may enter.                  *)
ViewsAgree ==
    /\ \A m \in Meters : \A iv \in Known(m, 0) : SharesAddUp(iv)
    /\ ThisYear \in Shown =>
          LET series  == [m \in Meters |-> Series(m)]
              summary == [m \in Meters |-> YearSummary(m)]
              costs   == [m \in Meters |-> YearCosts(m)]
          IN  \A scope \in Scopes :
                 (\A m \in scope : YearLoaded(m) /\ NoneAhead(m)) =>
                    YearTellsItsMonths(scope, series, summary, costs)

Appended(m) ==
    \A i \in ReadingIds : readings'[i] # readings[i] =>
       \/ readings[i] # None /\ readings[i].meter # m
       \/ readings[i] = None /\ readings'[i].meter # m
       \/ readings[i] = None /\ \A j \in Rows : readings[j].meter = m => readings[j].at <= readings'[i].at

InMonth(iv, k) == Overlap(iv, MonthStart[k], MonthStart[k + 1])

(* A month by the intervals the month view loads: complete, and measured   *)
(* by those that are still loaded after the step.                          *)
SettledMonth(ivs, k) ==
    /\ MonthValue(ivs, k).state = "complete"
    /\ \A iv \in ivs : InMonth(iv, k) > 0 => iv.from >= MonthWindow'

(* What a new interval adds to a month whose last instants were tolerated. *)
Added(ivs, later, k) ==
    {Share(iv, MonthStart[k], MonthStart[k + 1]) :
        iv \in {new \in later \ ivs : InMonth(new, k) \in 1..Tolerance}}

MonthStays(ivs, later, k) ==
    LET old == MonthValue(ivs, k)
        new == MonthValue(later, k)'
    IN  /\ new.state = "complete"
        /\ \/ new.value = old.value /\ Estimated(later, k)' = Estimated(ivs, k)
           \/ \E share \in Added(ivs, later, k) : new.value = old.value + share

(* A month once shown as complete is over and done with: neither time nor  *)
(* newer readings change what it shows, as long as what it is measured by  *)
(* is still loaded; but for the share of one later interval in the         *)
(* instants a complete month may lack, a second at most.                   *)
CompleteMonthsStay ==
    [][\A m \in Meters : (now # now' \/ readings # readings') /\ Appended(m) =>
          \A ivs \in {Known(m, MonthWindow)}, later \in {Known(m, MonthWindow)'} :
             \A k \in Shown \intersect Shown' :
                SettledMonth(ivs, k) => MonthStays(ivs, later, k)]_vars

(* dashboard_summary: the reading with the largest id. *)
Latest(m) == readings[Max({i \in Rows : readings[i].meter = m})]

(* The reading the dashboard shows as the latest of a meter is the one     *)
(* that was read last.                                                     *)
LatestReadingShown ==
    \A i \in Rows : readings[i].at <= Latest(readings[i].meter).at
=============================================================================
