----------------------------- MODULE OilMarket -----------------------------
(***************************************************************************)
(* The price of heating oil: fetched at start-up and at 06:00              *)
(* (services/oil_price.py, _run_oil_price in main.py) and compared with    *)
(* two averages (services/buy_signal.py).                                  *)
(*                                                                         *)
(* A task waits for the source, then talks to the database without         *)
(* yielding; tasks of two processes (an update brings the new pod up       *)
(* before the old one goes) interleave between those statements.  The      *)
(* configured source does not change.                                      *)
(***************************************************************************)
EXTENDS Integers, FiniteSets, FiniteSetsExt

CONSTANTS
    Tasks,                  \* fetches in flight, of different processes
    Offers,                 \* what the source answers; nan and the like are 0
    MinPrice, MaxPrice,     \* MIN_PRICE, MAX_PRICE
    MinRecords,             \* _MIN_RECORDS
    RecentDays, SeasonalAge,        \* 90, and 179: seasonal prices are older
    SeasonalDays, Year,     \* _SEASONAL_WINDOW_DAYS, and 365
    Recorded,               \* prices there may be at first: sets of rows
    FirstDay, LastDay,      \* the day it is then; bound: the calendar
    NoTask                  \* the job of a task that fetches nothing

VARIABLES
    today,
    prices,     \* oil_market_prices of the source: [day, price]
    pc, job,
    offered     \* history: the plausible answers a task began to store, [day, price]

vars == <<today, prices, pc, job, offered>>

Plausible == MinPrice..MaxPrice

Row == [day : Int, price : Plausible]

TypeOK ==
    /\ today \in FirstDay..LastDay
    /\ prices \subseteq Row
    /\ pc \in [Tasks -> {"idle", "fetching", "lookup", "store"}]
    /\ \A w \in Tasks : job[w] \in {NoTask} \union [day : Int, price : Plausible, found : BOOLEAN]

----------------------------------------------------------------------------
(* compute_oil_buy_signal.  Averages are compared without dividing; a      *)
(* percentage is rounded to two digits before it is held against the       *)
(* threshold of 5.                                                         *)
Days(rows) == {r.day : r \in rows}

(* Mutant: the records come latest first. *)
EarliestDay(rows) == Min(Days(rows))

LastRecorded(rows) == Max(Days(rows))

Current(rows) == CHOOSE r \in rows : r.day = LastRecorded(rows)

Total(rows) == MapThenSumSet(LAMBDA r : r.price, rows)

Recent(rows) == {r \in rows : r.day >= LastRecorded(rows) - RecentDays}

DayOfYearDistance(a, b) ==
    LET diff == Max({(a % Year) - (b % Year), (b % Year) - (a % Year)})
    IN  Min({diff, Year - diff})

Seasonal(rows) == {r \in rows : /\ r.day < LastRecorded(rows) - SeasonalAge
                                /\ DayOfYearDistance(LastRecorded(rows), r.day) <= SeasonalDays}

Benchmarks(rows) == {Recent(rows), Seasonal(rows)} \ {{}}

Deviation(rows, benchmark) == Current(rows).price * Cardinality(benchmark) - Total(benchmark)

Below(rows, benchmark) == 20000 * Deviation(rows, benchmark) <= -999 * Total(benchmark)
Above(rows, benchmark) == 20000 * Deviation(rows, benchmark) >= 999 * Total(benchmark)

Signal(rows) ==
    LET few   == Cardinality(Days(rows)) < MinRecords
        cheap == \A b \in Benchmarks(rows) : Below(rows, b)
        dear  == \A b \in Benchmarks(rows) : Above(rows, b)
    IN  CASE few                       -> "insufficient_data"
          [] ~few /\ cheap             -> "buy"
          [] ~few /\ ~cheap /\ dear    -> "avoid"
          [] ~few /\ ~cheap /\ ~dear   -> "wait"

----------------------------------------------------------------------------
(* fetch_and_store_oil_price *)
Go(w, from, to) == pc[w] = from /\ pc' = [pc EXCEPT ![w] = to]

Begin(w) ==
    /\ Go(w, "idle", "fetching")
    /\ UNCHANGED <<today, prices, job, offered>>

(* Implausible answers are ignored. *)
Answer(w, price) ==
    /\ Go(w, "fetching", IF price \in Plausible THEN "lookup" ELSE "idle")
    /\ job' = IF price \in Plausible
              THEN [job EXCEPT ![w] = [day |-> today, price |-> price, found |-> FALSE]]
              ELSE job
    /\ UNCHANGED <<today, prices, offered>>

(* date.today() is asked now: the answer may have come before midnight. *)
Lookup(w) ==
    /\ Go(w, "lookup", "store")
    /\ job' = [job EXCEPT ![w].day = today, ![w].found = today \in Days(prices)]
    /\ offered' = offered \union {[day |-> today, price |-> job[w].price]}
    /\ UNCHANGED <<today, prices>>

(* Mutant: there is no unique constraint. *)
AnyDay(day) == TRUE

(* uq_oil_price_date_source *)
UniqueDay(day) == day \notin Days(prices)

Put(w, rows) == prices' = rows \union {[day |-> job[w].day, price |-> job[w].price]}

(* The row that was found is updated; otherwise a row is inserted, unless  *)
(* another process was first: rolled back, and the other's price stays.    *)
Store(w) ==
    /\ Go(w, "store", "idle")
    /\ \/ job[w].found /\ Put(w, {r \in prices : r.day # job[w].day})
       \/ ~job[w].found /\ UniqueDay(job[w].day) /\ Put(w, prices)
       \/ ~job[w].found /\ ~UniqueDay(job[w].day) /\ UNCHANGED prices
    /\ job' = [job EXCEPT ![w] = NoTask]
    /\ UNCHANGED <<today, offered>>

(* The source or the database fails, the process stops or dies: nothing is *)
(* raised and nothing written.                                             *)
GiveUp(w) ==
    /\ pc[w] # "idle"
    /\ pc' = [pc EXCEPT ![w] = "idle"]
    /\ job' = [job EXCEPT ![w] = NoTask]
    /\ UNCHANGED <<today, prices, offered>>

Midnight ==
    /\ today < LastDay
    /\ today' = today + 1
    /\ UNCHANGED <<prices, pc, job, offered>>

Init ==
    /\ today = FirstDay
    /\ prices \in Recorded
    /\ pc = [w \in Tasks |-> "idle"]
    /\ job = [w \in Tasks |-> NoTask]
    /\ offered = prices

Next ==
    \/ \E w \in Tasks :
          \/ Begin(w) \/ Lookup(w) \/ Store(w) \/ GiveUp(w)
          \/ \E price \in Offers : Answer(w, price)
    \/ Midnight

Spec == Init /\ [][Next]_vars

----------------------------------------------------------------------------
(* Whatever processes overlap, a day has one price, the source named it on *)
(* that day, and a price once recorded for a day is only ever replaced:    *)
(* the day a signal is computed for does not disappear.                    *)
OnePricePerDay ==
    [][/\ \A r, s \in prices' : r.day = s.day => r = s
       /\ prices' \subseteq offered'
       /\ Days(prices) \subseteq Days(prices')]_vars

Rank(signal) == CASE signal = "buy" -> 2 [] signal = "avoid" -> 0 [] OTHER -> 1

(* Oil that gets cheaper while nothing else changes is never a worse buy:  *)
(* the price of the day also counts in the average it is compared with,    *)
(* and still the signal does not turn from "buy" to "wait" or "avoid", nor *)
(* from "wait" to "avoid".                                                 *)
CheaperNeverWorse ==
    [][(/\ Days(prices') = Days(prices)
        /\ \E old \in prices, new \in prices' :
              /\ prices \ {old} = prices' \ {new}
              /\ old.day = Max(Days(prices)) /\ new.price < old.price)
       => Rank(Signal(prices)) <= Rank(Signal(prices'))]_vars
=============================================================================
