-------------------------- MODULE OilTankProofs ---------------------------
(***************************************************************************)
(* Proofs about OilTank: types, that the intervals of a tank part the time *)
(* between its readings, that a notice is one nobody explained, and that a *)
(* dismissed pair stays closed.                                            *)
(***************************************************************************)
EXTENDS OilTank, FiniteLemmas, TLAPS

----------------------------------------------------------------------------
(* Prices.                                                                 *)

LEMMA RoundHalfUpNat ==
    ASSUME NEW a \in Nat, NEW b \in Nat \ {0}
    PROVE  RoundHalfUp(a, b) \in Nat
<1> DEFINE n == 2 * a + b  m == 2 * b
<1>1. n \in Nat /\ m \in Nat \ {0}
  OBVIOUS
<1>2. n \div m \in Nat
  <2> HIDE DEF n, m
  <2> QED BY <1>1
<1> QED BY <1>2 DEF RoundHalfUp

LEMMA ProductNat ==
    ASSUME NEW a \in Nat, NEW b \in Nat
    PROVE  a * b \in Nat
OBVIOUS

LEMMA DerivedPricesTyped ==
    ASSUME NEW liters \in Litres,
           NEW total \in 0..MaxTotal \union {None}, NEW per \in 0..MaxPerLiter \union {None},
           DerivePrices(liters, total, per).ok
    PROVE  /\ DerivePrices(liters, total, per).total \in 0..MaxTotal \union {None}
           /\ DerivePrices(liters, total, per).per \in 0..MaxPerLiter \union {None}
<1> DEFINE t == IF total = None /\ per # None THEN RoundHalfUp(liters * per, 100) ELSE total
           p == IF total # None /\ per = None THEN RoundHalfUp(100 * total, liters) ELSE per
<1>0. liters \in Nat \ {0} /\ MaxTotal \in Nat /\ MaxPerLiter \in Nat
  BY OilAssumption DEF OilAssumption
<1>1. t \in Nat \union {None}
  <2>1. CASE total = None /\ per # None
    <3>1. per \in Nat  BY <2>1, <1>0
    <3>2. liters * per \in Nat  BY <3>1, <1>0, ProductNat
    <3> HIDE DEF t
    <3>3. RoundHalfUp(liters * per, 100) \in Nat  BY <3>2, RoundHalfUpNat
    <3> QED BY <3>3, <2>1 DEF t
  <2>2. CASE ~(total = None /\ per # None)  BY <2>2, <1>0
  <2> QED BY <2>1, <2>2
<1>2. p \in Nat \union {None}
  <2>1. CASE total # None /\ per = None
    <3>1. 100 * total \in Nat  BY <2>1, <1>0
    <3> HIDE DEF p
    <3>2. RoundHalfUp(100 * total, liters) \in Nat  BY <3>1, <1>0, RoundHalfUpNat
    <3> QED BY <3>2, <2>1 DEF p
  <2>2. CASE ~(total # None /\ per = None)  BY <2>2, <1>0
  <2> QED BY <2>1, <2>2
<1>3. /\ DerivePrices(liters, total, per).total = t
      /\ DerivePrices(liters, total, per).per = p
      /\ t # None => t <= MaxTotal
      /\ p # None => p <= MaxPerLiter
  BY DEF DerivePrices
<1> HIDE DEF t, p
<1> QED BY <1>0, <1>1, <1>2, <1>3

LEMMA PatchedPricesTyped ==
    ASSUME NEW row \in Delivery, NEW body \in Body, NEW liters \in Litres,
           PatchedPrices(row, body, liters).ok
    PROVE  /\ PatchedPrices(row, body, liters).total \in 0..MaxTotal \union {None}
           /\ PatchedPrices(row, body, liters).per \in 0..MaxPerLiter \union {None}
<1> DEFINE r == PatchedPrices(row, body, liters)
<1>0. /\ row.total \in 0..MaxTotal \union {None} /\ row.per \in 0..MaxPerLiter \union {None}
      /\ body.total # Unset => body.total \in 0..MaxTotal \union {None}
      /\ body.per # Unset => body.per \in 0..MaxPerLiter \union {None}
      /\ None \in 0..MaxTotal \union {None} /\ None \in 0..MaxPerLiter \union {None}
  BY OilAssumption DEF OilAssumption, Delivery, Body
<1>1. CASE body.total # Unset /\ body.per # Unset
  <2>1. r.total = body.total /\ r.per = body.per
    BY <1>1 DEF PatchedPrices, DerivePrices
  <2> QED BY <1>0, <1>1, <2>1
<1>2. CASE body.total # Unset /\ body.per = Unset
  <2>1. PatchedPrices(row, body, liters) = DerivePrices(liters, body.total, None)  BY <1>2 DEF PatchedPrices
  <2>2. DerivePrices(liters, body.total, None).ok  BY <2>1
  <2> HIDE DEF r
  <2>3. /\ DerivePrices(liters, body.total, None).total \in 0..MaxTotal \union {None}
        /\ DerivePrices(liters, body.total, None).per \in 0..MaxPerLiter \union {None}
    BY <2>2, <1>0, <1>2, DerivedPricesTyped
  <2> QED BY <2>1, <2>3
<1>3. CASE body.total = Unset /\ body.per # Unset
  <2>1. PatchedPrices(row, body, liters) = DerivePrices(liters, None, body.per)  BY <1>3 DEF PatchedPrices
  <2>2. DerivePrices(liters, None, body.per).ok  BY <2>1
  <2> HIDE DEF r
  <2>3. /\ DerivePrices(liters, None, body.per).total \in 0..MaxTotal \union {None}
        /\ DerivePrices(liters, None, body.per).per \in 0..MaxPerLiter \union {None}
    BY <2>2, <1>0, <1>3, DerivedPricesTyped
  <2> QED BY <2>1, <2>3
<1>4. CASE body.total = Unset /\ body.per = Unset
  <2>1. r = IF body.liters # Unset /\ row.total # None
            THEN DerivePrices(liters, row.total, None)
            ELSE [total |-> row.total, per |-> row.per, ok |-> TRUE]
    BY <1>4 DEF PatchedPrices
  <2>2. CASE body.liters # Unset /\ row.total # None
    <3>1. PatchedPrices(row, body, liters) = DerivePrices(liters, row.total, None)  BY <2>1, <2>2
    <3>2. DerivePrices(liters, row.total, None).ok  BY <3>1
    <3> HIDE DEF r
    <3>3. /\ DerivePrices(liters, row.total, None).total \in 0..MaxTotal \union {None}
          /\ DerivePrices(liters, row.total, None).per \in 0..MaxPerLiter \union {None}
      BY <3>2, <1>0, DerivedPricesTyped
    <3> QED BY <3>1, <3>3
  <2>3. CASE ~(body.liters # Unset /\ row.total # None)  BY <2>1, <2>3, <1>0
  <2> QED BY <2>2, <2>3
<1> QED BY <1>1, <1>2, <1>3, <1>4

----------------------------------------------------------------------------
(* Types.                                                                  *)

LEMMA TypeInit == Init => TypeOK
<1> SUFFICES ASSUME Init PROVE TypeOK
  OBVIOUS
<1>1. PICK rs \in Stored :
         /\ reading = [i \in ReadingIds |-> IF i <= Len(rs) THEN rs[i] ELSE None]
         /\ nextReading = Len(rs) + 1
  BY DEF Init
<1>2. rs \in Seq(Reading) /\ Len(rs) \in Nat /\ Len(rs) <= MaxReadings /\ MaxReadings \in Nat
  BY OilAssumption DEF OilAssumption
<1>3. ASSUME NEW i \in ReadingIds, i <= Len(rs) PROVE rs[i] \in Reading
  BY <1>2, <1>3 DEF ReadingIds
<1>4. reading \in [ReadingIds -> Reading \union {None}]
  BY <1>1, <1>3
<1>5. /\ nextReading \in 1..(MaxReadings + 1)
      /\ \A i \in ReadingIds : i >= nextReading => reading[i] = None
  BY <1>1, <1>2 DEF ReadingIds
<1> QED
  BY <1>4, <1>5, OilAssumption DEF Init, TypeOK, OilAssumption, DeliveryIds

(* What the requests' own steps leave: w's place and what it holds agree. *)
JobsTyped ==
    /\ pc \in [Workers -> {"idle", "update", "confirm", "look", "match", "insert"}]
    /\ DOMAIN job = Workers
    /\ \A w \in Workers :
          /\ pc[w] = "idle"   => job[w] = None
          /\ pc[w] = "update" => job[w] \in UpdateJob
          /\ pc[w] \in {"confirm", "look"} => job[w] \in LookJob
          /\ pc[w] = "match"  => job[w] \in MatchJob
          /\ pc[w] = "insert" => job[w] \in InsertJob

LEMMA RespondTypes ==
    ASSUME TypeOK, NEW w \in Workers, Respond(w)
    PROVE  JobsTyped'
BY DEF TypeOK, JobsTyped, Respond

LEMMA TypeStep == TypeOK /\ [Next]_vars => TypeOK'
<1> SUFFICES ASSUME TypeOK, [Next]_vars PROVE TypeOK'
  OBVIOUS
<1>0. MaxReadings \in Nat /\ MaxDeliveries \in Nat /\ MaxRequests \in Nat /\ Asked \subseteq Pair
  BY OilAssumption DEF OilAssumption
<1>1. Request => requests' \in 0..MaxRequests
  BY <1>0 DEF Request, TypeOK
<1>2. ASSUME NEW t \in Tanks, NEW at \in Times, NEW value \in Levels, CreateReading(t, at, value)
      PROVE  TypeOK'
  <2>1. [tank |-> t, at |-> at, value |-> value] \in Reading
    BY DEF Reading
  <2>2. reading' \in [ReadingIds -> Reading \union {None}]
    BY <1>2, <2>1 DEF CreateReading, TypeOK
  <2>3. /\ nextReading' \in 1..(MaxReadings + 1)
        /\ \A i \in ReadingIds : i >= nextReading' => reading'[i] = None
    BY <1>2, <1>0 DEF CreateReading, TypeOK, ReadingIds
  <2> QED
    BY <1>2, <2>2, <2>3 DEF CreateReading, TypeOK
<1>3. ASSUME NEW i \in ReadingIds, DeleteReading(i) PROVE TypeOK'
  <2>1. /\ reading' \in [ReadingIds -> Reading \union {None}]
        /\ \A k \in ReadingIds : k >= nextReading => reading'[k] = None
        /\ dismissals' \subseteq Dismissal
    BY <1>3 DEF DeleteReading, TypeOK
  <2> QED
    BY <1>3, <1>1, <2>1 DEF DeleteReading, TypeOK
<1>4. ASSUME NEW i \in ReadingIds, NEW at \in Times, NEW value \in Levels, UpdateReading(i, at, value)
      PROVE  TypeOK'
  <2>1. reading[i] \in Reading
    BY <1>4 DEF UpdateReading, TypeOK
  <2>2. reading' = [reading EXCEPT ![i] = [reading[i] EXCEPT !.at = at, !.value = value]]
    BY <1>4, <2>1 DEF UpdateReading, TypeOK, Reading
  <2>3. [reading[i] EXCEPT !.at = at, !.value = value] \in Reading
    BY <2>1 DEF Reading
  <2>4. /\ reading' \in [ReadingIds -> Reading \union {None}]
        /\ \A k \in ReadingIds : k >= nextReading => reading'[k] = None
    BY <1>4, <2>2, <2>3 DEF UpdateReading, TypeOK
  <2> QED
    BY <1>4, <1>1, <2>4 DEF UpdateReading, TypeOK
<1>5. ASSUME NEW at \in Times, NEW liters \in Litres, NEW total \in Totals \union {None},
             NEW per \in PerLitre \union {None}, CreateDelivery(at, liters, total, per)
      PROVE  TypeOK'
  <2> DEFINE price == DerivePrices(liters, total, per)
             row == [at |-> at, liters |-> liters, total |-> price.total, per |-> price.per]
  <2>1. price.ok
    BY <1>5 DEF CreateDelivery
  <2>2. total \in 0..MaxTotal \union {None} /\ per \in 0..MaxPerLiter \union {None}
    BY OilAssumption DEF OilAssumption
  <2>3. price.total \in 0..MaxTotal \union {None} /\ price.per \in 0..MaxPerLiter \union {None}
    BY <2>1, <2>2, DerivedPricesTyped
  <2>4. row \in Delivery
    BY <2>3 DEF Delivery
  <2>5. /\ nextDelivery <= MaxDeliveries /\ nextDelivery' = nextDelivery + 1
        /\ deliveries' = [deliveries EXCEPT ![nextDelivery] = row]
        /\ UNCHANGED <<active, now, reading, dismissals, nextReading, pc, job, requests, answered, torn>>
    BY <1>5 DEF CreateDelivery
  <2> HIDE DEF row
  <2>6. deliveries' \in [DeliveryIds -> Delivery \union {None}]
    BY <2>4, <2>5 DEF TypeOK
  <2>7. nextDelivery' \in 1..(MaxDeliveries + 1)
    BY <2>5, <1>0 DEF TypeOK
  <2> QED
    BY <2>5, <2>6, <2>7 DEF TypeOK
<1>6. ASSUME NEW d \in DeliveryIds, DeleteDelivery(d) PROVE TypeOK'
  BY <1>6, <1>1 DEF DeleteDelivery, TypeOK
<1>7. ASSUME NEW w \in Workers, NEW d \in DeliveryIds, NEW body \in Body, UpdateDelivery(w, d, body)
      PROVE  TypeOK'
  <2> DEFINE old == deliveries[d]
             liters == Sent(body.liters, old.liters)
             price == PatchedPrices(old, body, liters)
             new == [at |-> Sent(body.at, old.at), liters |-> liters,
                     total |-> price.total, per |-> price.per]
             j == [delivery |-> d, old |-> old, new |-> new]
  <2>1. old \in Delivery /\ price.ok
    BY <1>7 DEF UpdateDelivery, TypeOK
  <2>2. liters \in Litres /\ Sent(body.at, old.at) \in Times
    BY <2>1 DEF Sent, Body, Delivery
  <2>3. price.total \in 0..MaxTotal \union {None} /\ price.per \in 0..MaxPerLiter \union {None}
    BY <2>1, <2>2, PatchedPricesTyped
  <2> HIDE DEF price, liters
  <2>4. new \in Delivery
    BY <2>2, <2>3 DEF Delivery
  <2>5. /\ pc' = [pc EXCEPT ![w] = "update"]
        /\ job' = [job EXCEPT ![w] = j]
        /\ Request
        /\ UNCHANGED <<data, answered, torn>>
    BY <1>7 DEF UpdateDelivery, price, liters
  <2> HIDE DEF new
  <2>6. j \in UpdateJob
    BY <2>1, <2>4 DEF UpdateJob
  <2> HIDE DEF j
  <2>7. JobsTyped'
    BY <2>5, <2>6 DEF TypeOK, JobsTyped
  <2> QED
    BY <2>5, <2>7, <1>1 DEF TypeOK, JobsTyped, data
<1>8. ASSUME NEW w \in Workers, UpdateFlush(w) PROVE TypeOK'
  <2> DEFINE d == job[w].delivery  old == job[w].old  new == job[w].new
             row == [c \in DOMAIN new |-> IF new[c] # old[c] THEN new[c] ELSE deliveries[d][c]]
  <2>1. d \in DeliveryIds /\ old \in Delivery /\ new \in Delivery
    BY <1>8 DEF UpdateFlush, TypeOK, UpdateJob
  <2>2. JobsTyped'
    BY <1>8, RespondTypes DEF UpdateFlush
  <2>3. deliveries' \in [DeliveryIds -> Delivery \union {None}] /\ torn' \subseteq DeliveryIds
    <3>1. CASE deliveries[d] = None
      BY <1>8, <3>1 DEF UpdateFlush, TypeOK
    <3>2. CASE deliveries[d] # None
      <4>1. deliveries[d] \in Delivery
        BY <2>1, <3>2 DEF TypeOK
      <4>2. row \in Delivery
        BY <2>1, <4>1 DEF Delivery
      <4>3. /\ deliveries' = [deliveries EXCEPT ![d] = row]
            /\ torn' \subseteq torn \union {d}
        BY <1>8, <3>2 DEF UpdateFlush
      <4> HIDE DEF row
      <4> QED
        BY <4>2, <4>3, <2>1 DEF TypeOK
    <3> QED
      BY <3>1, <3>2
  <2> QED
    BY <1>8, <2>2, <2>3 DEF UpdateFlush, TypeOK, JobsTyped
<1>9. ASSUME NEW w \in Workers, NEW pair \in Asked, Dismiss(w, pair) PROVE TypeOK'
  <2>1. [pair |-> pair] \in LookJob
    BY <1>0 DEF LookJob
  <2>2. JobsTyped'
    BY <1>9, <2>1 DEF Dismiss, TypeOK, JobsTyped
  <2> QED
    BY <1>9, <1>1, <2>2 DEF Dismiss, TypeOK, JobsTyped, data
<1>10. ASSUME NEW w \in Workers, DismissConfirm(w) PROVE TypeOK'
  <2>1. JobsTyped' /\ job[w].pair \in Pair
    BY <1>10, RespondTypes DEF DismissConfirm, TypeOK, LookJob
  <2> QED
    BY <1>10, <2>1 DEF DismissConfirm, TypeOK, JobsTyped, data
<1>11. ASSUME NEW w \in Workers, DismissLook(w) PROVE TypeOK'
  <2> DEFINE j == [pair |-> job[w].pair, tanks |-> active, readings |-> reading, since |-> Since]
  <2>1. job[w] \in LookJob
    BY <1>11 DEF DismissLook, TypeOK
  <2>2. Since \in Int
    BY OilAssumption DEF OilAssumption, Since, TypeOK
  <2>3. j \in MatchJob
    BY <2>1, <2>2 DEF MatchJob, LookJob, TypeOK
  <2>4. job' = [job EXCEPT ![w] = j] /\ pc' = [pc EXCEPT ![w] = "match"]
    BY <1>11 DEF DismissLook
  <2> HIDE DEF j
  <2>5. JobsTyped'
    BY <2>3, <2>4 DEF TypeOK, JobsTyped
  <2> QED
    BY <1>11, <2>5 DEF DismissLook, TypeOK, JobsTyped, data
<1>12. ASSUME NEW w \in Workers, DismissMatch(w) PROVE TypeOK'
  <2>1. job[w] \in MatchJob
    BY <1>12 DEF DismissMatch, TypeOK
  <2>2. CASE Respond(w)
    BY <1>12, <2>2, RespondTypes DEF DismissMatch, TypeOK, JobsTyped, data
  <2>3. ASSUME NEW t \in job[w].tanks, pc' = [pc EXCEPT ![w] = "insert"],
               job' = [job EXCEPT ![w] = [pair |-> job[w].pair, tank |-> t]]
        PROVE  TypeOK'
    <3>1. [pair |-> job[w].pair, tank |-> t] \in InsertJob
      BY <2>1 DEF MatchJob, InsertJob
    <3>2. JobsTyped'
      BY <2>3, <3>1 DEF TypeOK, JobsTyped
    <3> QED
      BY <1>12, <3>2 DEF DismissMatch, TypeOK, JobsTyped, data
  <2> QED
    BY <1>12, <2>2, <2>3 DEF DismissMatch
<1>13. ASSUME NEW w \in Workers, DismissInsert(w) PROVE TypeOK'
  <2>1. job[w] \in InsertJob /\ JobsTyped'
    BY <1>13, RespondTypes DEF DismissInsert, TypeOK
  <2>2. [tank |-> job[w].tank, pair |-> job[w].pair] \in Dismissal
    BY <2>1 DEF InsertJob, Dismissal
  <2>3. dismissals' \subseteq Dismissal /\ answered' \subseteq Pair
    BY <1>13, <2>1, <2>2 DEF DismissInsert, TypeOK, InsertJob
  <2> QED
    BY <1>13, <2>1, <2>3 DEF DismissInsert, TypeOK, JobsTyped
<1>14. ASSUME NEW t \in Tanks, ReplaceTank(t) PROVE TypeOK'
  BY <1>14, <1>1 DEF ReplaceTank, TypeOK
<1>15. CASE Tick
  BY <1>15 DEF Tick, TypeOK
<1>16. CASE UNCHANGED vars
  BY <1>16 DEF vars, TypeOK
<1> QED
  BY <1>2, <1>3, <1>4, <1>5, <1>6, <1>7, <1>8, <1>9, <1>10, <1>11, <1>12, <1>13, <1>14, <1>15, <1>16
     DEF Next, ReadingStep, DeliveryStep, WorkerStep

(* Every reachable state of the tanks is well typed. *)
THEOREM TypeCorrect == Spec => []TypeOK
<1> QED BY TypeInit, TypeStep, PTL DEF Spec

----------------------------------------------------------------------------
(* Intervals.                                                              *)

(* The intervals of one tank are half-open and do not overlap: an instant  *)
(* lies in at most one of them.                                            *)
LEMMA IntervalsApart ==
    ASSUME NEW v, v.readings \in [ReadingIds -> Reading \union {None}],
           NEW t, NEW s \in Intervals(v, t), NEW r \in Intervals(v, t),
           NEW at \in Int, Covers(v, s, at), Covers(v, r, at)
    PROVE  r = s
<1> DEFINE points == Counting(v, t)
<1>1. /\ s \in points \X points /\ r \in points \X points
      /\ ~\E k \in points : Sooner(v, s[1], k) /\ Sooner(v, k, s[2])
      /\ ~\E k \in points : Sooner(v, r[1], k) /\ Sooner(v, k, r[2])
  BY DEF Intervals
<1>2. \A i \in points : i \in Int /\ v.readings[i].at \in Int
  <2>1. Times \subseteq Int /\ ReadingIds \subseteq Int
    BY OilAssumption DEF OilAssumption, ReadingIds
  <2>2. \A i \in points : i \in ReadingIds /\ v.readings[i] \in Reading
    BY DEF Counting
  <2> QED BY <2>1, <2>2 DEF Reading
<1>3. Sooner(v, s[1], r[2]) /\ Sooner(v, r[1], s[2])
  <2> HIDE DEF points
  <2> QED BY <1>1, <1>2 DEF Covers, Sooner
<1> HIDE DEF points
<1>4. r[1] = s[1]
  <2>1. r[1] = s[1] \/ Sooner(v, s[1], r[1]) \/ Sooner(v, r[1], s[1])
    BY <1>1, <1>2 DEF Sooner
  <2> QED BY <2>1, <1>1, <1>3
<1>5. r[2] = s[2]
  <2>1. r[2] = s[2] \/ Sooner(v, s[2], r[2]) \/ Sooner(v, r[2], s[2])
    BY <1>1, <1>2 DEF Sooner
  <2> QED BY <2>1, <1>1, <1>3
<1> QED BY <1>1, <1>4, <1>5

LEMMA RiseInt ==
    ASSUME NEW v, v.readings \in [ReadingIds -> Reading \union {None}],
           NEW t, NEW s \in Intervals(v, t)
    PROVE  Rise(v, s) \in Int
<1>1. v.readings[s[1]] \in Reading /\ v.readings[s[2]] \in Reading
  BY DEF Intervals, Counting
<1>2. Levels \subseteq Int
  BY OilAssumption DEF OilAssumption
<1>3. v.readings[s[1]].value \in Int /\ v.readings[s[2]].value \in Int
  BY <1>1, <1>2 DEF Reading
<1>4. \A a, b \in Int : a - b \in Int
  OBVIOUS
<1> QED BY <1>3, <1>4, Zenon DEF Rise

(* A delivery that fell into an interval and did not count there counts    *)
(* for another tank, which rose at least as much.                          *)
LEMMA AssignedElsewhere ==
    ASSUME NEW v, v.readings \in [ReadingIds -> Reading \union {None}],
           NEW t \in Tanks, NEW s \in Intervals(v, t), NEW d, v.deliveries[d].at \in Int,
           v.tanks \subseteq Tanks,
           Covers(v, s, v.deliveries[d].at), ~Assigned(v, d, t)
    PROVE  \E u \in v.tanks \ {t} : \E r \in Intervals(v, u) :
              Covers(v, r, v.deliveries[d].at) /\ Rise(v, r) >= Rise(v, s)
<1>0. PICK u \in v.tanks : \E r \in Intervals(v, u) :
         /\ Covers(v, r, v.deliveries[d].at)
         /\ ~(Rise(v, r) < Rise(v, s))
         /\ ~(Rise(v, r) = Rise(v, s) /\ t <= u)
  BY Zenon DEF Assigned
<1>1. PICK r \in Intervals(v, u) :
         /\ Covers(v, r, v.deliveries[d].at)
         /\ ~(Rise(v, r) < Rise(v, s))
         /\ ~(Rise(v, r) = Rise(v, s) /\ t <= u)
  BY <1>0, Zenon
<1>2. Rise(v, r) \in Int /\ Rise(v, s) \in Int
  BY RiseInt
<1>3. Rise(v, r) >= Rise(v, s)
  <2>1. \A a, b \in Int : ~(a < b) => a >= b
    OBVIOUS
  <2> QED BY <1>1, <1>2, <2>1, Zenon
<1>4. u # t
  <2>1. SUFFICES ASSUME u = t PROVE FALSE
    OBVIOUS
  <2>2. r = s
    BY <1>1, <2>1, IntervalsApart
  <2>3. t <= u
    BY <2>1, OilAssumption DEF OilAssumption
  <2> QED BY <1>1, <2>2, <2>3
<1> QED BY <1>1, <1>3, <1>4

(* In every typed state an open notice is unexplained: whatever was        *)
(* recorded for its time belongs to another tank.                          *)
LEMMA NoticesUnexplained == TypeOK => NoticesAreUnexplained
<1> SUFFICES ASSUME TypeOK, NEW t \in active, NEW s \in Probable(Dashboard, t), NEW d \in DeliveryIds,
                    deliveries[d] # None, Covers(Dashboard, s, deliveries[d].at)
             PROVE  \E u \in active \ {t} : \E r \in Intervals(Dashboard, u) :
                       /\ Covers(Dashboard, r, deliveries[d].at)
                       /\ Rise(Dashboard, r) >= Rise(Dashboard, s)
  BY DEF NoticesAreUnexplained
<1>1. /\ Dashboard.readings = reading /\ Dashboard.deliveries = deliveries
      /\ Dashboard.tanks = active
  BY DEF Dashboard, LoadOilResults
<1>2. /\ reading \in [ReadingIds -> Reading \union {None}] /\ DOMAIN deliveries = DeliveryIds
      /\ active \subseteq Tanks
  BY DEF TypeOK
<1>3. /\ s \in Intervals(Dashboard, t)
      /\ ~Assigned(Dashboard, d, t)
  BY <1>1, <1>2 DEF Probable, IsKnown, DeliveredIn
<1>4. deliveries[d].at \in Int
  <2>1. Times \subseteq Int
    BY OilAssumption DEF OilAssumption
  <2> QED BY <2>1 DEF TypeOK, Delivery
<1> QED BY <1>1, <1>2, <1>3, <1>4, AssignedElsewhere

(* The app asks for a delivery only where no recorded one explains the     *)
(* rise, for every number of tanks, readings and deliveries.               *)
THEOREM NoticesCorrect == Spec => []NoticesAreUnexplained
<1> QED BY TypeCorrect, NoticesUnexplained, PTL

----------------------------------------------------------------------------
(* Dismissals.                                                             *)

(* The reading was inserted once and is deleted now. *)
Gone(i) == i < nextReading /\ reading[i] = None

OfTank(i, t) == reading[i] # None => reading[i].tank = t

(* The foreign keys of oil_delivery_dismissals. *)
DismissalsSound ==
    \A d \in dismissals : /\ reading[d.pair[1]] # None /\ reading[d.pair[2]] # None
                          /\ reading[d.pair[1]].tank = d.tank

(* What was answered is recorded, or can never be offered again. *)
AnswersSettled ==
    \A p \in answered : p \in Dismissed \/ Gone(p[1]) \/ Gone(p[2])

(* What a request remembers of a reading stays true while that exists. *)
JobsSound ==
    \A w \in Workers :
       /\ pc[w] = "match" =>
             \A i \in ReadingIds : job[w].readings[i] # None =>
                i < nextReading /\ OfTank(i, job[w].readings[i].tank)
       /\ pc[w] = "insert" => /\ job[w].pair[1] < nextReading /\ job[w].pair[2] < nextReading
                              /\ OfTank(job[w].pair[1], job[w].tank)

DismissInv == DismissalsSound /\ AnswersSettled /\ JobsSound

LEMMA PairIds == \A p \in Pair : p[1] \in ReadingIds /\ p[2] \in ReadingIds
BY DEF Pair

LEMMA ExistingIds ==
    ASSUME TypeOK, NEW i \in ReadingIds, reading[i] # None
    PROVE  i < nextReading
BY OilAssumption DEF OilAssumption, TypeOK, ReadingIds

LEMMA DismissInit == Init => DismissInv
BY DEF Init, DismissInv, DismissalsSound, AnswersSettled, JobsSound

(* Steps that keep every reading's tank and existence, and no dismissal,   *)
(* keep the invariant if the requests move on rightly.                     *)
LEMMA DismissFrame ==
    ASSUME DismissInv, UNCHANGED <<reading, dismissals, nextReading, answered>>, JobsSound'
    PROVE  DismissInv'
BY DEF DismissInv, DismissalsSound, AnswersSettled, Gone, Dismissed

LEMMA ReadingsKept ==
    ASSUME TypeOK, DismissInv, UNCHANGED <<pc, job, answered>>, nextReading' \in Int,
           nextReading <= nextReading', UNCHANGED dismissals,
           \A i \in ReadingIds : i < nextReading =>
              /\ reading[i] = None <=> reading'[i] = None
              /\ reading[i] # None => reading'[i].tank = reading[i].tank
    PROVE  DismissInv'
<1>1. \A i \in ReadingIds : i \in Int /\ nextReading \in Int
  BY OilAssumption DEF OilAssumption, ReadingIds, TypeOK
<1>2. DismissalsSound'
  <2> SUFFICES ASSUME NEW d \in dismissals
               PROVE  /\ reading'[d.pair[1]] # None /\ reading'[d.pair[2]] # None
                      /\ reading'[d.pair[1]].tank = d.tank
    BY DEF DismissalsSound
  <2>1. d.pair[1] \in ReadingIds /\ d.pair[2] \in ReadingIds
    BY PairIds DEF TypeOK, Dismissal
  <2>2. /\ reading[d.pair[1]] # None /\ reading[d.pair[2]] # None
        /\ reading[d.pair[1]].tank = d.tank
    BY DEF DismissInv, DismissalsSound
  <2>3. d.pair[1] < nextReading /\ d.pair[2] < nextReading
    BY <2>1, <2>2, ExistingIds
  <2> QED BY <2>1, <2>2, <2>3
<1>3. \A i \in ReadingIds : Gone(i) => Gone(i)'
  BY <1>1 DEF Gone
<1>4. AnswersSettled'
  <2>1. \A p \in answered : p[1] \in ReadingIds /\ p[2] \in ReadingIds
    BY PairIds DEF TypeOK
  <2> QED BY <1>3, <2>1 DEF DismissInv, AnswersSettled, Dismissed
<1>5. \A i \in ReadingIds : \A t :
         i < nextReading /\ OfTank(i, t) => i < nextReading' /\ OfTank(i, t)'
  BY <1>1 DEF OfTank
<1>6. JobsSound'
  <2>1. \A w \in Workers : pc[w] = "insert" => job[w].pair[1] \in ReadingIds /\ job[w].pair[2] \in ReadingIds
    BY PairIds DEF TypeOK, InsertJob
  <2>2. \A i \in ReadingIds : i < nextReading => i < nextReading'
    BY <1>1
  <2> QED BY <1>5, <2>1, <2>2 DEF DismissInv, JobsSound, OfTank
<1> QED BY <1>2, <1>4, <1>6 DEF DismissInv

LEMMA DismissStep == TypeOK /\ DismissInv /\ [Next]_vars => DismissInv'
<1> SUFFICES ASSUME TypeOK, DismissInv, [Next]_vars PROVE DismissInv'
  OBVIOUS
<1>0. nextReading \in Int /\ ReadingIds \subseteq Int
  BY OilAssumption DEF OilAssumption, TypeOK, ReadingIds
<1>1. ASSUME NEW w \in Workers, Respond(w), UNCHANGED <<reading, nextReading>> PROVE JobsSound'
  BY <1>1 DEF Respond, DismissInv, JobsSound, OfTank, TypeOK
<1>2. ASSUME NEW t \in Tanks, NEW at \in Times, NEW value \in Levels, CreateReading(t, at, value)
      PROVE  DismissInv'
  <2>1. \A i \in ReadingIds : i < nextReading => reading'[i] = reading[i]
    BY <1>2, <1>0 DEF CreateReading, TypeOK
  <2>2. nextReading' \in Int /\ nextReading <= nextReading'
    BY <1>2, <1>0 DEF CreateReading
  <2> QED BY <1>2, <2>1, <2>2, ReadingsKept DEF CreateReading
<1>3. ASSUME NEW i \in ReadingIds, NEW at \in Times, NEW value \in Levels, UpdateReading(i, at, value)
      PROVE  DismissInv'
  <2>1. reading[i] \in Reading /\ reading \in [ReadingIds -> Reading \union {None}]
    BY <1>3 DEF UpdateReading, TypeOK
  <2>2. reading' = [reading EXCEPT ![i] = [reading[i] EXCEPT !.at = at, !.value = value]]
    BY <1>3, <2>1 DEF UpdateReading, Reading
  <2>3. /\ [reading[i] EXCEPT !.at = at, !.value = value].tank = reading[i].tank
        /\ [reading[i] EXCEPT !.at = at, !.value = value] \in Reading
    BY <2>1 DEF Reading
  <2>4. [reading[i] EXCEPT !.at = at, !.value = value] # None /\ reading[i] # None
    BY <1>3, <2>3, OilAssumption DEF OilAssumption, UpdateReading
  <2>5. \A k \in ReadingIds : /\ reading[k] = None <=> reading'[k] = None
                              /\ reading[k] # None => reading'[k].tank = reading[k].tank
    BY <2>1, <2>2, <2>3, <2>4
  <2>6. UNCHANGED <<pc, job, answered, dismissals, nextReading>>
    BY <1>3, Zenon DEF UpdateReading
  <2>7. nextReading' \in Int /\ nextReading <= nextReading'
    BY <1>0, <2>6
  <2> QED BY <2>5, <2>6, <2>7, ReadingsKept
<1>4. ASSUME NEW i \in ReadingIds, DeleteReading(i) PROVE DismissInv'
  <2>1. /\ reading' = [reading EXCEPT ![i] = None]
        /\ reading \in [ReadingIds -> Reading \union {None}]
        /\ dismissals' = {d \in dismissals : i \notin {d.pair[1], d.pair[2]}}
        /\ UNCHANGED <<nextReading, pc, job, answered>>
        /\ i < nextReading
    BY <1>4, ExistingIds DEF DeleteReading, TypeOK
  <2>2. DismissalsSound'
    <3> SUFFICES ASSUME NEW d \in dismissals, i # d.pair[1], i # d.pair[2]
                 PROVE  /\ reading'[d.pair[1]] # None /\ reading'[d.pair[2]] # None
                        /\ reading'[d.pair[1]].tank = d.tank
      BY <2>1 DEF DismissalsSound
    <3>1. d.pair[1] \in ReadingIds /\ d.pair[2] \in ReadingIds
      BY PairIds DEF TypeOK, Dismissal
    <3> QED BY <2>1, <3>1 DEF DismissInv, DismissalsSound
  <2>3. AnswersSettled'
    <3> SUFFICES ASSUME NEW p \in answered PROVE (p \in Dismissed \/ Gone(p[1]) \/ Gone(p[2]))'
      BY <2>1 DEF AnswersSettled
    <3>1. p[1] \in ReadingIds /\ p[2] \in ReadingIds
      BY PairIds DEF TypeOK
    <3>2. CASE Gone(p[1]) \/ Gone(p[2])
      BY <2>1, <3>1, <3>2 DEF Gone
    <3>3. CASE p \in Dismissed /\ i \in {p[1], p[2]}
      BY <2>1, <3>3 DEF Gone
    <3>4. CASE p \in Dismissed /\ i \notin {p[1], p[2]}
      BY <2>1, <3>4 DEF Dismissed
    <3> QED BY <3>2, <3>3, <3>4 DEF DismissInv, AnswersSettled
  <2>4. \A k \in ReadingIds : \A t : OfTank(k, t) => OfTank(k, t)'
    BY <2>1 DEF OfTank
  <2>5. \A w \in Workers : pc[w] = "insert" => job[w].pair[1] \in ReadingIds
    BY PairIds DEF TypeOK, InsertJob
  <2>6. JobsSound'
    BY <2>1, <2>4, <2>5 DEF DismissInv, JobsSound, OfTank
  <2> QED BY <2>2, <2>3, <2>6 DEF DismissInv
<1>5. ASSUME NEW at \in Times, NEW liters \in Litres, NEW total \in Totals \union {None},
             NEW per \in PerLitre \union {None}, CreateDelivery(at, liters, total, per)
      PROVE  DismissInv'
  BY <1>5, <1>0, ReadingsKept DEF CreateDelivery
<1>6. ASSUME NEW d \in DeliveryIds, DeleteDelivery(d) PROVE DismissInv'
  BY <1>6, <1>0, ReadingsKept DEF DeleteDelivery
<1>7. ASSUME NEW w \in Workers, NEW d \in DeliveryIds, NEW body \in Body, UpdateDelivery(w, d, body)
      PROVE  DismissInv'
  <2>1. /\ pc' = [pc EXCEPT ![w] = "update"] /\ \A u \in Workers \ {w} : job'[u] = job[u]
        /\ UNCHANGED <<reading, dismissals, nextReading, answered>>
    BY <1>7 DEF UpdateDelivery, data, TypeOK
  <2>2. JobsSound'
    BY <2>1 DEF DismissInv, JobsSound, OfTank, TypeOK
  <2> QED BY <2>1, <2>2, DismissFrame
<1>8. ASSUME NEW w \in Workers, UpdateFlush(w) PROVE DismissInv'
  BY <1>8, <1>1, DismissFrame DEF UpdateFlush
<1>9. ASSUME NEW w \in Workers, NEW pair \in Asked, Dismiss(w, pair) PROVE DismissInv'
  <2>1. /\ pc'[w] \in {"confirm", "look"}
        /\ \A u \in Workers \ {w} : pc'[u] = pc[u] /\ job'[u] = job[u]
        /\ UNCHANGED <<reading, dismissals, nextReading, answered>>
    BY <1>9 DEF Dismiss, data, TypeOK
  <2>2. JobsSound'
    BY <2>1 DEF DismissInv, JobsSound, OfTank
  <2> QED BY <2>1, <2>2, DismissFrame
<1>10. ASSUME NEW w \in Workers, DismissConfirm(w) PROVE DismissInv'
  <2>1. JobsSound'
    BY <1>10, <1>1 DEF DismissConfirm, data
  <2>2. /\ answered' = IF job[w].pair \in Dismissed THEN answered \union {job[w].pair} ELSE answered
        /\ UNCHANGED <<reading, dismissals, nextReading>>
    BY <1>10 DEF DismissConfirm, data
  <2> QED
    BY <2>1, <2>2 DEF DismissInv, DismissalsSound, AnswersSettled, Dismissed, Gone
<1>11. ASSUME NEW w \in Workers, DismissLook(w) PROVE DismissInv'
  <2>1. /\ pc' = [pc EXCEPT ![w] = "match"] /\ job'[w].readings = reading
        /\ \A u \in Workers \ {w} : job'[u] = job[u]
        /\ UNCHANGED <<reading, dismissals, nextReading, answered>>
    BY <1>11 DEF DismissLook, data, TypeOK
  <2>2. \A i \in ReadingIds : reading[i] # None => i < nextReading
    BY ExistingIds
  <2>3. JobsSound'
    BY <2>1, <2>2 DEF DismissInv, JobsSound, OfTank, TypeOK
  <2> QED BY <2>1, <2>3, DismissFrame
<1>12. ASSUME NEW w \in Workers, DismissMatch(w) PROVE DismissInv'
  <2> DEFINE j == job[w]  v == LoadOilResults(j.tanks, j.readings, j.since)
  <2>1. pc[w] = "match" /\ j \in MatchJob /\ UNCHANGED <<reading, dismissals, nextReading, answered>>
    BY <1>12 DEF DismissMatch, TypeOK, data
  <2>2. CASE Respond(w)
    BY <2>1, <2>2, <1>1, DismissFrame
  <2>3. ASSUME NEW t \in j.tanks, j.pair \in Probable(v, t), pc' = [pc EXCEPT ![w] = "insert"],
               job' = [job EXCEPT ![w] = [pair |-> j.pair, tank |-> t]]
        PROVE  DismissInv'
    <3>1. v.readings = j.readings
      BY DEF LoadOilResults
    <3>2. j.pair[1] \in Counting(v, t) /\ j.pair[2] \in Counting(v, t)
      BY <2>3 DEF Probable, Intervals
    <3>3. /\ j.pair[1] \in ReadingIds /\ j.pair[2] \in ReadingIds
          /\ j.readings[j.pair[1]] # None /\ j.readings[j.pair[2]] # None
          /\ j.readings[j.pair[1]].tank = t
      BY <2>1, <3>1, <3>2, PairIds DEF Counting, MatchJob
    <3>4. /\ j.pair[1] < nextReading /\ j.pair[2] < nextReading
          /\ OfTank(j.pair[1], t)
      BY <2>1, <3>3 DEF DismissInv, JobsSound
    <3>5. /\ pc'[w] = "insert" /\ job'[w].pair = j.pair /\ job'[w].tank = t
          /\ \A u \in Workers \ {w} : pc'[u] = pc[u] /\ job'[u] = job[u]
      BY <2>3 DEF TypeOK
    <3> HIDE DEF j, v
    <3>6. JobsSound'
      BY <2>1, <3>4, <3>5 DEF DismissInv, JobsSound, OfTank
    <3> QED BY <2>1, <3>6, DismissFrame
  <2> QED BY <1>12, <2>2, <2>3 DEF DismissMatch
<1>13. ASSUME NEW w \in Workers, DismissInsert(w) PROVE DismissInv'
  <2> DEFINE j == job[w]
  <2>1. /\ j \in InsertJob /\ answered' = answered \union {j.pair}
        /\ UNCHANGED <<reading, nextReading>>
    BY <1>13 DEF DismissInsert, TypeOK
  <2>2. /\ j.pair[1] < nextReading /\ j.pair[2] < nextReading
        /\ OfTank(j.pair[1], j.tank)
    BY <1>13 DEF DismissInsert, DismissInv, JobsSound
  <2>3. JobsSound'
    BY <1>13, <1>1 DEF DismissInsert
  <2>4. CASE Insertable(j)
    <3>1. dismissals' = dismissals \union {[tank |-> j.tank, pair |-> j.pair]}
      BY <1>13, <2>4 DEF DismissInsert
    <3>2. reading[j.pair[1]] # None /\ reading[j.pair[2]] # None /\ reading[j.pair[1]].tank = j.tank
      BY <2>4, <2>2 DEF Insertable, OfTank
    <3>3. DismissalsSound'
      BY <2>1, <3>1, <3>2 DEF DismissInv, DismissalsSound
    <3>4. j.pair \in Dismissed' /\ Dismissed \subseteq Dismissed'
      <4>1. \A d \in dismissals : d \in dismissals'
        BY <3>1
      <4>2. [tank |-> j.tank, pair |-> j.pair] \in dismissals'
        BY <3>1
      <4>3. Dismissed \subseteq Dismissed'
        BY <4>1 DEF Dismissed
      <4>4. j.pair \in {d.pair : d \in dismissals'}
        <5> DEFINE d == [tank |-> j.tank, pair |-> j.pair]
        <5>1. d.pair = j.pair
          OBVIOUS
        <5> HIDE DEF d
        <5>2. d \in dismissals'
          BY <4>2 DEF d
        <5> QED BY <5>1, <5>2
      <4> QED BY <4>3, <4>4 DEF Dismissed
    <3>5. AnswersSettled'
      BY <2>1, <3>4 DEF DismissInv, AnswersSettled, Gone
    <3> QED BY <2>3, <3>3, <3>5 DEF DismissInv
  <2>5. CASE ~Insertable(j)
    <3>1. dismissals' = dismissals
      BY <1>13, <2>5 DEF DismissInsert
    <3>2. j.pair \in Dismissed \/ Gone(j.pair[1]) \/ Gone(j.pair[2])
      BY <2>2, <2>5 DEF Insertable, Gone
    <3>3. AnswersSettled'
      BY <2>1, <3>1, <3>2 DEF DismissInv, AnswersSettled, Gone, Dismissed
    <3> QED BY <2>1, <2>3, <3>1, <3>3 DEF DismissInv, DismissalsSound
  <2> QED BY <2>4, <2>5
<1>14. ASSUME NEW t \in Tanks, ReplaceTank(t) PROVE DismissInv'
  BY <1>14, <1>0, ReadingsKept DEF ReplaceTank
<1>15. CASE Tick
  BY <1>15, <1>0, ReadingsKept DEF Tick
<1>16. CASE UNCHANGED vars
  BY <1>16, <1>0, ReadingsKept DEF vars
<1> QED
  BY <1>2, <1>3, <1>4, <1>5, <1>6, <1>7, <1>8, <1>9, <1>10, <1>11, <1>12, <1>13, <1>14, <1>15, <1>16
     DEF Next, ReadingStep, DeliveryStep, WorkerStep

LEMMA AnsweredIsClosed == TypeOK /\ DismissInv => DismissedStaysClosed
<1> SUFFICES ASSUME TypeOK, DismissInv, NEW t \in active, NEW p \in answered,
                    p \in Probable(Dashboard, t)
             PROVE  FALSE
  BY DEF DismissedStaysClosed
<1>1. /\ Dashboard.readings = reading
      /\ Dashboard.dismissed = {d.pair : d \in {e \in dismissals : e.tank \in active}}
  BY DEF Dashboard, LoadOilResults
<1>2. p[1] \in Counting(Dashboard, t) /\ p[2] \in Counting(Dashboard, t) /\ p \notin Dashboard.dismissed
  BY DEF Probable, Intervals
<1>3. reading[p[1]] # None /\ reading[p[2]] # None /\ reading[p[1]].tank = t
  BY <1>1, <1>2 DEF Counting
<1>4. p \in Dismissed
  BY <1>3 DEF DismissInv, AnswersSettled, Gone
<1>5. PICK d \in dismissals : d.pair = p
  BY <1>4 DEF Dismissed
<1>6. d.tank = t
  BY <1>3, <1>5 DEF DismissInv, DismissalsSound
<1> QED BY <1>1, <1>2, <1>5, <1>6

(* A notice whose dismissal was answered with 204 is never offered again,  *)
(* for every number of requests, tanks and readings.                       *)
THEOREM DismissalsCorrect == Spec => []DismissedStaysClosed
<1> QED BY TypeCorrect, DismissInit, DismissStep, AnsweredIsClosed, PTL DEF Spec

----------------------------------------------------------------------------
(* The two prices.                                                         *)

LEMMA Quotient ==
    ASSUME NEW n \in Nat, NEW m \in Nat \ {0}
    PROVE  n \div m \in Nat /\ m * (n \div m) <= n /\ n < m * (n \div m) + m
OBVIOUS

(* A rounded quotient misses the quotient by half a unit at most. *)
LEMMA RoundHalfUpClose ==
    ASSUME NEW a \in Nat, NEW b \in Nat \ {0}
    PROVE  /\ RoundHalfUp(a, b) \in Nat
           /\ 2 * (b * RoundHalfUp(a, b)) <= 2 * a + b
           /\ 2 * a - b <= 2 * (b * RoundHalfUp(a, b))
<1> DEFINE n == 2 * a + b  m == 2 * b  q == n \div m
<1>1. n \in Nat /\ m \in Nat \ {0}
  OBVIOUS
<1>2. q \in Nat /\ m * q <= n /\ n < m * q + m
  <2> HIDE DEF n, m
  <2> QED BY <1>1, Quotient
<1>3. RoundHalfUp(a, b) = q
  BY DEF RoundHalfUp
<1> HIDE DEF q
<1>4. m * q = 2 * (b * q) /\ b * q \in Nat
  BY <1>2
<1> QED BY <1>2, <1>3, <1>4

(* The prices of a row agree with its litres when it has both. *)
RowAgrees(row) == row.total # None /\ row.per # None => Agree(row.liters, row.total, row.per)

LEMMA DerivedPricesAgree ==
    ASSUME NEW liters \in Litres,
           NEW total \in 0..MaxTotal \union {None}, NEW per \in 0..MaxPerLiter \union {None},
           DerivePrices(liters, total, per).ok,
           DerivePrices(liters, total, per).total # None,
           DerivePrices(liters, total, per).per # None
    PROVE  Agree(liters, DerivePrices(liters, total, per).total, DerivePrices(liters, total, per).per)
<1>0. liters \in Nat \ {0} /\ MaxTotal \in Nat /\ MaxPerLiter \in Nat
  BY OilAssumption DEF OilAssumption
<1>1. CASE total # None /\ per # None
  BY <1>1 DEF DerivePrices
<1>2. CASE total = None /\ per # None
  <2> DEFINE t == RoundHalfUp(liters * per, 100)
  <2>1. per \in Nat /\ liters * per \in Nat
    <3>1. per \in Nat  BY <1>2, <1>0
    <3> QED BY <3>1, <1>0, ProductNat
  <2>2. DerivePrices(liters, total, per).total = t /\ DerivePrices(liters, total, per).per = per
    BY <1>2 DEF DerivePrices
  <2>3. t \in Nat /\ 2 * (100 * t) <= 2 * (liters * per) + 100 /\ 2 * (liters * per) - 100 <= 2 * (100 * t)
    BY <2>1, RoundHalfUpClose
  <2> HIDE DEF t
  <2>4. Agree(liters, t, per)
    <3> DEFINE x == liters * per
    <3>1. x \in Nat /\ 2 * (100 * t) <= 2 * x + 100 /\ 2 * x - 100 <= 2 * (100 * t)
      BY <2>1, <2>3
    <3> HIDE DEF x
    <3>2. 100 * t - x <= liters + 100 /\ -(100 * t - x) <= liters + 100
      BY <3>1, <2>3, <1>0
    <3> QED BY <3>2 DEF Agree, x
  <2> QED BY <2>2, <2>4
<1>3. CASE total # None /\ per = None
  <2> DEFINE p == RoundHalfUp(100 * total, liters)
  <2>1. total \in Nat /\ 100 * total \in Nat
    BY <1>3, <1>0
  <2>2. DerivePrices(liters, total, per).total = total /\ DerivePrices(liters, total, per).per = p
    BY <1>3 DEF DerivePrices
  <2>3. p \in Nat /\ 2 * (liters * p) <= 2 * (100 * total) + liters /\ 2 * (100 * total) - liters <= 2 * (liters * p)
    BY <2>1, <1>0, RoundHalfUpClose
  <2> HIDE DEF p
  <2>4. Agree(liters, total, p)
    <3> DEFINE x == liters * p
    <3>1. x \in Nat
      BY <2>3, <1>0, ProductNat
    <3>2. 2 * x <= 2 * (100 * total) + liters /\ 2 * (100 * total) - liters <= 2 * x
      BY <2>3
    <3> HIDE DEF x
    <3>3. 100 * total - x <= liters + 100 /\ -(100 * total - x) <= liters + 100
      BY <3>1, <3>2, <2>1, <1>0
    <3> QED BY <3>3 DEF Agree, x
  <2> QED BY <2>2, <2>4
<1>4. CASE total = None /\ per = None
  BY <1>4 DEF DerivePrices
<1> QED BY <1>1, <1>2, <1>3, <1>4

LEMMA PatchedPricesAgree ==
    ASSUME NEW row \in Delivery, NEW body \in Body, RowAgrees(row),
           NEW liters \in Litres, liters = Sent(body.liters, row.liters),
           PatchedPrices(row, body, liters).ok,
           PatchedPrices(row, body, liters).total # None,
           PatchedPrices(row, body, liters).per # None
    PROVE  Agree(liters, PatchedPrices(row, body, liters).total, PatchedPrices(row, body, liters).per)
<1> DEFINE r == PatchedPrices(row, body, liters)
<1>0. /\ row.total \in 0..MaxTotal \union {None} /\ row.per \in 0..MaxPerLiter \union {None}
      /\ body.total # Unset => body.total \in 0..MaxTotal \union {None}
      /\ body.per # Unset => body.per \in 0..MaxPerLiter \union {None}
      /\ None \in 0..MaxTotal \union {None} /\ None \in 0..MaxPerLiter \union {None}
  BY OilAssumption DEF OilAssumption, Delivery, Body
<1>1. CASE body.total # Unset /\ body.per # Unset
  <2>1. /\ r.total = body.total /\ r.per = body.per
        /\ DerivePrices(liters, body.total, body.per).ok
    BY <1>1 DEF PatchedPrices, DerivePrices
  <2> QED BY <2>1 DEF DerivePrices
<1>2. CASE body.total # Unset /\ body.per = Unset
  <2>1. PatchedPrices(row, body, liters) = DerivePrices(liters, body.total, None)  BY <1>2 DEF PatchedPrices
  <2> HIDE DEF r
  <2> QED BY <2>1, <1>0, <1>2, DerivedPricesAgree
<1>3. CASE body.total = Unset /\ body.per # Unset
  <2>1. PatchedPrices(row, body, liters) = DerivePrices(liters, None, body.per)  BY <1>3 DEF PatchedPrices
  <2> HIDE DEF r
  <2> QED BY <2>1, <1>0, <1>3, DerivedPricesAgree
<1>4. CASE body.total = Unset /\ body.per = Unset
  <2>1. r = IF body.liters # Unset /\ row.total # None
            THEN DerivePrices(liters, row.total, None)
            ELSE [total |-> row.total, per |-> row.per, ok |-> TRUE]
    BY <1>4 DEF PatchedPrices
  <2>2. CASE body.liters # Unset /\ row.total # None
    <3>1. PatchedPrices(row, body, liters) = DerivePrices(liters, row.total, None)  BY <2>1, <2>2
    <3> HIDE DEF r
    <3> QED BY <3>1, <1>0, DerivedPricesAgree
  <2>3. CASE ~(body.liters # Unset /\ row.total # None)
    <3>1. r.total = row.total /\ r.per = row.per  BY <2>1, <2>3
    <3>2. body.liters = Unset  BY <2>3, <3>1
    <3>3. liters = row.liters  BY <3>2 DEF Sent
    <3> HIDE DEF r
    <3>4. row.total # None /\ row.per # None  BY <3>1 DEF r
    <3>5. Agree(row.liters, row.total, row.per)  BY <3>4 DEF RowAgrees
    <3> QED BY <3>1, <3>3, <3>5 DEF r
  <2> QED BY <2>2, <2>3
<1> QED BY <1>1, <1>2, <1>3, <1>4

(* A request that loaded a row whose prices agree writes one whose prices  *)
(* agree; and a row nobody else wrote since is the row it loaded.          *)
PricesInv ==
    /\ \A d \in DeliveryIds \ torn : deliveries[d] # None => RowAgrees(deliveries[d])
    /\ \A w \in Workers : pc[w] = "update" /\ RowAgrees(job[w].old) => RowAgrees(job[w].new)

LEMMA PricesFrame ==
    ASSUME PricesInv, UNCHANGED <<deliveries, torn>>,
           \A w \in Workers : pc'[w] = "update" => pc[w] = "update" /\ job'[w] = job[w]
    PROVE  PricesInv'
BY DEF PricesInv, RowAgrees, Agree

LEMMA PricesStep == TypeOK /\ PricesInv /\ [Next]_vars => PricesInv'
<1> SUFFICES ASSUME TypeOK, PricesInv, [Next]_vars PROVE PricesInv'
  OBVIOUS
<1>1. ASSUME UNCHANGED <<deliveries, torn, pc, job>> PROVE PricesInv'
  BY <1>1, PricesFrame
<1>2. ASSUME NEW w \in Workers, Respond(w), UNCHANGED <<deliveries, torn>> PROVE PricesInv'
  BY <1>2, PricesFrame DEF Respond, TypeOK
<1>3. CASE ReadingStep
  BY <1>1, <1>3 DEF ReadingStep, CreateReading, DeleteReading, UpdateReading
<1>4. ASSUME NEW at \in Times, NEW liters \in Litres, NEW total \in Totals \union {None},
             NEW per \in PerLitre \union {None}, CreateDelivery(at, liters, total, per)
      PROVE  PricesInv'
  <2> DEFINE price == DerivePrices(liters, total, per)
             row == [at |-> at, liters |-> liters, total |-> price.total, per |-> price.per]
  <2>1. /\ price.ok
        /\ deliveries' = [deliveries EXCEPT ![nextDelivery] = row]
        /\ UNCHANGED <<torn, pc, job>>
    BY <1>4 DEF CreateDelivery
  <2>2. total \in 0..MaxTotal \union {None} /\ per \in 0..MaxPerLiter \union {None}
    BY OilAssumption DEF OilAssumption
  <2>3. RowAgrees(row)
    BY <2>1, <2>2, DerivedPricesAgree DEF RowAgrees
  <2> HIDE DEF row
  <2> QED BY <2>1, <2>3 DEF PricesInv, TypeOK
<1>5. ASSUME NEW d \in DeliveryIds, DeleteDelivery(d) PROVE PricesInv'
  BY <1>5 DEF DeleteDelivery, PricesInv, TypeOK
<1>6. ASSUME NEW w \in Workers, NEW d \in DeliveryIds, NEW body \in Body, UpdateDelivery(w, d, body)
      PROVE  PricesInv'
  <2> DEFINE old == deliveries[d]
             liters == Sent(body.liters, old.liters)
             price == PatchedPrices(old, body, liters)
             new == [at |-> Sent(body.at, old.at), liters |-> liters,
                     total |-> price.total, per |-> price.per]
             j == [delivery |-> d, old |-> old, new |-> new]
  <2>1. old \in Delivery /\ price.ok
    BY <1>6 DEF UpdateDelivery, TypeOK
  <2>2. liters \in Litres
    BY <2>1 DEF Sent, Body, Delivery
  <2>3. RowAgrees(old) => RowAgrees(new)
    <3> SUFFICES ASSUME RowAgrees(old), price.total # None, price.per # None
                 PROVE  Agree(liters, price.total, price.per)
      BY DEF RowAgrees
    <3> HIDE DEF old
    <3> QED BY <2>1, <2>2, PatchedPricesAgree
  <2>4. /\ pc' = [pc EXCEPT ![w] = "update"] /\ job' = [job EXCEPT ![w] = j]
        /\ UNCHANGED <<deliveries, torn>>
    BY <1>6 DEF UpdateDelivery, data
  <2> HIDE DEF new, old
  <2>5. job'[w].old = old /\ job'[w].new = new /\ \A u \in Workers \ {w} : pc'[u] = pc[u] /\ job'[u] = job[u]
    BY <2>4 DEF TypeOK
  <2> QED BY <2>3, <2>4, <2>5 DEF PricesInv
<1>7. ASSUME NEW w \in Workers, UpdateFlush(w) PROVE PricesInv'
  <2> DEFINE d == job[w].delivery  old == job[w].old  new == job[w].new
             row == [c \in DOMAIN new |-> IF new[c] # old[c] THEN new[c] ELSE deliveries[d][c]]
  <2>1. d \in DeliveryIds /\ old \in Delivery /\ new \in Delivery
    BY <1>7 DEF UpdateFlush, TypeOK, UpdateJob
  <2>2. \A u \in Workers : pc'[u] = "update" => pc[u] = "update" /\ job'[u] = job[u]
    BY <1>7 DEF UpdateFlush, Respond, TypeOK
  <2>3. CASE deliveries[d] = None
    BY <1>7, <2>3, <2>2, PricesFrame DEF UpdateFlush
  <2>4. CASE deliveries[d] # None
    <3>1. /\ deliveries' = [deliveries EXCEPT ![d] = row]
          /\ torn' = IF deliveries[d] # old THEN torn \union {d} ELSE torn
      BY <1>7, <2>4 DEF UpdateFlush
    <3>2. ASSUME d \notin torn' PROVE RowAgrees(row)
      <4>1. deliveries[d] = old /\ d \notin torn
        BY <3>1, <3>2
      <4>2. row = new
        BY <4>1, <2>1 DEF Delivery
      <4>3. RowAgrees(new)
        BY <4>1, <2>1, <2>4, <1>7 DEF PricesInv, UpdateFlush
      <4> QED BY <4>2, <4>3
    <3> HIDE DEF row
    <3>3. \A k \in DeliveryIds \ torn' : deliveries'[k] # None => RowAgrees(deliveries'[k])
      BY <3>1, <3>2, <2>1 DEF PricesInv, TypeOK
    <3> QED BY <3>3, <2>2 DEF PricesInv
  <2> QED BY <2>3, <2>4
<1>8. ASSUME NEW w \in Workers, NEW pair \in Asked, Dismiss(w, pair) PROVE PricesInv'
  BY <1>8, PricesFrame DEF Dismiss, data, TypeOK
<1>9. ASSUME NEW w \in Workers, DismissConfirm(w) PROVE PricesInv'
  BY <1>9, <1>2 DEF DismissConfirm, data
<1>10. ASSUME NEW w \in Workers, DismissLook(w) PROVE PricesInv'
  BY <1>10, PricesFrame DEF DismissLook, data, TypeOK
<1>11. ASSUME NEW w \in Workers, DismissMatch(w) PROVE PricesInv'
  <2>1. UNCHANGED <<deliveries, torn>>
    BY <1>11 DEF DismissMatch, data
  <2>2. \A u \in Workers : pc'[u] = "update" => pc[u] = "update" /\ job'[u] = job[u]
    BY <1>11 DEF DismissMatch, Respond, TypeOK
  <2> QED BY <2>1, <2>2, PricesFrame
<1>12. ASSUME NEW w \in Workers, DismissInsert(w) PROVE PricesInv'
  BY <1>12, <1>2 DEF DismissInsert
<1>13. ASSUME NEW t \in Tanks, ReplaceTank(t) PROVE PricesInv'
  BY <1>13, <1>1 DEF ReplaceTank
<1>14. CASE Tick
  BY <1>14, <1>1 DEF Tick
<1>15. CASE UNCHANGED vars
  BY <1>15, <1>1 DEF vars
<1> QED
  BY <1>3, <1>4, <1>5, <1>6, <1>7, <1>8, <1>9, <1>10, <1>11, <1>12, <1>13, <1>14, <1>15
     DEF Next, DeliveryStep, WorkerStep

LEMMA PricesInit == Init => PricesInv
BY DEF Init, PricesInv, DeliveryIds

(* The prices of every delivery agree with its litres to the cents the     *)
(* check of the API allows, whether they were sent, derived or derived     *)
(* again for new litres, unless two updates of it overlapped.              *)
THEOREM PricesCorrect == Spec => []SerialPricesAgree
<1>1. PricesInv => SerialPricesAgree
  BY DEF PricesInv, SerialPricesAgree, RowAgrees
<1> QED BY <1>1, TypeCorrect, PricesInit, PricesStep, PTL DEF Spec

----------------------------------------------------------------------------
(* Each delivery counts once.                                              *)

(* The intervals of a finite number of tanks are finitely many. *)
LEMMA PlacesFinite ==
    ASSUME NEW v, v.readings \in [ReadingIds -> Reading \union {None}], v.tanks \subseteq Tanks
    PROVE  IsFiniteSet(UNION {{t} \X Intervals(v, t) : t \in v.tanks})
<1> DEFINE places == UNION {{t} \X Intervals(v, t) : t \in v.tanks}
           all == Tanks \X (ReadingIds \X ReadingIds)
<1>1. IsFiniteSet(ReadingIds) /\ IsFiniteSet(Tanks)
  <2>1. MaxReadings \in Int /\ 1 \in Int /\ IsFiniteSet(Tanks)
    BY OilAssumption DEF OilAssumption
  <2> QED BY <2>1, FS_Interval DEF ReadingIds
<1>2. IsFiniteSet(all)
  BY <1>1, FS_Product
<1>3. \A t : Intervals(v, t) \subseteq ReadingIds \X ReadingIds
  <2>1. \A t : Counting(v, t) \subseteq ReadingIds
    BY DEF Counting
  <2> QED BY <2>1 DEF Intervals
<1>4. places \subseteq all
  BY <1>3
<1> HIDE DEF places, all
<1>5. IsFiniteSet(places)
  BY <1>2, <1>4, FS_Subset
<1> QED BY <1>5 DEF places

(* Of the tanks observed around a delivery exactly one takes it. *)
LEMMA CountedOnce ==
    ASSUME NEW v, v.readings \in [ReadingIds -> Reading \union {None}], v.tanks \subseteq Tanks,
           NEW d \in DOMAIN v.deliveries, v.deliveries[d] # None, v.deliveries[d].at \in Int,
           NEW seen, seen = {p \in UNION {{t} \X Intervals(v, t) : t \in v.tanks} :
                                Covers(v, p[2], v.deliveries[d].at)}
    PROVE  Cardinality({p \in seen : d \in DeliveredIn(v, p[1], p[2])}) = IF seen = {} THEN 0 ELSE 1
<1> DEFINE at == v.deliveries[d].at
           taken == {p \in seen : d \in DeliveredIn(v, p[1], p[2])}
           Better(q, p) == \/ Rise(v, q[2]) > Rise(v, p[2])
                           \/ Rise(v, q[2]) = Rise(v, p[2]) /\ q[1] < p[1]
           R == {pq \in seen \X seen : Better(pq[2], pq[1])}
<1>1. \A p : p \in seen <=> /\ p = <<p[1], p[2]>> /\ p[1] \in v.tanks
                             /\ p[2] \in Intervals(v, p[1]) /\ Covers(v, p[2], at)
  OBVIOUS
<1>2. \A p \in seen : Rise(v, p[2]) \in Int /\ p[1] \in Int
  <2>1. Tanks \subseteq Int
    BY OilAssumption DEF OilAssumption
  <2> QED BY <1>1, <2>1, RiseInt
<1>3. IsFiniteSet(seen)
  <2> DEFINE places == UNION {{t} \X Intervals(v, t) : t \in v.tanks}
  <2>1. IsFiniteSet(places)
    BY PlacesFinite
  <2>2. seen \in SUBSET places
    OBVIOUS
  <2> HIDE DEF places
  <2> QED BY <2>1, <2>2, FS_Subset
<1>4. \A p \in seen : p \in taken <=> \A q \in seen : ~Better(q, p)
  <2> SUFFICES ASSUME NEW p \in seen PROVE Assigned(v, d, p[1]) <=> \A q \in seen : ~Better(q, p)
    BY <1>1 DEF DeliveredIn
  <2>1. ASSUME Assigned(v, d, p[1]), NEW q \in seen PROVE ~Better(q, p)
    <3>1. PICK s \in Intervals(v, p[1]) :
             /\ Covers(v, s, at)
             /\ \A u \in v.tanks : \A r \in Intervals(v, u) :
                   Covers(v, r, at) => \/ Rise(v, r) < Rise(v, s)
                                       \/ Rise(v, r) = Rise(v, s) /\ p[1] <= u
      BY <2>1 DEF Assigned
    <3>2. s = p[2]
      BY <1>1, <3>1, IntervalsApart
    <3>3. \/ Rise(v, q[2]) < Rise(v, p[2])
          \/ Rise(v, q[2]) = Rise(v, p[2]) /\ p[1] <= q[1]
      BY <1>1, <3>1, <3>2
    <3> QED BY <1>2, <3>3
  <2>2. ASSUME \A q \in seen : ~Better(q, p) PROVE Assigned(v, d, p[1])
    <3> SUFFICES ASSUME NEW u \in v.tanks, NEW r \in Intervals(v, u), Covers(v, r, at)
                 PROVE  \/ Rise(v, r) < Rise(v, p[2])
                        \/ Rise(v, r) = Rise(v, p[2]) /\ p[1] <= u
      BY <1>1 DEF Assigned
    <3>1. <<u, r>> \in seen
      BY <1>1
    <3>2. ~Better(<<u, r>>, p) /\ Rise(v, r) \in Int /\ u \in Int
      BY <1>2, <2>2, <3>1
    <3> QED BY <1>2, <3>2
  <2> QED BY <2>1, <2>2
<1>5. \A p, q \in taken : p = q
  <2> SUFFICES ASSUME NEW p \in taken, NEW q \in taken PROVE p = q
    OBVIOUS
  <2>1. p[1] = q[1]
    BY <1>2, <1>4
  <2>2. p[2] = q[2]
    BY <1>1, <2>1, IntervalsApart
  <2> QED BY <1>1, <2>1, <2>2
<1>6. seen # {} => taken # {}
  <2> SUFFICES ASSUME seen # {} PROVE taken # {}
    OBVIOUS
  <2>0. \A p, q \in seen : <<p, q>> \in R <=> Better(q, p)
    BY Zenon
  <2>1. /\ \A p \in seen : <<p, p>> \notin R
        /\ \A x, y, z \in seen : <<x, y>> \in R /\ <<y, z>> \in R => <<x, z>> \in R
    <3>1. /\ \A p \in seen : ~Better(p, p)
          /\ \A x, y, z \in seen : Better(y, x) /\ Better(z, y) => Better(z, x)
      BY <1>2
    <3> HIDE DEF R, Better
    <3> QED BY <2>0, <3>1
  <2>2. PICK m \in seen : \A q \in seen : <<m, q>> \notin R
    <3> HIDE DEF R, taken
    <3>1. seen # {}
      OBVIOUS
    <3>2. ASSUME NEW S, S = seen PROVE \E m \in S : \A q \in S : <<m, q>> \notin R
      <4>1. IsFiniteSet(S)
        BY <1>3, <3>2
      <4>2. S # {}
        BY <3>1, <3>2
      <4>3. \A x \in S : <<x, x>> \notin R
        BY <2>1, <3>2
      <4>4. \A x, y, z \in S : <<x, y>> \in R /\ <<y, z>> \in R => <<x, z>> \in R
        BY <2>1, <3>2
      <4> QED BY <4>1, <4>2, <4>3, <4>4, SomethingIsGreatest, Zenon
    <3> QED BY <3>2, Zenon
  <2>3. \A q \in seen : ~Better(q, m)
    BY <2>0, <2>2, Zenon
  <2> QED BY <1>4, <2>2, <2>3
<1> HIDE DEF taken
<1>7. CASE seen = {}
  <2>1. taken = {}
    BY <1>7 DEF taken
  <2> QED BY <1>7, <2>1, FS_EmptySet DEF taken
<1>8. CASE seen # {}
  <2>1. \E x : taken = {x}
    BY <1>5, <1>6, <1>8
  <2> QED BY <1>8, <2>1, FS_Singleton DEF taken
<1> QED BY <1>7, <1>8

(* The forecast of a tank counts what the dashboard counts for it, when no *)
(* delivery came between two readings of another tank.                     *)
LEMMA ForecastCounts ==
    ASSUME TypeOK, NEW t \in active, NEW s \in Intervals(Dashboard, t),
           \A d \in DeliveryIds : deliveries[d] # None =>
              \A u \in active : \A r \in Intervals(Dashboard, u) :
                 Covers(Dashboard, r, deliveries[d].at) => u = t
    PROVE  DeliveredIn(Forecast(t), t, s) = DeliveredIn(Dashboard, t, s)
<1> DEFINE v == Dashboard  f == Forecast(t)
<1>1. /\ v.readings = reading /\ f.readings = reading /\ v.since = f.since
      /\ v.deliveries = deliveries /\ f.deliveries = deliveries
      /\ v.tanks = active /\ f.tanks = {t}
  BY DEF Dashboard, Forecast, LoadOilResults
<1>2. DOMAIN deliveries = DeliveryIds
  BY DEF TypeOK
<1> HIDE DEF v, f
<1>3. \A u : Counting(f, u) = Counting(v, u)
  BY <1>1 DEF Counting
<1>4. \A u : Intervals(f, u) = Intervals(v, u)
  BY <1>1, <1>3 DEF Intervals, Sooner
<1>5. \A r, at : (Covers(f, r, at) <=> Covers(v, r, at)) /\ Rise(f, r) = Rise(v, r)
  BY <1>1 DEF Covers, Rise
<1>6. ASSUME NEW d \in DeliveryIds, deliveries[d] # None PROVE Assigned(f, d, t) <=> Assigned(v, d, t)
  <2>1. \A u \in active : \A r \in Intervals(v, u) : Covers(v, r, deliveries[d].at) => u = t
    BY <1>6 DEF v
  <2> QED BY <1>1, <1>4, <1>5, <2>1 DEF Assigned
<1>7. DeliveredIn(f, t, s) = DeliveredIn(v, t, s)
  BY <1>1, <1>2, <1>5, <1>6 DEF DeliveredIn
<1> QED BY <1>7 DEF v, f

LEMMA DeliveriesCounted == TypeOK => DeliveriesCountOnce
<1> SUFFICES ASSUME TypeOK PROVE DeliveriesCountOnce
  OBVIOUS
<1> DEFINE v == Dashboard
           places == UNION {{t} \X Intervals(v, t) : t \in active}
           Observed(d) == {p \in places : Covers(v, p[2], deliveries[d].at)}
           Given == {d \in DeliveryIds : deliveries[d] # None}
<1>1. /\ v.readings = reading /\ v.deliveries = deliveries /\ v.tanks = active
      /\ reading \in [ReadingIds -> Reading \union {None}] /\ active \subseteq Tanks
      /\ DOMAIN deliveries = DeliveryIds
  BY DEF Dashboard, LoadOilResults, TypeOK
<1>2. ASSUME NEW d \in Given
      PROVE  Cardinality({p \in Observed(d) : d \in DeliveredIn(v, p[1], p[2])})
               = IF Observed(d) = {} THEN 0 ELSE 1
  <2>1. deliveries[d].at \in Int
    <3>1. Times \subseteq Int
      BY OilAssumption DEF OilAssumption
    <3> QED BY <3>1 DEF TypeOK, Delivery
  <2>2. Observed(d) = {p \in UNION {{t} \X Intervals(v, t) : t \in v.tanks} :
                          Covers(v, p[2], v.deliveries[d].at)}
    BY <1>1
  <2> HIDE DEF v, Observed
  <2> QED BY <1>1, <1>2, <2>1, <2>2, CountedOnce
<1>3. ASSUME NEW t \in active, \A d \in Given : \A p \in Observed(d) : p[1] = t,
             NEW s \in Intervals(v, t)
      PROVE  DeliveredIn(Forecast(t), t, s) = DeliveredIn(v, t, s)
  <2>1. ASSUME NEW d \in DeliveryIds, deliveries[d] # None,
               NEW u \in active, NEW r \in Intervals(v, u), Covers(v, r, deliveries[d].at)
        PROVE  u = t
    <3>1. <<u, r>> \in Observed(d)
      BY <2>1
    <3> HIDE DEF Observed
    <3> QED BY <1>3, <2>1, <3>1
  <2> QED BY <1>3, <2>1, ForecastCounts
<1> QED BY <1>2, <1>3 DEF DeliveriesCountOnce

(* No litre delivered is counted twice or lost between the tanks, and the  *)
(* two places that compute a rate count the same deliveries, for every     *)
(* number of tanks, readings and deliveries.                               *)
THEOREM DeliveriesCountCorrect == Spec => []DeliveriesCountOnce
<1> QED BY TypeCorrect, DeliveriesCounted, PTL

----------------------------------------------------------------------------
(* Balance.  The sums of the specification are folded, the function behind *)
(* each is a choice; it exists, so what is known of such functions is      *)
(* known of it.                                                            *)

LitresOf(rows, ds) == MapThenSumSet(LAMBDA d : rows[d].liters, ds)

Litre(rows, ds) == [d \in ds |-> rows[d].liters]

LEMMA LitresSum ==
    ASSUME NEW rows, NEW D, IsFiniteSet(D), Litre(rows, D) \in [D -> Int]
    PROVE  \E sum : SumsUp(sum, Litre(rows, D), D) /\ LitresOf(rows, D) = sum[D]
<1> DEFINE f == Litre(rows, D)
           Eqn(g) == g = [s \in SUBSET D |->
                            IF s = {} THEN 0
                            ELSE rows[CHOOSE x \in s : TRUE].liters + g[s \ {CHOOSE x \in s : TRUE}]]
<1>1. \A g : Folded(g, f, D) <=> Eqn(g)
  <2> SUFFICES ASSUME NEW g PROVE Folded(g, f, D) <=> Eqn(g)
    OBVIOUS
  <2>1. ASSUME NEW s \in SUBSET D
        PROVE  Folding(g, f, s) = IF s = {} THEN 0
                                  ELSE rows[CHOOSE x \in s : TRUE].liters + g[s \ {CHOOSE x \in s : TRUE}]
    <3>1. s # {} => Chosen(s) \in D /\ f[Chosen(s)] = rows[Chosen(s)].liters
      BY ChosenIn DEF Litre
    <3> QED BY <3>1 DEF Folding, Chosen
  <2> QED BY <2>1 DEF Folded
<1>2. PICK h : Eqn(h)
  <2>1. \E g : Folded(g, f, D)
    <3> HIDE DEF Eqn, f
    <3> QED BY FoldExists DEF f
  <2> HIDE DEF Eqn
  <2> QED BY <1>1, <2>1
<1> DEFINE sum == CHOOSE g : Eqn(g)
<1>3. LitresOf(rows, D) = sum[D]
  BY DEF LitresOf, MapThenSumSet, MapThenFoldSet
<1> HIDE DEF Eqn, f
<1>4. Eqn(sum)  BY <1>2
<1> HIDE DEF sum
<1>5. SumsUp(sum, f, D)  BY <1>1, <1>4, FoldSums DEF f
<1> QED BY <1>3, <1>5 DEF f

Used(v, t, S) == [s \in S |-> Consumption(v, t, s)]

LEMMA NetSum ==
    ASSUME NEW v, NEW t, NEW S, S = Known(v, t), IsFiniteSet(S), Used(v, t, S) \in [S -> Int]
    PROVE  \E sum : SumsUp(sum, Used(v, t, S), S) /\ Net(v, t) = sum[S]
<1> DEFINE f == Used(v, t, S)
<1>0. f \in [S -> Int] /\ \A s \in S : f[s] = Consumption(v, t, s)
  BY DEF Used
<1> HIDE DEF f
<1> DEFINE Eqn(g) == g = [s \in SUBSET S |->
                            IF s = {} THEN 0
                            ELSE Consumption(v, t, CHOOSE x \in s : TRUE) + g[s \ {CHOOSE x \in s : TRUE}]]
<1>1. \A g : Folded(g, f, S) <=> Eqn(g)
  <2> SUFFICES ASSUME NEW g PROVE Folded(g, f, S) <=> Eqn(g)
    OBVIOUS
  <2>1. ASSUME NEW s \in SUBSET S
        PROVE  Folding(g, f, s) = IF s = {} THEN 0
                                  ELSE Consumption(v, t, CHOOSE x \in s : TRUE) + g[s \ {CHOOSE x \in s : TRUE}]
    <3>1. s # {} => Chosen(s) \in S /\ f[Chosen(s)] = Consumption(v, t, Chosen(s))
      BY <1>0, ChosenIn
    <3> QED BY <3>1 DEF Folding, Chosen
  <2> QED BY <2>1 DEF Folded
<1>2. PICK h : Eqn(h)
  <2>1. \E g : Folded(g, f, S)  BY <1>0, FoldExists
  <2> HIDE DEF Eqn
  <2> QED BY <1>1, <2>1
<1> DEFINE sum == CHOOSE g : Eqn(g)
<1>3. Net(v, t) = sum[S]
  BY DEF Net, MapThenSumSet, MapThenFoldSet
<1> HIDE DEF Eqn
<1>4. Eqn(sum)  BY <1>2
<1> HIDE DEF sum
<1>5. SumsUp(sum, f, S)  BY <1>0, <1>1, <1>4, FoldSums
<1> QED BY <1>3, <1>5 DEF f

(* Without two readings at one time an interval is from a reading to the   *)
(* next.                                                                   *)
LEMMA IntervalsAreSteps ==
    ASSUME NEW v, v.readings \in [ReadingIds -> Reading \union {None}], NEW t,
           NEW P, P = Counting(v, t),
           \A i, j \in P : i # j => v.readings[i].at # v.readings[j].at,
           NEW at, at = [p \in P |-> v.readings[p].at]
    PROVE  /\ at \in [P -> Int]
           /\ \A p, q \in P : at[p] = at[q] => p = q
           /\ Intervals(v, t) = NextTo(at, P)
<1>1. \A p \in P : p \in ReadingIds /\ v.readings[p].at \in Int
  <2>1. Times \subseteq Int
    BY OilAssumption DEF OilAssumption
  <2>2. \A p \in P : p \in ReadingIds /\ v.readings[p] \in Reading
    BY DEF Counting
  <2> QED BY <2>1, <2>2 DEF Reading
<1>2. \A p, q \in P : Sooner(v, p, q) <=> at[p] < at[q]
  <2> SUFFICES ASSUME NEW p \in P, NEW q \in P PROVE Sooner(v, p, q) <=> at[p] < at[q]
    OBVIOUS
  <2>1. p \in Int /\ q \in Int /\ at[p] = v.readings[p].at /\ at[q] = v.readings[q].at
    BY <1>1 DEF ReadingIds
  <2>2. v.readings[p].at = v.readings[q].at => p = q
    OBVIOUS
  <2>3. ~(p < p)
    BY <2>1
  <2> QED BY <2>1, <2>2, <2>3 DEF Sooner
<1>3. \A p \in P : at[p] = v.readings[p].at
  OBVIOUS
<1>4. at \in [P -> Int]
  BY <1>1
<1>5. \A p, q \in P : at[p] = at[q] => p = q
  BY <1>3
<1>6. \A s \in P \X P :
        /\ v.readings[s[1]].at < v.readings[s[2]].at
        /\ ~\E k \in P : Sooner(v, s[1], k) /\ Sooner(v, k, s[2])
        <=> at[s[1]] < at[s[2]] /\ \A k \in P : ~(at[s[1]] < at[k] /\ at[k] < at[s[2]])
  <2> SUFFICES ASSUME NEW p \in P, NEW q \in P
               PROVE  v.readings[p].at < v.readings[q].at /\ (~\E k \in P : Sooner(v, p, k) /\ Sooner(v, k, q))
                      <=> at[p] < at[q] /\ \A k \in P : ~(at[p] < at[k] /\ at[k] < at[q])
    OBVIOUS
  <2> QED BY <1>2, <1>3
<1>7. Intervals(v, t) = NextTo(at, P)
  BY <1>6 DEF Intervals, NextTo
<1> QED BY <1>4, <1>5, <1>7

DeliveredTo(v, t) == UNION {DeliveredIn(v, t, s) : s \in Intervals(v, t)}

(* A tank whose readings P are all at different times, of whose intervals  *)
(* S none is unknown, and whose deliveries in them are D.                  *)
Settled(v, t, P, S, D) ==
    /\ v.readings \in [ReadingIds -> Reading \union {None}]
    /\ v.deliveries \in [DeliveryIds -> Delivery \union {None}]
    /\ P = Counting(v, t) /\ S = Intervals(v, t) /\ Known(v, t) = S
    /\ \A i, j \in P : i # j => v.readings[i].at # v.readings[j].at
    /\ D = DeliveredTo(v, t)

Between(v, P, first, last) ==
    \A k \in P : v.readings[first].at <= v.readings[k].at /\ v.readings[k].at <= v.readings[last].at

(* Every litre of a tank is delivered in one of its intervals, and every   *)
(* rise between two readings is part of the rise from first to last.       *)
LEMMA Balance ==
    ASSUME NEW v, NEW t, NEW P, NEW S, NEW D, Settled(v, t, P, S, D),
           NEW first \in P, NEW last \in P, Between(v, P, first, last)
    PROVE  /\ Net(v, t) >= LitresOf(v.deliveries, D) - (v.readings[last].value - v.readings[first].value)
           /\ D = {} => Net(v, t) = LitresOf(v.deliveries, D)
                                     - (v.readings[last].value - v.readings[first].value)
<1> DEFINE at    == [p \in P |-> v.readings[p].at]
           value == [p \in P |-> v.readings[p].value]
           rise  == Rises(value, S)
           liter == Litre(v.deliveries, D)
           piece == [s \in S |-> DeliveredIn(v, t, s)]
           cons  == Used(v, t, S)
<1>0. /\ \A s \in S : DeliveredIn(v, t, s) \in SUBSET D
      /\ \A d \in D : \E s \in S : d \in DeliveredIn(v, t, s)
      /\ D = Whole(piece, S)
  <2>1. D = UNION {DeliveredIn(v, t, s) : s \in S}
    BY DEF DeliveredTo, Settled
  <2> QED BY <2>1, Zenon DEF Whole
<1>1. /\ IsFiniteSet(P) /\ IsFiniteSet(S) /\ IsFiniteSet(D)
      /\ \A s \in S : s[1] \in P /\ s[2] \in P
  <2>1. IsFiniteSet(ReadingIds) /\ IsFiniteSet(DeliveryIds)
    <3>1. MaxReadings \in Int /\ MaxDeliveries \in Int /\ 1 \in Int
      BY OilAssumption DEF OilAssumption
    <3> QED BY <3>1, FS_Interval DEF ReadingIds, DeliveryIds
  <2>2. P \subseteq ReadingIds
    BY DEF Counting, Settled
  <2>3. D \subseteq DeliveryIds
    <3>1. DOMAIN v.deliveries = DeliveryIds
      BY DEF Settled
    <3>2. \A s \in S : DeliveredIn(v, t, s) \subseteq DeliveryIds
      BY <3>1 DEF DeliveredIn
    <3> QED BY <1>0, <3>2, Zenon
  <2>4. S \subseteq P \X P
    BY DEF Intervals, Settled
  <2>5. IsFiniteSet(P)
    BY <2>1, <2>2, FS_Subset
  <2>6. IsFiniteSet(P \X P)
    BY <2>5, FS_Product
  <2>7. IsFiniteSet(S)
    BY <2>4, <2>6, FS_Subset
  <2>8. IsFiniteSet(D)
    BY <2>1, <2>3, FS_Subset
  <2> QED BY <2>4, <2>5, <2>7, <2>8
<1>2. value \in [P -> Int]
  <2>1. \A p \in P : v.readings[p] \in Reading
    BY DEF Counting, Settled
  <2>2. Levels \subseteq Int
    BY OilAssumption DEF OilAssumption
  <2> QED BY <2>1, <2>2 DEF Reading
<1>3. liter \in [D -> Int] /\ \A d \in D : d \in DeliveryIds /\ v.deliveries[d].at \in Int
  <2>1. \A d \in D : d \in DeliveryIds /\ v.deliveries[d] \in Delivery
    BY <1>0 DEF DeliveredIn, Settled
  <2>2. Litres \subseteq Int /\ Times \subseteq Int
    BY OilAssumption DEF OilAssumption
  <2> QED BY <2>1, <2>2 DEF Delivery, Litre
<1>4. piece \in [S -> SUBSET D]
  BY <1>0
<1>5. Apart(piece, S)
  <2> SUFFICES ASSUME NEW s \in S, NEW r \in S, NEW d, d \in DeliveredIn(v, t, s), d \in DeliveredIn(v, t, r)
               PROVE  s = r
    BY Zenon DEF Apart
  <2>1. Covers(v, s, v.deliveries[d].at) /\ Covers(v, r, v.deliveries[d].at)
    BY DEF DeliveredIn
  <2>2. d \in D
    BY <1>0
  <2>3. s \in Intervals(v, t) /\ r \in Intervals(v, t)
    BY DEF Settled
  <2>4. v.readings \in [ReadingIds -> Reading \union {None}] /\ v.deliveries[d].at \in Int
    BY <1>3, <2>2 DEF Settled
  <2> QED BY <2>1, <2>3, <2>4, IntervalsApart
<1>6. PICK all : SumsUp(all, liter, D) /\ LitresOf(v.deliveries, D) = all[D]
  <2> HIDE DEF at, value, rise, piece, cons
  <2>1. IsFiniteSet(D) /\ Litre(v.deliveries, D) \in [D -> Int]
    BY <1>1, <1>3
  <2>2. \E sum : SumsUp(sum, Litre(v.deliveries, D), D) /\ LitresOf(v.deliveries, D) = sum[D]
    BY <2>1, LitresSum, Zenon
  <2> QED BY <2>2
<1> DEFINE part == InPieces(all, piece, S)
<1>7. part \in [S -> Int]
  <2> HIDE DEF piece
  <2> QED BY <1>4, <1>6 DEF SumsUp, InPieces
<1>8. \A s \in S : Delivered(v, t, s) = part[s]
  <2> SUFFICES ASSUME NEW s \in S PROVE Delivered(v, t, s) = all[piece[s]]
    BY DEF InPieces
  <2> DEFINE E == DeliveredIn(v, t, s)
             own == Litre(v.deliveries, E)
  <2>1. E \subseteq D /\ IsFiniteSet(E) /\ piece[s] = E
    <3>1. E \in SUBSET D  BY <1>4
    <3> QED BY <1>1, <3>1, FS_Subset
  <2>2. own \in [E -> Int] /\ \A d \in E : own[d] = liter[d]
    BY <1>3, <2>1 DEF Litre
  <2>3. Delivered(v, t, s) = LitresOf(v.deliveries, E)
    BY DEF Delivered, LitresOf
  <2> HIDE DEF E
  <2>4. PICK sum : SumsUp(sum, own, E) /\ LitresOf(v.deliveries, E) = sum[E]
    <3> HIDE DEF liter, piece, at, value, rise, cons, part
    <3> QED BY <2>1, <2>2, LitresSum
  <2> HIDE DEF own, liter, piece
  <2>5. sum[E] = all[E]
    BY <1>1, <1>3, <1>6, <2>1, <2>2, <2>4, SumsAgree
  <2> QED BY <2>1, <2>3, <2>4, <2>5
<1>9. rise \in [S -> Int] /\ \A s \in S : Rise(v, s) = rise[s]
  <2>1. \A s \in S : value[s[1]] \in Int /\ value[s[2]] \in Int
    BY <1>1, <1>2
  <2>2. rise \in [S -> Int]
    <3> HIDE DEF value
    <3> QED BY <2>1 DEF Rises
  <2> QED BY <1>1, <2>2 DEF Rise, Rises
<1>10. /\ cons \in [S -> Int] /\ \A s \in S : cons[s] >= part[s] - rise[s]
       /\ D = {} => \A s \in S : cons[s] = part[s] - rise[s]
  <2> SUFFICES ASSUME NEW s \in S
               PROVE  /\ Consumption(v, t, s) \in Int /\ Consumption(v, t, s) >= part[s] - rise[s]
                      /\ D = {} => Consumption(v, t, s) = part[s] - rise[s]
    BY DEF Used
  <2>1. D = {} => DeliveredIn(v, t, s) = {}
    BY <1>0
  <2>2. part[s] \in Int /\ rise[s] \in Int
    BY <1>7, <1>9
  <2>3. Delivered(v, t, s) = part[s] /\ Rise(v, s) = rise[s]
    BY <1>8, <1>9
  <2> HIDE DEF part, rise
  <2> QED BY <2>1, <2>2, <2>3 DEF Consumption
<1> HIDE DEF part, rise, cons, liter, piece
<1>11. PICK sums : SumsUp(sums, part, S)
  BY <1>1, <1>7, FoldExists, FoldSums
<1>12. PICK rises : SumsUp(rises, rise, S)
  BY <1>1, <1>9, FoldExists, FoldSums
<1>13. PICK net : SumsUp(net, cons, S) /\ Net(v, t) = net[S]
  <2>1. S = Known(v, t)
    BY DEF Settled
  <2> QED BY <1>1, <1>10, <2>1, NetSum DEF cons
<1>14. net[S] >= sums[S] - rises[S] /\ (D = {} => net[S] = sums[S] - rises[S])
  BY <1>1, <1>7, <1>9, <1>10, <1>11, <1>12, <1>13, SumsCompare
<1>15. sums[S] = all[D]
  <2>1. D = Whole(piece, S)
    BY <1>0
  <2> HIDE DEF at, value
  <2>2. SumsUp(sums, InPieces(all, piece, S), S)
    BY <1>11 DEF part
  <2>3. liter \in [D -> Int] /\ SumsUp(all, liter, D) /\ IsFiniteSet(D) /\ IsFiniteSet(S)
    BY <1>1, <1>3, <1>6
  <2>4. piece \in [S -> SUBSET D] /\ Apart(piece, S)
    BY <1>4, <1>5
  <2>5. sums[S] = all[Whole(piece, S)]
    BY <2>2, <2>3, <2>4, SumOfPieces, SMTT(60)
  <2> QED BY <2>1, <2>5
<1>16. rises[S] = value[last] - value[first]
  <2>1. at \in [P -> Int] /\ (\A p, q \in P : at[p] = at[q] => p = q) /\ S = NextTo(at, P)
    <3>1. at = [p \in P |-> v.readings[p].at]
      OBVIOUS
    <3> HIDE DEF value, at
    <3>2. /\ v.readings \in [ReadingIds -> Reading \union {None}]
          /\ P = Counting(v, t) /\ S = Intervals(v, t)
          /\ \A i, j \in P : i # j => v.readings[i].at # v.readings[j].at
      BY DEF Settled
    <3> QED BY <3>1, <3>2, IntervalsAreSteps
  <2>2. \A k \in P : at[first] <= at[k] /\ at[k] <= at[last]
    BY DEF Between
  <2> HIDE DEF at, value
  <2>3. SumsUp(rises, Rises(value, S), S)
    BY <1>12 DEF rise
  <2> QED BY <1>1, <1>2, <2>1, <2>2, <2>3, Telescope
<1>17. value[last] = v.readings[last].value /\ value[first] = v.readings[first].value
  OBVIOUS
<1> HIDE DEF value, at
<1> QED BY <1>6, <1>13, <1>14, <1>15, <1>16, <1>17

LEMMA BalanceHolds == TypeOK => BalanceTelescopes
<1> SUFFICES ASSUME TypeOK PROVE BalanceTelescopes
  OBVIOUS
<1> DEFINE v == Dashboard
<1>1. /\ v.readings = reading /\ v.deliveries = deliveries
      /\ reading \in [ReadingIds -> Reading \union {None}]
      /\ deliveries \in [DeliveryIds -> Delivery \union {None}]
  BY DEF Dashboard, LoadOilResults, TypeOK
<1> HIDE DEF v
<1> SUFFICES ASSUME NEW t \in active, NEW P, NEW S, NEW D, Settled(v, t, P, S, D),
                    NEW first \in P, NEW last \in P, Between(v, P, first, last)
             PROVE  IF D = {} THEN Net(v, t) = LitresOf(v.deliveries, D) - Rise(v, <<first, last>>)
                              ELSE Net(v, t) >= LitresOf(v.deliveries, D) - Rise(v, <<first, last>>)
  <2> SUFFICES ASSUME NEW t \in active, Known(v, t) = Intervals(v, t),
                      \A i, j \in Counting(v, t) : i # j => reading[i].at # reading[j].at,
                      NEW first \in Counting(v, t), NEW last \in Counting(v, t),
                      \A k \in Counting(v, t) : reading[first].at <= reading[k].at
                                                 /\ reading[k].at <= reading[last].at
               PROVE  IF DeliveredTo(v, t) = {}
                      THEN Net(v, t) = LitresOf(deliveries, DeliveredTo(v, t)) - Rise(v, <<first, last>>)
                      ELSE Net(v, t) >= LitresOf(deliveries, DeliveredTo(v, t)) - Rise(v, <<first, last>>)
    BY Zenon DEF BalanceTelescopes, v, LitresOf, DeliveredTo
  <2>1. Settled(v, t, Counting(v, t), Intervals(v, t), DeliveredTo(v, t))
    BY <1>1 DEF Settled
  <2>2. Between(v, Counting(v, t), first, last)
    BY <1>1 DEF Between
  <2> QED BY <1>1, <2>1, <2>2
<1>3. /\ Net(v, t) >= LitresOf(v.deliveries, D) - (v.readings[last].value - v.readings[first].value)
      /\ D = {} => Net(v, t) = LitresOf(v.deliveries, D)
                                - (v.readings[last].value - v.readings[first].value)
  BY Balance
<1>4. Rise(v, <<first, last>>) = v.readings[last].value - v.readings[first].value
  BY DEF Rise
<1> QED BY <1>1, <1>3, <1>4

(* What a tank used is its first level less its last plus what was         *)
(* delivered, or more where a delivery smaller than the rise was clamped,  *)
(* for every number of readings and deliveries.                            *)
THEOREM BalanceCorrect == Spec => []BalanceTelescopes
<1> QED BY TypeCorrect, BalanceHolds, PTL
=============================================================================
