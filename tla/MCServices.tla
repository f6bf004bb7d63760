----------------------------- MODULE MCServices ----------------------------
(***************************************************************************)
(* A small instance of Services.                                           *)
(***************************************************************************)
EXTENDS Services, TLC

----------------------------------------------------------------------------
(* Prices: a quarter of a "year" is seasonal; two recorded days and today. *)
Price(d, p) == [day |-> d, price |-> p]

MCRecorded == {{Price(1, p), Price(4, q)} : p \in {40, 60}, q \in {50, 60}} \union {{}}

(* Readings of two meters: a bucket of each tier, a pair that moves from   *)
(* one tier to the next, with and without evidence.                        *)
Kept(m, at, v, s, n) == [meter |-> m, at |-> at, value |-> v, source |-> s, note |-> n]

MCOld   == -6
Buckets421 == <<4, 2, 1>>

MCStoredReadings ==
    {<<Kept(1, 0, 10, "auto", FALSE), Kept(1, 3, 11, a, n), Kept(1, 5, 13, b, FALSE),
       Kept(1, 6, 18, "auto", FALSE), Kept(m, 7, 20, "auto", FALSE)>> :
        a \in {"manual", "auto"}, b \in {"auto", "archived"}, n \in BOOLEAN, m \in {1, 2}}
    \union {<<>>}

----------------------------------------------------------------------------
(* Serials over {1, 2, 3}, one edit forgiven from length 2, two from 4.    *)
MCSerials ==
    UNION {[1..n -> {1, 2}] : n \in 1..2}
    \union {<<1, 2, 1>>, <<1, 1, 1>>, <<2, 1, 1, 2>>, <<3, 3>>, <<1, 2, 1, 1>>}

Digits(d, f) == [digits |-> d, frac |-> f]

MCAnswers == {None, Digits("two", 1), Digits("three", 0), Digits("four", 1), Digits("six", 0)}

MCSerialAnswers == MCSerials \union {None}

MCCount == [two |-> 2, three |-> 3, four |-> 4, six |-> 6]

MCSameAsSerial == [s \in MCSerials |-> IF s = <<1, 2, 1>> THEN "six" ELSE "other"]

MCDecimals == [electricity |-> 1, water |-> 3, oil |-> 0]

MCMeters == <<[id |-> "m1", serial |-> <<1, 2, 1, 1>>, type |-> "water"],
              [id |-> "m2", serial |-> <<2, 2>>, type |-> "oil"],
              [id |-> "m3", serial |-> <<2, 2>>, type |-> "electricity"]>>

Requested(asks, types, currents) ==
    [kind : {asks}, engine : {"auto", "ocr", "llm"}, llm : {"none", "ollama", "gateway"}, ocr : BOOLEAN,
     type : types, last : BOOLEAN, crop : BOOLEAN, current : currents]

MCAsked ==
    {r \in Requested("scan", {"water", None}, {None}) \union Requested("rescan", {"electricity"}, {None})
           \union Requested("bulk", {None}, {None}) \union Requested("hint", {"water", "oil"}, MCAnswers) :
       /\ r.type = None => r.last = (r.kind = "bulk")
       /\ r.kind \in {"bulk", "hint"} => ~r.crop}

----------------------------------------------------------------------------
(* Photos that are small, wide, high and too large; texts of a display, of *)
(* a serial number and of neither.                                         *)
Photo(w, h, supported) == [width |-> w, height |-> h, supported |-> supported]

MCImages == {Photo(30, 12, TRUE), Photo(1, 40, TRUE), Photo(60, 9, TRUE), Photo(30, 12, FALSE)}

Text(n, conf, digits, chars, dots, height) ==
    [name |-> n, conf |-> conf, digits |-> digits, alike |-> 1, chars |-> chars, gaps |-> 1,
     alnum |-> digits + 1, dots |-> dots, height |-> height]

MCResults == {<<>>, <<Text("serial", 900, 9, 11, 0, "small"), Text("display", 500, 5, 7, 1, "large")>>}

MCSerialResults == {<<>>, <<Text("label", 900, 1, 9, 0, "large"), Text("serial", 300, 5, 7, 0, "small")>>}

----------------------------------------------------------------------------
(* Years of two months, uneven and with a leap year.  One meter has a      *)
(* series of its own, the other an early reading, or one that falls.       *)
MCMonthStart == <<0, 3, 5, 8, 11, 14, 16, 19>>

Counted(m, at, v) == [meter |-> m, at |-> at, value |-> v]

MCStoredCounts ==
    {<<Counted(1, a, 0), Counted(1, b, 2), Counted(2, c, 1)>> :
        a \in {1, 6}, b \in {8, 10}, c \in {0, 8}} \union {<<>>}

MCPriceEntries == {[from |-> 5, price |-> 2], [from |-> 11, price |-> 3]}

Symmetry == Permutations(Photos) \union Permutations(ReviewMeters)
=============================================================================
