------------------------- MODULE BulkImportProofs -------------------------
(***************************************************************************)
(* Proofs about BulkImport, for any files and selections of them and any   *)
(* limits of a batch: what buildBatches makes of every selection, and the  *)
(* safety invariants of the import.                                        *)
(*                                                                         *)
(* Induction over data: a set of numbers that holds 0 and with every       *)
(* number the next one holds all, because the set of those it misses would *)
(* have a least element.                                                   *)
(***************************************************************************)
EXTENDS BulkImport, FiniteLemmas, SequenceTheorems, TLAPS

(* A function that is defined from its value one before exists. *)
Steps(step, N, S) == step \in [1..N -> [S -> S]]

Follows(f, step, base, N, S) ==
    f \in [0..N -> S] /\ f[0] = base /\ \A n \in 1..N : f[n] = step[n][f[n - 1]]

LEMMA Recursion ==
    ASSUME NEW S, NEW base \in S, NEW N \in Nat, NEW step, Steps(step, N, S)
    PROVE  \E f : Follows(f, step, base, N, S)
<1> USE DEF Steps
<1> DEFINE Eqn(f, m) == f[0] = base /\ \A n \in 1..m : f[n] = step[n][f[n - 1]]
           G == {m \in 0..N : \E f \in [0..m -> S] : Eqn(f, m)}
<1>1. 0 \in G
  <2>1. [n \in 0..0 |-> base] \in [0..0 -> S]  OBVIOUS
  <2>2. Eqn([n \in 0..0 |-> base], 0)  OBVIOUS
  <2>3. 0 \in 0..N  OBVIOUS
  <2> HIDE DEF Eqn
  <2> QED  BY <2>1, <2>2, <2>3
<1>2. ASSUME NEW m \in 1..N, m - 1 \in G
      PROVE  m \in G
  <2>1. PICK f \in [0..(m - 1) -> S] : Eqn(f, m - 1)  BY <1>2
  <2> DEFINE g == [n \in 0..m |-> IF n = m THEN step[m][f[m - 1]] ELSE f[n]]
  <2>2. step[m][f[m - 1]] \in S
    <3>1. f[m - 1] \in S  OBVIOUS
    <3> QED  BY <3>1
  <2>3. g \in [0..m -> S]  BY <2>2
  <2>4. ASSUME NEW n \in 1..m PROVE g[n] = step[n][g[n - 1]]
    <3>1. n - 1 \in 0..m /\ n - 1 # m  OBVIOUS
    <3>2. g[n - 1] = f[n - 1]  BY <3>1
    <3>3. n # m => n \in 1..(m - 1)  OBVIOUS
    <3> QED  BY <2>1, <3>2, <3>3
  <2>5. Eqn(g, m)
    <3>1. g[0] = f[0]  OBVIOUS
    <3> QED  BY <2>1, <2>4, <3>1
  <2>6. m \in 0..N  OBVIOUS
  <2> HIDE DEF Eqn, g
  <2> QED  BY <2>3, <2>5, <2>6
<1>3. N \in G
  <2> HIDE DEF G
  <2>1. 0..N \subseteq G  BY <1>1, <1>2, Induction
  <2> QED  BY <2>1
<1> QED  BY <1>3 DEF Follows

----------------------------------------------------------------------------
(* The bytes of a batch. *)
SumOf(b) == CHOOSE sum : sum = [n \in 0..Len(b) |-> IF n = 0 THEN 0 ELSE sum[n - 1] + SizeOf[b[n]]]

LEMMA SumEquation ==
    ASSUME NEW b \in Seq(Files), SizeOf \in [Files -> Nat]
    PROVE  /\ Bytes(b) = SumOf(b)[Len(b)]
           /\ SumOf(b)[0] = 0
           /\ \A n \in 1..Len(b) : SumOf(b)[n] = SumOf(b)[n - 1] + SizeOf[b[n]]
<1> DEFINE step == [n \in 1..Len(b) |-> [s \in Nat |-> s + SizeOf[b[n]]]]
           Eqn(f) == f = [n \in 0..Len(b) |-> IF n = 0 THEN 0 ELSE f[n - 1] + SizeOf[b[n]]]
<1>1. Len(b) \in Nat /\ \A n \in 1..Len(b) : SizeOf[b[n]] \in Nat
  OBVIOUS
<1>2. Steps(step, Len(b), Nat)
  BY <1>1 DEF Steps
<1>3. PICK f : Follows(f, step, 0, Len(b), Nat)
  <2> HIDE DEF step
  <2> QED  BY <1>1, <1>2, 0 \in Nat, Recursion
<1>4. ASSUME NEW n \in 1..Len(b) PROVE step[n][f[n - 1]] = f[n - 1] + SizeOf[b[n]]
  <2>1. n - 1 \in 0..Len(b)  BY <1>1
  <2>2. f[n - 1] \in Nat  BY <1>3, <2>1 DEF Follows
  <2> QED  BY <2>2
<1>5. Eqn(f)
  <2> HIDE DEF step
  <2>1. ASSUME NEW n \in 0..Len(b)
        PROVE  f[n] = IF n = 0 THEN 0 ELSE f[n - 1] + SizeOf[b[n]]
    <3>1. n # 0 => n \in 1..Len(b)  BY <1>1
    <3> QED  BY <1>3, <1>4, <3>1 DEF Follows
  <2>2. f \in [0..Len(b) -> Nat]  BY <1>3 DEF Follows
  <2> QED  BY <2>1, <2>2
<1>6. SumOf(b) = CHOOSE g : Eqn(g)
  BY DEF SumOf
<1>7. Eqn(SumOf(b))
  <2> HIDE DEF Eqn
  <2> QED  BY <1>5, <1>6
<1>8. Bytes(b) = SumOf(b)[Len(b)]
  BY DEF Bytes, SumOf
<1>9. \A n \in 0..Len(b) : SumOf(b)[n] = IF n = 0 THEN 0 ELSE SumOf(b)[n - 1] + SizeOf[b[n]]
  BY <1>7
<1> QED  BY <1>1, <1>8, <1>9

LEMMA BytesAdd ==
    ASSUME NEW b \in Seq(Files), NEW f \in Files, SizeOf \in [Files -> Nat]
    PROVE  /\ Bytes(b) \in Nat
           /\ Bytes(Append(b, f)) = Bytes(b) + SizeOf[f]
<1> DEFINE c == Append(b, f)
<1>0. /\ c \in Seq(Files) /\ Len(b) \in Nat /\ Len(c) = Len(b) + 1 /\ c[Len(c)] = f
      /\ \A n \in 1..Len(b) : c[n] = b[n] /\ b[n] \in Files
  BY AppendProperties
<1> HIDE DEF c
<1>1. SumOf(b)[0] = 0 /\ \A n \in 1..Len(b) : SumOf(b)[n] = SumOf(b)[n - 1] + SizeOf[b[n]]
  BY SumEquation
<1>2. SumOf(c)[0] = 0 /\ \A n \in 1..Len(c) : SumOf(c)[n] = SumOf(c)[n - 1] + SizeOf[c[n]]
  BY <1>0, SumEquation
<1> DEFINE G == {n \in 0..Len(b) : SumOf(b)[n] \in Nat /\ SumOf(c)[n] = SumOf(b)[n]}
<1>3. 0 \in G
  BY <1>0, <1>1, <1>2
<1>4. ASSUME NEW n \in 1..Len(b), n - 1 \in G PROVE n \in G
  <2>1. n \in 1..Len(c) /\ c[n] = b[n] /\ SizeOf[b[n]] \in Nat  BY <1>0
  <2>2. n \in 0..Len(b) /\ n - 1 \in 0..Len(b)  BY <1>0
  <2>3. SumOf(b)[n - 1] \in Nat /\ SumOf(c)[n - 1] = SumOf(b)[n - 1]  BY <1>4
  <2>4. SumOf(b)[n] = SumOf(b)[n - 1] + SizeOf[b[n]]  BY <1>1
  <2>5. SumOf(c)[n] = SumOf(c)[n - 1] + SizeOf[b[n]]  BY <1>2, <2>1
  <2>6. SumOf(b)[n] \in Nat /\ SumOf(c)[n] = SumOf(b)[n]  BY <2>1, <2>3, <2>4, <2>5
  <2> QED  BY <2>2, <2>6
<1>5. Len(b) \in G
  <2> HIDE DEF G
  <2>1. 0..Len(b) \subseteq G  BY <1>0, <1>3, <1>4, Induction
  <2>2. Len(b) \in Nat  BY <1>0
  <2>3. Len(b) \in 0..Len(b)  BY <2>2
  <2> QED  BY <2>1, <2>3
<1>6. SumOf(c)[Len(c)] = SumOf(b)[Len(b)] + SizeOf[f]
  <2>1. Len(c) \in 1..Len(c) /\ Len(c) - 1 = Len(b)  BY <1>0
  <2> QED  BY <1>0, <1>2, <1>5, <2>1
<1>7. Bytes(b) = SumOf(b)[Len(b)] /\ Bytes(c) = SumOf(c)[Len(c)]
  BY <1>0, SumEquation
<1> QED  BY <1>5, <1>6, <1>7 DEF c

----------------------------------------------------------------------------
(* The files of the batches, one after the other. *)
JoinedOf(bs) ==
    CHOOSE flatten : flatten = [i \in 1..Len(bs) |-> IF i = 1 THEN bs[i] ELSE flatten[i - 1] \o bs[i]]

LEMMA FlattenEquation ==
    ASSUME NEW bs \in Seq(Seq(Files)), bs # <<>>
    PROVE  /\ FlattenSeq(bs) = JoinedOf(bs)[Len(bs)]
           /\ JoinedOf(bs)[1] = bs[1]
           /\ \A i \in 2..Len(bs) : JoinedOf(bs)[i] = JoinedOf(bs)[i - 1] \o bs[i]
<1> DEFINE step == [n \in 1..Len(bs) |-> [s \in Seq(Files) |-> IF n = 1 THEN bs[n] ELSE s \o bs[n]]]
           Eqn(f) == f = [i \in 1..Len(bs) |-> IF i = 1 THEN bs[i] ELSE f[i - 1] \o bs[i]]
<1>1. Len(bs) \in Nat \ {0} /\ \A n \in 1..Len(bs) : bs[n] \in Seq(Files)
  OBVIOUS
<1>2. Steps(step, Len(bs), Seq(Files))
  <2>1. \A n \in 1..Len(bs), s \in Seq(Files) : s \o bs[n] \in Seq(Files)
    BY <1>1, ConcatProperties
  <2> QED  BY <1>1, <2>1 DEF Steps
<1>3. PICK f : Follows(f, step, <<>>, Len(bs), Seq(Files))
  <2>1. <<>> \in Seq(Files)  OBVIOUS
  <2> HIDE DEF step
  <2> QED  BY <1>1, <1>2, <2>1, Recursion
<1>4. ASSUME NEW i \in 1..Len(bs)
      PROVE  f[i] = IF i = 1 THEN bs[i] ELSE f[i - 1] \o bs[i]
  <2>1. i - 1 \in 0..Len(bs)  BY <1>1
  <2>2. f[i - 1] \in Seq(Files)  BY <1>3, <2>1 DEF Follows
  <2>3. step[i][f[i - 1]] = IF i = 1 THEN bs[i] ELSE f[i - 1] \o bs[i]  BY <2>2
  <2> HIDE DEF step
  <2> QED  BY <1>3, <2>3 DEF Follows
<1> DEFINE g == [i \in 1..Len(bs) |-> f[i]]
<1>5. Eqn(g)
  <2>1. ASSUME NEW i \in 1..Len(bs)
        PROVE  g[i] = IF i = 1 THEN bs[i] ELSE g[i - 1] \o bs[i]
    <3>1. i # 1 => i - 1 \in 1..Len(bs)  BY <1>1
    <3> QED  BY <1>4, <3>1
  <2> QED  BY <2>1
<1>6. JoinedOf(bs) = CHOOSE h : Eqn(h)
  BY DEF JoinedOf
<1>7. Eqn(JoinedOf(bs))
  <2> HIDE DEF Eqn
  <2> QED  BY <1>5, <1>6
<1>8. FlattenSeq(bs) = JoinedOf(bs)[Len(bs)]
  BY <1>1 DEF FlattenSeq, JoinedOf
<1>9. \A i \in 1..Len(bs) : JoinedOf(bs)[i] = IF i = 1 THEN bs[i] ELSE JoinedOf(bs)[i - 1] \o bs[i]
  BY <1>7
<1>10. JoinedOf(bs)[1] = bs[1]
  <2>1. 1 \in 1..Len(bs)  BY <1>1
  <2> QED  BY <1>9, <2>1
<1>11. ASSUME NEW i \in 2..Len(bs) PROVE JoinedOf(bs)[i] = JoinedOf(bs)[i - 1] \o bs[i]
  <2>1. i \in 1..Len(bs) /\ i # 1  BY <1>1
  <2> QED  BY <1>9, <2>1
<1> QED  BY <1>8, <1>10, <1>11

LEMMA FlattenAdd ==
    ASSUME NEW bs \in Seq(Seq(Files)), NEW x \in Seq(Files)
    PROVE  /\ FlattenSeq(bs) \in Seq(Files)
           /\ FlattenSeq(Append(bs, x)) = FlattenSeq(bs) \o x
<1> DEFINE cs == Append(bs, x)
<1>1. /\ cs \in Seq(Seq(Files)) /\ cs # <<>> /\ Len(bs) \in Nat /\ Len(cs) = Len(bs) + 1
      /\ cs[Len(cs)] = x
      /\ \A n \in 1..Len(bs) : cs[n] = bs[n] /\ bs[n] \in Seq(Files)
  BY AppendProperties
<1> HIDE DEF cs
<1>2. /\ FlattenSeq(cs) = JoinedOf(cs)[Len(cs)]
      /\ JoinedOf(cs)[1] = cs[1]
      /\ \A i \in 2..Len(cs) : JoinedOf(cs)[i] = JoinedOf(cs)[i - 1] \o cs[i]
  BY <1>1, FlattenEquation
<1>3. CASE bs = <<>>
  <2>1. FlattenSeq(bs) = <<>>  BY <1>3 DEF FlattenSeq
  <2>2. Len(cs) = 1 /\ cs[1] = x  BY <1>1, <1>3
  <2>3. <<>> \o x = x  BY ConcatEmptySeq
  <2>4. <<>> \in Seq(Files)  OBVIOUS
  <2> QED  BY <1>2, <2>1, <2>2, <2>3, <2>4 DEF cs
<1>4. CASE bs # <<>>
  <2>1. /\ FlattenSeq(bs) = JoinedOf(bs)[Len(bs)]
        /\ JoinedOf(bs)[1] = bs[1]
        /\ \A i \in 2..Len(bs) : JoinedOf(bs)[i] = JoinedOf(bs)[i - 1] \o bs[i]
    BY <1>4, FlattenEquation
  <2>2. Len(bs) \in Nat \ {0}  BY <1>4
  <2> DEFINE Same(i) == JoinedOf(bs)[i] \in Seq(Files) /\ JoinedOf(cs)[i] = JoinedOf(bs)[i]
             G == {n \in 0..Len(bs) : n = 0 \/ Same(n)}
  <2>3. 0 \in G  BY <1>1
  <2>4. ASSUME NEW n \in 1..Len(bs), n - 1 \in G PROVE n \in G
    <3>1. CASE n = 1  BY <1>1, <1>2, <2>1, <3>1
    <3>2. CASE n # 1
      <4>1. n \in 2..Len(bs) /\ n \in 2..Len(cs) /\ n - 1 # 0  BY <1>1, <3>2
      <4>2. Same(n - 1)  BY <2>4, <4>1
      <4>3. JoinedOf(bs)[n - 1] \o bs[n] \in Seq(Files)  BY <1>1, <4>2, ConcatProperties
      <4>4. Same(n)  BY <1>1, <1>2, <2>1, <4>1, <4>2, <4>3
      <4> QED  BY <4>4
    <3> QED  BY <3>1, <3>2
  <2>5. Same(Len(bs))
    <3>1. Len(bs) \in 0..Len(bs) /\ Len(bs) # 0  BY <2>2
    <3>2. Len(bs) \in G
      <4> HIDE DEF G
      <4>1. 0..Len(bs) \subseteq G  BY <1>1, <2>3, <2>4, Induction
      <4> QED  BY <3>1, <4>1
    <3> HIDE DEF Same
    <3> QED  BY <3>1, <3>2
  <2>6. Len(cs) \in 2..Len(cs) /\ Len(cs) - 1 = Len(bs)  BY <1>1, <2>2
  <2> QED  BY <1>1, <1>2, <2>1, <2>5, <2>6 DEF cs
<1> QED  BY <1>3, <1>4

----------------------------------------------------------------------------
(* buildBatches. *)
Batch(b) ==
    /\ b \in Seq(Files) /\ b # <<>> /\ IsInjective(b)
    /\ Len(b) <= MaxBatchFiles
    /\ Bytes(b) <= MaxBatchBytes \/ Len(b) = 1

(* What the loop has made of the first n files. *)
Packed(bs, n, files) ==
    /\ bs \in Seq(Seq(Files)) /\ Len(bs) <= n /\ (n # 0 => bs # <<>>)
    /\ \A i \in 1..Len(bs) : Batch(bs[i]) /\ ToSet(bs[i]) \subseteq {files[j] : j \in 1..n}
    /\ \A i, j \in 1..Len(bs) : i # j => ToSet(bs[i]) \intersect ToSet(bs[j]) = {}
    /\ \A i \in 1..(Len(bs) - 1) : Overfull(bs[i], bs[i + 1][1])
    /\ FlattenSeq(bs) = SubSeq(files, 1, n)

LEMMA BatchStarted ==
    ASSUME ImportAssumption, NEW f \in Files
    PROVE  Batch(<<f>>) /\ ToSet(<<f>>) = {f}
<1>1. ToSet(<<f>>) = {f}
  BY DEF ToSet
<1> QED  BY <1>1 DEF ImportAssumption, Batch, IsInjective

LEMMA BatchExtended ==
    ASSUME ImportAssumption, NEW b, Batch(b), NEW f \in Files, f \notin ToSet(b), ~Overfull(b, f)
    PROVE  /\ Batch(Append(b, f)) /\ ToSet(Append(b, f)) = ToSet(b) \union {f}
           /\ Append(b, f)[1] = b[1]
<1> DEFINE c == Append(b, f)
<1>1. b \in Seq(Files) /\ Len(b) \in Nat \ {0}
  BY DEF Batch
<1>2. /\ c \in Seq(Files) /\ c # <<>> /\ Len(c) = Len(b) + 1 /\ c[Len(c)] = f
      /\ \A n \in 1..Len(b) : c[n] = b[n]
  BY <1>1, AppendProperties
<1>3. Bytes(b) \in Nat /\ Bytes(c) = Bytes(b) + SizeOf[f]
  BY <1>1, BytesAdd DEF ImportAssumption
<1> HIDE DEF c
<1>4. DOMAIN b = 1..Len(b) /\ DOMAIN c = 1..Len(c)
  BY <1>1, <1>2
<1>5. ToSet(c) = ToSet(b) \union {f}
  <2>1. ASSUME NEW i \in 1..Len(c) PROVE c[i] \in ToSet(b) \union {f}
    <3>1. i \in 1..Len(b) \/ i = Len(c)  BY <1>1, <1>2
    <3> QED  BY <1>2, <1>4, <3>1 DEF ToSet
  <2>2. ASSUME NEW i \in 1..Len(b) PROVE b[i] \in ToSet(c)
    <3>1. i \in 1..Len(c) /\ c[i] = b[i]  BY <1>1, <1>2
    <3> QED  BY <1>4, <3>1 DEF ToSet
  <2>3. f \in ToSet(c)
    <3>1. Len(c) \in 1..Len(c)  BY <1>1, <1>2
    <3> QED  BY <1>2, <1>4, <3>1 DEF ToSet
  <2> QED  BY <1>4, <2>1, <2>2, <2>3 DEF ToSet
<1>6. IsInjective(c)
  <2>1. SUFFICES ASSUME NEW i \in 1..Len(c), NEW j \in 1..Len(c), c[i] = c[j], i < j PROVE FALSE
    <3>1. Len(c) \in Nat  BY <1>1, <1>2
    <3>2. \A i, j \in 1..Len(c) : i < j \/ j < i \/ i = j  BY <3>1
    <3> QED  BY <1>4, <3>2 DEF IsInjective
  <2>2. i \in 1..Len(b) /\ (j \in 1..Len(b) \/ j = Len(c))
    <3>1. \A m \in Nat : \A p, q \in 1..(m + 1) : p < q => p \in 1..m /\ (q \in 1..m \/ q = m + 1)
      OBVIOUS
    <3>2. Len(b) \in Nat /\ Len(c) = Len(b) + 1  BY SMTT(30), <1>1, <1>2
    <3> QED  BY <2>1, <3>1, <3>2
  <2>3. CASE j \in 1..Len(b)
    <3>1. b[i] = b[j] /\ i # j  BY SMTT(30), <1>2, <2>1, <2>2, <2>3
    <3> QED  BY <1>4, <2>2, <2>3, <3>1 DEF Batch, IsInjective
  <2>4. CASE j = Len(c)
    <3>1. b[i] = f  BY <1>2, <2>1, <2>2, <2>4
    <3> QED  BY <1>4, <2>2, <3>1 DEF ToSet
  <2> QED  BY <2>2, <2>3, <2>4
<1>7. Len(c) <= MaxBatchFiles /\ Bytes(c) <= MaxBatchBytes
  <2>1. SizeOf[f] \in Nat /\ MaxBatchBytes \in Nat /\ MaxBatchFiles \in Nat  BY DEF ImportAssumption
  <2> QED  BY <1>1, <1>2, <1>3, <2>1 DEF Overfull
<1>8. c[1] = b[1]
  BY <1>1, <1>2
<1> QED  BY <1>2, <1>5, <1>6, <1>7, <1>8 DEF Batch, c

LEMMA LastReplaced ==
    ASSUME NEW T, NEW bs \in Seq(T), bs # <<>>, NEW x \in T
    PROVE  /\ Front(bs) \in Seq(T) /\ bs = Append(Front(bs), Last(bs))
           /\ Append(Front(bs), x) \in Seq(T) /\ Len(Append(Front(bs), x)) = Len(bs)
           /\ \A i \in 1..(Len(bs) - 1) : Append(Front(bs), x)[i] = bs[i]
           /\ Append(Front(bs), x)[Len(bs)] = x
<1>1. Len(bs) \in Nat \ {0} /\ \A i \in 1..Len(bs) : bs[i] \in T
  OBVIOUS
<1>2. /\ Front(bs) \in Seq(T) /\ Len(Front(bs)) = Len(bs) - 1
      /\ \A i \in 1..(Len(bs) - 1) : Front(bs)[i] = bs[i]
  <2>1. Len(bs) - 1 \in Int /\ \A i \in 1..(Len(bs) - 1) : bs[i] \in T  BY <1>1
  <2>2. /\ SubSeq(bs, 1, Len(bs) - 1) \in Seq(T)
        /\ Len(SubSeq(bs, 1, Len(bs) - 1)) = IF 1 <= Len(bs) - 1 THEN (Len(bs) - 1) - 1 + 1 ELSE 0
        /\ \A i \in 1..((Len(bs) - 1) - 1 + 1) : SubSeq(bs, 1, Len(bs) - 1)[i] = bs[1 + i - 1]
    BY <2>1, SubSeqProperties
  <2> DEFINE s == SubSeq(bs, 1, Len(bs) - 1)
  <2> HIDE DEF s
  <2>3. s = Front(bs)  BY DEF s, Front
  <2>4. s \in Seq(T) /\ Len(s) = Len(bs) - 1
    <3>1. s \in Seq(T) /\ Len(s) = IF 1 <= Len(bs) - 1 THEN (Len(bs) - 1) - 1 + 1 ELSE 0
      BY <2>2 DEF s
    <3>2. CASE Len(bs) = 1
      <4>1. ~(1 <= Len(bs) - 1) /\ Len(bs) - 1 = 0  BY <3>2
      <4> QED  BY <3>1, <4>1
    <3>3. CASE Len(bs) # 1
      <4>1. \A m \in Nat \ {0} : m # 1 => 1 <= m - 1 /\ (m - 1) - 1 + 1 = m - 1
        OBVIOUS
      <4>2. Len(bs) \in Nat \ {0}  BY <1>1
      <4>3. 1 <= Len(bs) - 1 /\ (Len(bs) - 1) - 1 + 1 = Len(bs) - 1  BY <3>3, <4>1, <4>2
      <4> QED  BY <3>1, <4>3
    <3> QED  BY <3>2, <3>3
  <2>5. ASSUME NEW i \in 1..(Len(bs) - 1) PROVE s[i] = bs[i]
    <3>1. i \in 1..((Len(bs) - 1) - 1 + 1) /\ 1 + i - 1 = i  BY <1>1
    <3>2. s[i] = bs[1 + i - 1]  BY <2>2, <3>1 DEF s
    <3> QED  BY <3>1, <3>2
  <2> QED  BY <2>3, <2>4, <2>5
<1>3. ASSUME NEW y \in T
      PROVE  /\ Append(Front(bs), y) \in Seq(T) /\ Len(Append(Front(bs), y)) = Len(bs)
             /\ \A i \in 1..(Len(bs) - 1) : Append(Front(bs), y)[i] = bs[i]
             /\ Append(Front(bs), y)[Len(bs)] = y
  <2> DEFINE fs == Front(bs)
  <2>1. fs \in Seq(T) /\ Len(fs) = Len(bs) - 1 /\ \A i \in 1..(Len(bs) - 1) : fs[i] = bs[i]
    BY <1>2
  <2> HIDE DEF fs
  <2>2. /\ Append(fs, y) \in Seq(T) /\ Len(Append(fs, y)) = Len(fs) + 1
        /\ \A i \in 1..Len(fs) : Append(fs, y)[i] = fs[i]
        /\ Append(fs, y)[Len(fs) + 1] = y
    BY <2>1, AppendProperties
  <2>3. Len(fs) + 1 = Len(bs) /\ Len(fs) = Len(bs) - 1  BY <1>1, <2>1
  <2>4. /\ Append(fs, y) \in Seq(T) /\ Len(Append(fs, y)) = Len(bs)
        /\ \A i \in 1..(Len(bs) - 1) : Append(fs, y)[i] = bs[i]
        /\ Append(fs, y)[Len(bs)] = y
    BY <2>1, <2>2, <2>3
  <2> QED  BY <2>4 DEF fs
<1>4. bs = Append(Front(bs), Last(bs))
  <2> DEFINE c == Append(Front(bs), Last(bs))
  <2>1. /\ c \in Seq(T) /\ Len(c) = Len(bs) /\ c[Len(bs)] = bs[Len(bs)]
        /\ \A i \in 1..(Len(bs) - 1) : c[i] = bs[i]
    BY <1>1, <1>3 DEF Last
  <2> HIDE DEF c
  <2>2. \A i \in 1..Len(bs) : bs[i] = c[i]  BY <1>1, <2>1
  <2>3. bs = c  BY <2>1, <2>2, SeqEqual
  <2> QED  BY <2>3 DEF c
<1> QED  BY <1>2, <1>3, <1>4

LEMMA Associative ==
    ASSUME NEW S, NEW r \in Seq(S), NEW s \in Seq(S), NEW t \in Seq(S)
    PROVE  r \o (s \o t) = (r \o s) \o t
BY ConcatAssociative, SMTT(30)

LEMMA FlattenLast ==
    ASSUME NEW bs \in Seq(Seq(Files)), NEW b \in Seq(Files), NEW f \in Files
    PROVE  FlattenSeq(Append(bs, Append(b, f))) = FlattenSeq(Append(bs, b)) \o <<f>>
<1>1. Append(b, f) = b \o <<f>> /\ <<f>> \in Seq(Files) /\ Append(b, f) \in Seq(Files)
  BY AppendIsConcat
<1>2. FlattenSeq(bs) \in Seq(Files) /\ FlattenSeq(Append(bs, b)) = FlattenSeq(bs) \o b
  BY FlattenAdd
<1>3. FlattenSeq(Append(bs, Append(b, f))) = FlattenSeq(bs) \o Append(b, f)
  BY <1>1, FlattenAdd
<1>4. FlattenSeq(bs) \o (b \o <<f>>) = (FlattenSeq(bs) \o b) \o <<f>>
  BY <1>1, <1>2, Associative
<1> QED  BY <1>1, <1>2, <1>3, <1>4

LEMMA AddFileKeeps ==
    ASSUME ImportAssumption, NEW files \in Seq(Files), IsInjective(files),
           NEW n \in 1..Len(files), NEW bs, Packed(bs, n - 1, files)
    PROVE  Packed(AddFile(bs, files[n]), n, files)
<1> DEFINE f == files[n]
           cs == AddFile(bs, f)
           Before(m) == {files[j] : j \in 1..m}
<1>1. Len(files) \in Nat /\ n \in Nat /\ f \in Files /\ DOMAIN files = 1..Len(files)
  OBVIOUS
<1>2. /\ bs \in Seq(Seq(Files)) /\ Len(bs) <= n - 1
      /\ \A i \in 1..Len(bs) : Batch(bs[i]) /\ ToSet(bs[i]) \subseteq Before(n - 1)
      /\ \A i, j \in 1..Len(bs) : i # j => ToSet(bs[i]) \intersect ToSet(bs[j]) = {}
      /\ \A i \in 1..(Len(bs) - 1) : Overfull(bs[i], bs[i + 1][1])
      /\ FlattenSeq(bs) = SubSeq(files, 1, n - 1)
  BY DEF Packed
<1>0. Len(bs) \in Nat /\ \A i \in 1..Len(bs) : bs[i] \in Seq(Files)
  BY <1>2
<1>3. f \notin Before(n - 1) /\ Before(n) = Before(n - 1) \union {f}
  <2>1. \A j \in 1..(n - 1) : j \in 1..Len(files) /\ j # n  BY <1>1
  <2>2. \A j \in 1..(n - 1) : files[j] # f  BY <1>1, <2>1 DEF IsInjective
  <2>3. 1..n = 1..(n - 1) \union {n}  BY <1>1
  <2> QED  BY <2>2, <2>3
<1>4. SubSeq(files, 1, n) = SubSeq(files, 1, n - 1) \o <<f>> /\ SubSeq(files, 1, n - 1) \in Seq(Files)
  <2>1. 1 \in 1..Len(files) /\ n \in 1..Len(files)  BY <1>1
  <2>2. SubSeq(files, 1, n) = SubSeq(files, 1, n - 1) \o <<f>>  BY <2>1, SubSeqRecursiveSecond
  <2>3. FlattenSeq(bs) \in Seq(Files)  BY <1>1, <1>2, FlattenAdd, <<f>> \in Seq(Files)
  <2> QED  BY <1>2, <2>2, <2>3
<1>5. CASE bs = <<>> \/ Overfull(Last(bs), f)
  <2>1. cs = Append(bs, <<f>>)  BY <1>5 DEF AddFile
  <2>2. Batch(<<f>>) /\ ToSet(<<f>>) = {f} /\ <<f>> \in Seq(Files) /\ <<f>>[1] = f
    BY <1>1, BatchStarted
  <2>3. /\ cs \in Seq(Seq(Files)) /\ cs # <<>> /\ Len(cs) = Len(bs) + 1
        /\ \A i \in 1..Len(bs) : cs[i] = bs[i]
        /\ cs[Len(bs) + 1] = <<f>>
    <3> DEFINE T == Seq(Files)
               g == <<f>>
    <3>1. bs \in Seq(T) /\ g \in T  BY <1>2, <2>2
    <3> HIDE DEF T, g
    <3>2. /\ Append(bs, g) \in Seq(T) /\ Append(bs, g) # <<>> /\ Len(Append(bs, g)) = Len(bs) + 1
          /\ \A i \in 1..Len(bs) : Append(bs, g)[i] = bs[i]
          /\ Append(bs, g)[Len(bs) + 1] = g
      BY <3>1, AppendProperties
    <3> QED  BY <2>1, <3>2 DEF T, g
  <2>4. FlattenSeq(cs) = SubSeq(files, 1, n)
    BY <1>2, <1>4, <2>1, <2>2, FlattenAdd
  <2> HIDE DEF cs, f, Before
  <2>5. \A i \in 1..Len(cs) : (i \in 1..Len(bs) /\ cs[i] = bs[i]) \/ (i = Len(bs) + 1 /\ cs[i] = <<f>>)
    <3> TAKE i \in 1..Len(cs)
    <3>1. i \in 1..Len(bs) \/ i = Len(bs) + 1  BY <1>0, <2>3
    <3> QED  BY <2>3, <3>1
  <2>6. ASSUME NEW i \in 1..Len(cs)
        PROVE  Batch(cs[i]) /\ ToSet(cs[i]) \subseteq Before(n)
    BY <1>2, <1>3, <2>2, <2>5
  <2>7. ASSUME NEW i \in 1..Len(cs), NEW j \in 1..Len(cs), i # j
        PROVE  ToSet(cs[i]) \intersect ToSet(cs[j]) = {}
    <3>1. CASE i \in 1..Len(bs) /\ j \in 1..Len(bs)  BY <1>2, <2>3, <2>7, <3>1
    <3>2. CASE i = Len(bs) + 1
      <4>1. ToSet(cs[i]) = {f} /\ ToSet(cs[j]) \subseteq Before(n - 1)
        BY <1>2, <2>2, <2>3, <2>5, <2>7, <3>2
      <4> QED  BY <1>3, <4>1
    <3>3. CASE j = Len(bs) + 1
      <4>1. ToSet(cs[j]) = {f} /\ ToSet(cs[i]) \subseteq Before(n - 1)
        BY <1>2, <2>2, <2>3, <2>5, <2>7, <3>3
      <4> QED  BY <1>3, <4>1
    <3> QED  BY <2>5, <3>1, <3>2, <3>3
  <2>8. ASSUME NEW i \in 1..(Len(cs) - 1) PROVE Overfull(cs[i], cs[i + 1][1])
    <3>1. CASE i = Len(bs)
      <4>1. cs[i] = Last(bs) /\ cs[i + 1][1] = f /\ bs # <<>>
        BY <1>2, <2>2, <2>3, <3>1 DEF Last
      <4> QED  BY <1>5, <4>1
    <3>2. CASE i # Len(bs)
      <4>1. i \in 1..(Len(bs) - 1) /\ i \in 1..Len(bs) /\ i + 1 \in 1..Len(bs)  BY <1>2, <2>3, <3>2
      <4> QED  BY <1>2, <2>3, <4>1
    <3> QED  BY <3>1, <3>2
  <2>9. Len(cs) <= n  BY <1>1, <1>2, <2>3
  <2> QED  BY <2>3, <2>4, <2>6, <2>7, <2>8, <2>9 DEF Packed, cs, f, Before
<1>6. CASE bs # <<>> /\ ~Overfull(Last(bs), f)
  <2> DEFINE last == Append(Last(bs), f)
             L == Len(bs)
  <2>1. cs = Append(Front(bs), last)  BY <1>6 DEF AddFile
  <2>2. L \in Nat \ {0} /\ L \in 1..L /\ Last(bs) = bs[L]  BY <1>0, <1>2, <1>6 DEF Last
  <2>3. Last(bs) \in Seq(Files) /\ Batch(Last(bs)) /\ ToSet(Last(bs)) \subseteq Before(n - 1)
    BY <1>0, <1>2, <2>2
  <2>4. /\ Batch(last) /\ ToSet(last) = ToSet(bs[L]) \union {f} /\ last[1] = bs[L][1]
        /\ last \in Seq(Files)
    <3>1. f \notin ToSet(Last(bs))  BY <1>3, <2>3
    <3> HIDE DEF f, Before
    <3>2. Batch(last) /\ ToSet(last) = ToSet(Last(bs)) \union {f} /\ last[1] = Last(bs)[1]
      BY <1>1, <1>6, <2>3, <3>1, BatchExtended
    <3>3. last \in Seq(Files)  BY <3>2 DEF Batch
    <3> QED  BY <2>2, <3>2, <3>3
  <2> HIDE DEF last, cs, f, Before
  <2>5. /\ Front(bs) \in Seq(Seq(Files)) /\ bs = Append(Front(bs), bs[L])
        /\ cs \in Seq(Seq(Files)) /\ Len(cs) = L
        /\ \A i \in 1..(L - 1) : cs[i] = bs[i]
        /\ cs[L] = last
    <3> DEFINE T == Seq(Files)
    <3>1. bs \in Seq(T) /\ last \in T /\ bs # <<>>  BY <1>2, <1>6, <2>4
    <3> HIDE DEF T
    <3>2. /\ Front(bs) \in Seq(T) /\ bs = Append(Front(bs), Last(bs))
          /\ Append(Front(bs), last) \in Seq(T) /\ Len(Append(Front(bs), last)) = Len(bs)
          /\ \A i \in 1..(Len(bs) - 1) : Append(Front(bs), last)[i] = bs[i]
          /\ Append(Front(bs), last)[Len(bs)] = last
      BY <3>1, LastReplaced
    <3> QED  BY <2>1, <2>2, <3>2 DEF T
  <2>6. FlattenSeq(cs) = SubSeq(files, 1, n)
    <3>1. FlattenSeq(cs) = FlattenSeq(bs) \o <<f>>
      <4> DEFINE b == bs[L]
                 fs == Front(bs)
      <4>1. /\ b \in Seq(Files) /\ fs \in Seq(Seq(Files)) /\ f \in Files
            /\ bs = Append(fs, b) /\ cs = Append(fs, Append(b, f))
        BY <1>0, <1>1, <2>1, <2>2, <2>5 DEF last
      <4> HIDE DEF b, fs
      <4>2. FlattenSeq(Append(fs, Append(b, f))) = FlattenSeq(Append(fs, b)) \o <<f>>
        BY <4>1, FlattenLast
      <4> QED  BY <4>1, <4>2
    <3> QED  BY <1>2, <1>4, <3>1
  <2>7. \A i \in 1..L : (i \in 1..(L - 1) /\ cs[i] = bs[i]) \/ (i = L /\ cs[i] = last)
    <3> TAKE i \in 1..L
    <3>1. i = L \/ i \in 1..(L - 1)  BY <2>2
    <3> QED  BY <2>5, <3>1
  <2>8. ASSUME NEW i \in 1..L
        PROVE  Batch(cs[i]) /\ ToSet(cs[i]) \subseteq Before(n)
    BY <1>2, <1>3, <2>2, <2>4, <2>7
  <2>9. ASSUME NEW i \in 1..L, NEW j \in 1..L, i # j
        PROVE  ToSet(cs[i]) \intersect ToSet(cs[j]) = {}
    <3>1. ToSet(bs[i]) \intersect ToSet(bs[j]) = {}  BY <1>2, <2>9
    <3>2. f \notin ToSet(bs[i]) /\ f \notin ToSet(bs[j])  BY <1>2, <1>3
    <3>3. CASE i = L
      <4>1. j # L /\ cs[i] = last /\ cs[j] = bs[j]  BY <2>5, <2>7, <2>9, <3>3
      <4> QED  BY <2>4, <3>1, <3>2, <3>3, <4>1
    <3>4. CASE j = L
      <4>1. i # L /\ cs[j] = last /\ cs[i] = bs[i]  BY <2>5, <2>7, <2>9, <3>4
      <4> QED  BY <2>4, <3>1, <3>2, <3>4, <4>1
    <3>5. CASE i # L /\ j # L  BY <2>7, <3>1, <3>5
    <3> QED  BY <3>3, <3>4, <3>5
  <2>10. ASSUME NEW i \in 1..(L - 1) PROVE Overfull(cs[i], cs[i + 1][1])
    <3>1. cs[i] = bs[i] /\ i + 1 \in 1..L  BY <2>2, <2>5
    <3>2. cs[i + 1][1] = bs[i + 1][1]  BY <2>4, <2>7, <3>1
    <3> QED  BY <1>2, <3>1, <3>2
  <2>11. Len(cs) <= n /\ cs # <<>>  BY <1>1, <1>2, <2>2, <2>5
  <2> QED  BY <2>5, <2>6, <2>8, <2>9, <2>10, <2>11 DEF Packed, cs, f, Before
<1> QED  BY <1>5, <1>6

(* What buildBatches makes of a selection: every file in order, in batches  *)
(* that respect the limits, none of which could have taken the next file.  *)
BuiltFrom(files) ==
    CHOOSE built : built = [n \in 0..Len(files) |->
                                IF n = 0 THEN <<>> ELSE AddFile(built[n - 1], files[n])]

LEMMA BuiltEquation ==
    ASSUME ImportAssumption, NEW files \in Seq(Files)
    PROVE  /\ BuildBatches(files) = BuiltFrom(files)[Len(files)]
           /\ BuiltFrom(files)[0] = <<>>
           /\ \A n \in 1..Len(files) : BuiltFrom(files)[n] = AddFile(BuiltFrom(files)[n - 1], files[n])
<1> DEFINE Lists == Seq(Seq(Files))
           step == [n \in 1..Len(files) |-> [bs \in Lists |-> AddFile(bs, files[n])]]
           Eqn(f) == f = [n \in 0..Len(files) |-> IF n = 0 THEN <<>> ELSE AddFile(f[n - 1], files[n])]
<1>1. Len(files) \in Nat /\ \A n \in 1..Len(files) : files[n] \in Files
  OBVIOUS
<1>2. Steps(step, Len(files), Lists)
  <2>1. ASSUME NEW n \in 1..Len(files), NEW bs \in Lists PROVE AddFile(bs, files[n]) \in Lists
    <3>1. CASE bs = <<>> \/ Overfull(Last(bs), files[n])
      <4>1. <<files[n]>> \in Seq(Files)  BY <1>1
      <4> QED  BY <3>1, <4>1, AppendProperties DEF AddFile
    <3>2. CASE bs # <<>> /\ ~Overfull(Last(bs), files[n])
      <4>1. Last(bs) \in Seq(Files)  BY <3>2 DEF Last
      <4>2. Append(Last(bs), files[n]) \in Seq(Files)  BY <1>1, <4>1
      <4> DEFINE T == Seq(Files)
      <4>3. bs \in Seq(T) /\ Append(Last(bs), files[n]) \in T  BY <4>2
      <4> HIDE DEF T
      <4>4. Append(Front(bs), Append(Last(bs), files[n])) \in Seq(T)  BY <3>2, <4>3, LastReplaced
      <4> QED  BY <3>2, <4>4 DEF AddFile, T
    <3> QED  BY <3>1, <3>2
  <2> HIDE DEF Lists
  <2> QED  BY <2>1 DEF Steps
<1>3. PICK f : Follows(f, step, <<>>, Len(files), Lists)
  <2>1. <<>> \in Lists  OBVIOUS
  <2> HIDE DEF step, Lists
  <2> QED  BY <1>1, <1>2, <2>1, Recursion
<1>4. ASSUME NEW n \in 1..Len(files) PROVE f[n] = AddFile(f[n - 1], files[n])
  <2> HIDE DEF Lists
  <2>1. n - 1 \in 0..Len(files)  BY <1>1
  <2>2. f[n - 1] \in Lists  BY <1>3, <2>1 DEF Follows
  <2>3. step[n][f[n - 1]] = AddFile(f[n - 1], files[n])  BY <2>2
  <2> HIDE DEF step
  <2> QED  BY <1>3, <2>3 DEF Follows
<1>5. Eqn(f)
  <2> HIDE DEF step, Lists
  <2>1. ASSUME NEW n \in 0..Len(files)
        PROVE  f[n] = IF n = 0 THEN <<>> ELSE AddFile(f[n - 1], files[n])
    <3>1. n # 0 => n \in 1..Len(files)  BY <1>1
    <3> QED  BY <1>3, <1>4, <3>1 DEF Follows
  <2>2. f \in [0..Len(files) -> Lists]  BY <1>3 DEF Follows
  <2> QED  BY <2>1, <2>2
<1>6. BuiltFrom(files) = CHOOSE g : Eqn(g)
  BY DEF BuiltFrom
<1>7. Eqn(BuiltFrom(files))
  <2> HIDE DEF Eqn
  <2> QED  BY <1>5, <1>6
<1>8. BuildBatches(files) = BuiltFrom(files)[Len(files)]
  BY DEF BuildBatches, BuiltFrom
<1>9. \A n \in 0..Len(files) :
         BuiltFrom(files)[n] = IF n = 0 THEN <<>> ELSE AddFile(BuiltFrom(files)[n - 1], files[n])
  BY <1>7
<1> QED  BY <1>1, <1>8, <1>9

THEOREM BatchesOfASelection ==
    ASSUME ImportAssumption, NEW files \in Selections
    PROVE  Packed(BuildBatches(files), Len(files), files) /\ FlattenSeq(BuildBatches(files)) = files
<1>1. files \in Seq(Files) /\ IsInjective(files) /\ Len(files) \in Nat
  BY DEF ImportAssumption
<1>2. /\ BuildBatches(files) = BuiltFrom(files)[Len(files)]
      /\ BuiltFrom(files)[0] = <<>>
      /\ \A n \in 1..Len(files) : BuiltFrom(files)[n] = AddFile(BuiltFrom(files)[n - 1], files[n])
  BY <1>1, BuiltEquation
<1> DEFINE G == {n \in 0..Len(files) : Packed(BuiltFrom(files)[n], n, files)}
<1>3. 0 \in G
  <2>1. FlattenSeq(<<>>) = <<>> /\ SubSeq(files, 1, 0) = <<>>
    BY SubSeqEmpty DEF FlattenSeq
  <2> DEFINE none == <<>>
  <2>2. none \in Seq(Seq(Files)) /\ Len(none) = 0  OBVIOUS
  <2>3. FlattenSeq(none) = SubSeq(files, 1, 0)  BY <2>1
  <2> HIDE DEF none
  <2>4. \A i \in 1..Len(none) : FALSE  BY <2>2
  <2>5. \A i \in 1..(Len(none) - 1) : FALSE  BY <2>2
  <2>6. Packed(none, 0, files)  BY <2>2, <2>3, <2>4, <2>5 DEF Packed
  <2> QED  BY <1>1, <1>2, <2>6 DEF none
<1>4. ASSUME NEW n \in 1..Len(files), n - 1 \in G PROVE n \in G
  <2>1. Packed(AddFile(BuiltFrom(files)[n - 1], files[n]), n, files)
    BY <1>1, <1>4, AddFileKeeps
  <2> QED  BY <1>1, <1>2, <2>1
<1>5. Packed(BuildBatches(files), Len(files), files)
  <2>1. Len(files) \in G
    <3> HIDE DEF G
    <3>1. 0..Len(files) \subseteq G  BY <1>1, <1>3, <1>4, Induction
    <3> QED  BY <1>1, <3>1
  <2> QED  BY <1>2, <2>1
<1>6. FlattenSeq(BuildBatches(files)) = SubSeq(files, 1, Len(files))
  BY <1>5 DEF Packed
<1> QED  BY <1>1, <1>5, <1>6, SubSeqFull

----------------------------------------------------------------------------
(* The batches of a scan are those of a selection. *)
Built == batches = <<>> \/ \E files \in Selections : batches = BuildBatches(files)

Batched ==
    /\ batches \in Seq(Seq(Files)) /\ Len(batches) \in Nat /\ Len(batches) <= Cardinality(Files)
    /\ \A i \in 1..Len(batches) : Batch(batches[i])
    /\ \A i, j \in 1..Len(batches) : i # j => ToSet(batches[i]) \intersect ToSet(batches[j]) = {}

LEMMA BuiltBatches ==
    ASSUME ImportAssumption, Built
    PROVE  Batched /\ BatchesSound
<1>0. Cardinality(Files) \in Nat
  BY FS_CardinalityType DEF ImportAssumption
<1>1. CASE batches = <<>>
  <2> DEFINE T == Seq(Files)
  <2>1. batches \in Seq(T) /\ Len(batches) = 0  BY <1>1
  <2>2. \A i \in 1..Len(batches) : FALSE  BY <2>1
  <2> QED  BY <1>0, <1>1, <2>1, <2>2 DEF Batched, BatchesSound
<1>2. ASSUME NEW files \in Selections, batches = BuildBatches(files)
      PROVE  Batched /\ BatchesSound
  <2>1. Packed(batches, Len(files), files) /\ FlattenSeq(batches) = files
    BY <1>2, BatchesOfASelection
  <2>2. files \in Seq(Files) /\ IsInjective(files) /\ Len(files) \in Nat
    BY DEF ImportAssumption
  <2>3. Len(files) <= Cardinality(Files)
    <3>1. files \in Injection(1..Len(files), Files)
      BY <2>2 DEF Injection, IsInjective
    <3>2. Cardinality(1..Len(files)) = Len(files)
      <4> DEFINE n == Len(files)
      <4>1. n \in Int /\ 1 \in Int /\ n >= 0  BY <2>2
      <4> HIDE DEF n
      <4>2. Cardinality(1..n) = IF 1 > n THEN 0 ELSE n - 1 + 1  BY <4>1, FS_Interval
      <4>3. Cardinality(1..n) = n  BY <4>1, <4>2
      <4> QED  BY <4>3 DEF n
    <3> QED  BY <3>1, <3>2, FS_Injection DEF ImportAssumption
  <2> DEFINE T == Seq(Files)
  <2>4. batches \in Seq(T)  BY <2>1 DEF Packed
  <2>5. Len(batches) \in Nat /\ Len(batches) <= Len(files)  BY <2>1, <2>4 DEF Packed
  <2>6. Batched
    <3>1. Len(batches) <= Cardinality(Files)  BY <1>0, <2>2, <2>3, <2>5
    <3> QED  BY <2>1, <2>5, <3>1 DEF Packed, Batched
  <2>7. BatchesSound
    <3>1. ASSUME NEW i \in DOMAIN batches
          PROVE  /\ Batch(batches[i])
                 /\ i < Len(batches) => Overfull(batches[i], batches[i + 1][1])
      <4>1. i \in 1..Len(batches)  BY <2>4
      <4>2. i < Len(batches) => i \in 1..(Len(batches) - 1)  BY <2>5, <4>1
      <4> QED  BY <2>1, <4>1, <4>2 DEF Packed
    <3> QED  BY <2>1, <3>1 DEF BatchesSound, Batch
  <2> QED  BY <2>6, <2>7
<1> QED  BY <1>1, <1>2 DEF Built

LEMMA StepsKeepBuilt == Built /\ [Next]_vars => Built'
<1> SUFFICES ASSUME Built, [Next]_vars PROVE Built'
  OBVIOUS
<1>1. CASE \E files \in Selections : StartScan(files)
  BY <1>1 DEF Built, StartScan
<1>2. CASE UNCHANGED batches
  BY SMTT(30), <1>2 DEF Built
<1>3. (\E files \in Selections : StartScan(files)) \/ UNCHANGED batches
  BY DEF Next, vars, client, ScanStep, CommitStep, GenStep, Send, FailBatch, Refused, Break, Receive,
         EndOfStream, FinishScan, GenRefuse, GenStore, GenStoreFails, GenRead, GenLlmError, GenError, GenComplete,
         GenCancelled, Edit, RemoveRow, Cancel, CommitAll, CommitNext, CommitEnd
<1> QED  BY <1>1, <1>2, <1>3

(* For every selection and any limits, the batches are the selection, in   *)
(* order and complete, within the limits and as full as they could be.     *)
THEOREM BatchesAreSound == ASSUME ImportAssumption PROVE Spec => []BatchesSound
<1>1. Init => Built  BY DEF Init, Built
<1>2. Built /\ [Next]_vars => Built'  BY StepsKeepBuilt
<1>3. Built => BatchesSound  BY BuiltBatches
<1> QED BY <1>1, <1>2, <1>3, PTL DEF Spec

----------------------------------------------------------------------------
(* Sequences and the sets of their elements. *)
LEMMA SetOfSequence ==
    ASSUME NEW S, NEW s \in Seq(S)
    PROVE  Len(s) \in Nat /\ DOMAIN s = 1..Len(s) /\ ToSet(s) \subseteq S /\ (s = <<>> => ToSet(s) = {})
BY DEF ToSet

(* Events of a stream are about different files. *)
Distinct(s) == \A i, j \in 1..Len(s) : s[i].file = s[j].file => i = j

LEMMA Appended ==
    ASSUME NEW S, NEW s \in Seq(S), NEW e \in S
    PROVE  /\ Append(s, e) \in Seq(S) /\ ToSet(Append(s, e)) = ToSet(s) \union {e}
           /\ IsInjective(s) /\ e \notin ToSet(s) => IsInjective(Append(s, e))
           /\ Distinct(s) /\ (\A x \in ToSet(s) : x.file # e.file) => Distinct(Append(s, e))
<1> DEFINE t == Append(s, e)
<1>1. /\ t \in Seq(S) /\ Len(t) = Len(s) + 1 /\ Len(s) \in Nat /\ t[Len(t)] = e
      /\ \A i \in 1..Len(s) : t[i] = s[i]
  OBVIOUS
<1>2. DOMAIN s = 1..Len(s) /\ DOMAIN t = 1..Len(t)
  BY <1>1
<1> HIDE DEF t
<1>3. ToSet(t) = ToSet(s) \union {e}
  <2>1. ASSUME NEW i \in 1..Len(t) PROVE t[i] \in ToSet(s) \union {e}
    BY <1>1, <1>2 DEF ToSet
  <2>2. ASSUME NEW i \in 1..Len(s) PROVE s[i] \in ToSet(t)
    <3>1. i \in 1..Len(t)  BY <1>1
    <3> QED  BY <1>1, <1>2, <3>1 DEF ToSet
  <2>3. e \in ToSet(t)
    <3>1. Len(t) \in 1..Len(t)  BY <1>1
    <3> QED  BY <1>1, <1>2, <3>1 DEF ToSet
  <2> QED  BY <1>2, <2>1, <2>2, <2>3 DEF ToSet
<1>4. \A i \in 1..Len(t) : (i \in 1..Len(s) /\ t[i] = s[i]) \/ (i = Len(t) /\ t[i] = e)
  BY <1>1
<1>5. \A i \in 1..Len(s) : s[i] \in ToSet(s)
  BY <1>2 DEF ToSet
<1>6. ASSUME IsInjective(s), e \notin ToSet(s) PROVE IsInjective(t)
  <2>1. ASSUME NEW i \in 1..Len(t), NEW j \in 1..Len(t), t[i] = t[j] PROVE i = j
    <3>1. CASE i \in 1..Len(s) /\ j \in 1..Len(s)
      BY <1>1, <1>2, <1>6, <2>1, <3>1 DEF IsInjective
    <3>2. CASE ~(i \in 1..Len(s) /\ j \in 1..Len(s))
      BY <1>4, <1>5, <1>6, <2>1, <3>2
    <3> QED  BY <3>1, <3>2
  <2> QED  BY <1>2, <2>1 DEF IsInjective
<1>7. Distinct(s) /\ (\A x \in ToSet(s) : x.file # e.file) => Distinct(t)
  BY <1>4, <1>5 DEF Distinct
<1> QED  BY <1>1, <1>3, <1>6, <1>7 DEF t

LEMMA HeadAndTail ==
    ASSUME NEW S, NEW s \in Seq(S), s # <<>>
    PROVE  /\ Head(s) \in S /\ Head(s) \in ToSet(s) /\ Tail(s) \in Seq(S)
           /\ ToSet(s) = ToSet(Tail(s)) \union {Head(s)}
           /\ IsInjective(s) => IsInjective(Tail(s)) /\ Head(s) \notin ToSet(Tail(s))
           /\ Distinct(s) => Distinct(Tail(s)) /\ \A x \in ToSet(Tail(s)) : x.file # Head(s).file
<1> DEFINE t == Tail(s)
           h == Head(s)
<1>1. /\ t \in Seq(S) /\ Len(s) = Len(t) + 1 /\ Len(t) \in Nat /\ h = s[1] /\ h \in S
      /\ \A i \in 1..Len(t) : t[i] = s[i + 1]
  OBVIOUS
<1>2. DOMAIN s = 1..Len(s) /\ DOMAIN t = 1..Len(t)
  BY <1>1
<1> HIDE DEF t, h
<1>3. 1 \in 1..Len(s) /\ \A i \in 1..Len(t) : i + 1 \in 1..Len(s) /\ i + 1 # 1
  BY <1>1
<1>4. \A i \in 1..Len(s) : i = 1 \/ (i - 1 \in 1..Len(t) /\ t[i - 1] = s[i])
  <2> TAKE i \in 1..Len(s)
  <2>1. i # 1 => i - 1 \in 1..Len(t) /\ (i - 1) + 1 = i  BY <1>1
  <2> QED  BY <1>1, <2>1
<1>5. ToSet(s) = ToSet(t) \union {h}
  <2>1. ASSUME NEW i \in 1..Len(s) PROVE s[i] \in ToSet(t) \union {h}
    BY <1>1, <1>2, <1>4 DEF ToSet
  <2>2. ASSUME NEW i \in 1..Len(t) PROVE t[i] \in ToSet(s)
    BY <1>1, <1>2, <1>3 DEF ToSet
  <2>3. h \in ToSet(s)  BY <1>1, <1>2, <1>3 DEF ToSet
  <2> QED  BY <1>2, <2>1, <2>2, <2>3 DEF ToSet
<1>6. ASSUME IsInjective(s) PROVE IsInjective(t) /\ h \notin ToSet(t)
  <2>1. ASSUME NEW i \in 1..Len(t), NEW j \in 1..Len(t), t[i] = t[j] PROVE i = j
    <3>1. s[i + 1] = s[j + 1]  BY <1>1, <2>1
    <3>2. i + 1 = j + 1  BY <1>2, <1>3, <1>6, <3>1 DEF IsInjective
    <3> QED  BY <1>1, <3>2
  <2>2. ASSUME NEW i \in 1..Len(t) PROVE t[i] # h
    BY <1>1, <1>2, <1>3, <1>6 DEF IsInjective
  <2> QED  BY <1>2, <2>1, <2>2 DEF IsInjective, ToSet
<1>7. ASSUME Distinct(s) PROVE Distinct(t) /\ \A x \in ToSet(t) : x.file # h.file
  <2>1. ASSUME NEW i \in 1..Len(t), NEW j \in 1..Len(t), t[i].file = t[j].file PROVE i = j
    <3>1. s[i + 1].file = s[j + 1].file  BY <1>1, <2>1
    <3>2. i + 1 = j + 1  BY <1>3, <1>7, <3>1 DEF Distinct
    <3> QED  BY <1>1, <3>2
  <2>2. ASSUME NEW i \in 1..Len(t) PROVE t[i].file # h.file
    BY <1>1, <1>3, <1>7 DEF Distinct
  <2> QED  BY <1>2, <2>1, <2>2 DEF Distinct, ToSet
<1> QED  BY <1>1, <1>5, <1>6, <1>7 DEF t, h

LEMMA Joined ==
    ASSUME NEW S, NEW s \in Seq(S), NEW t \in Seq(S)
    PROVE  /\ s \o t \in Seq(S) /\ ToSet(s \o t) = ToSet(s) \union ToSet(t)
           /\ (IsInjective(s) /\ IsInjective(t) /\ ToSet(s) \intersect ToSet(t) = {}) => IsInjective(s \o t)
<1> DEFINE u == s \o t
<1>1. /\ u \in Seq(S) /\ Len(s) \in Nat /\ Len(t) \in Nat /\ Len(u) = Len(s) + Len(t)
      /\ \A i \in 1..Len(s) : u[i] = s[i]
      /\ \A i \in 1..Len(t) : u[Len(s) + i] = t[i]
  OBVIOUS
<1>2. DOMAIN s = 1..Len(s) /\ DOMAIN t = 1..Len(t) /\ DOMAIN u = 1..Len(u)
  BY <1>1
<1> HIDE DEF u
<1>3. ASSUME NEW i \in 1..Len(u)
      PROVE  \/ i \in 1..Len(s) /\ u[i] = s[i]
             \/ i > Len(s) /\ i - Len(s) \in 1..Len(t) /\ u[i] = t[i - Len(s)]
  <2>1. i \notin 1..Len(s) => i - Len(s) \in 1..Len(t) /\ Len(s) + (i - Len(s)) = i /\ i > Len(s)
    BY <1>1
  <2> QED  BY <1>1, <2>1
<1>4. ToSet(u) = ToSet(s) \union ToSet(t)
  <2>1. ASSUME NEW i \in 1..Len(u) PROVE u[i] \in ToSet(s) \union ToSet(t)
    BY <1>2, <1>3 DEF ToSet
  <2>2. ASSUME NEW i \in 1..Len(s) PROVE s[i] \in ToSet(u)
    <3>1. i \in 1..Len(u)  BY <1>1
    <3> QED  BY <1>1, <1>2, <3>1 DEF ToSet
  <2>3. ASSUME NEW i \in 1..Len(t) PROVE t[i] \in ToSet(u)
    <3>1. Len(s) + i \in 1..Len(u)  BY <1>1
    <3> QED  BY <1>1, <1>2, <3>1 DEF ToSet
  <2> QED  BY <1>2, <2>1, <2>2, <2>3 DEF ToSet
<1>5. ASSUME IsInjective(s), IsInjective(t), ToSet(s) \intersect ToSet(t) = {}
      PROVE  IsInjective(u)
  <2>1. ASSUME NEW i \in 1..Len(u), NEW j \in 1..Len(u), u[i] = u[j] PROVE i = j
    <3>1. CASE i \in 1..Len(s) /\ j \in 1..Len(s)
      BY <1>1, <1>2, <1>5, <2>1, <3>1 DEF IsInjective
    <3>2. CASE i \notin 1..Len(s) /\ j \notin 1..Len(s)
      <4>1. i - Len(s) = j - Len(s)  BY <1>2, <1>3, <1>5, <2>1, <3>2 DEF IsInjective
      <4> QED  BY <1>1, <4>1
    <3>3. ASSUME NEW p \in 1..Len(s), NEW q \in 1..Len(t), s[p] = t[q] PROVE FALSE
      BY <1>2, <1>5, <3>3 DEF ToSet
    <3>4. CASE i \in 1..Len(s) /\ j \notin 1..Len(s)
      <4>1. j - Len(s) \in 1..Len(t) /\ s[i] = t[j - Len(s)]  BY <1>1, <1>3, <2>1, <3>4
      <4> QED  BY <3>3, <3>4, <4>1
    <3>5. CASE i \notin 1..Len(s) /\ j \in 1..Len(s)
      <4>1. i - Len(s) \in 1..Len(t) /\ s[j] = t[i - Len(s)]  BY <1>1, <1>3, <2>1, <3>5
      <4> QED  BY <3>3, <3>5, <4>1
    <3> QED  BY <3>1, <3>2, <3>4, <3>5
  <2> QED  BY <1>2, <2>1 DEF IsInjective
<1> QED  BY <1>1, <1>4, <1>5 DEF u

LEMMA Removed ==
    ASSUME NEW S, NEW s \in Seq(S), NEW i \in 1..Len(s)
    PROVE  /\ RemoveAt(s, i) \in Seq(S) /\ ToSet(RemoveAt(s, i)) \union {s[i]} = ToSet(s)
           /\ IsInjective(s) => IsInjective(RemoveAt(s, i))
<1> DEFINE l == SubSeq(s, 1, i - 1)
           r == SubSeq(s, i + 1, Len(s))
<1>1. Len(s) \in Nat /\ i \in Nat /\ DOMAIN s = 1..Len(s) /\ \A j \in 1..Len(s) : s[j] \in S
  OBVIOUS
<1>2. l \in Seq(S) /\ Len(l) = i - 1 /\ \A j \in 1..(i - 1) : l[j] = s[j]
  OBVIOUS
<1>3. r \in Seq(S) /\ Len(r) = Len(s) - i /\ \A j \in 1..(Len(s) - i) : r[j] = s[i + j]
  OBVIOUS
<1>4. DOMAIN l = 1..(i - 1) /\ DOMAIN r = 1..(Len(s) - i)
  BY <1>2, <1>3
<1>5. RemoveAt(s, i) = l \o r
  BY DEF RemoveAt
<1> HIDE DEF l, r
<1>6. \A j \in 1..(i - 1) : j \in 1..Len(s)
  BY <1>1
<1>7. \A j \in 1..(Len(s) - i) : i + j \in 1..Len(s)
  BY <1>1
<1>8. ToSet(l) \union ToSet(r) \union {s[i]} = ToSet(s)
  <2>1. ASSUME NEW j \in 1..Len(s) PROVE s[j] \in ToSet(l) \union ToSet(r) \union {s[i]}
    <3>1. CASE j < i
      <4>1. j \in 1..(i - 1)  BY <1>1, <3>1
      <4> QED  BY <1>2, <1>4, <4>1 DEF ToSet
    <3>2. CASE j > i
      <4>1. j - i \in 1..(Len(s) - i) /\ i + (j - i) = j  BY <1>1, <3>2
      <4>2. s[j] = r[j - i]  BY <1>3, <4>1
      <4> QED  BY <1>4, <4>1, <4>2 DEF ToSet
    <3> QED  BY <1>1, <3>1, <3>2
  <2>2. ToSet(l) \subseteq ToSet(s)  BY <1>1, <1>2, <1>4, <1>6 DEF ToSet
  <2>3. ToSet(r) \subseteq ToSet(s)  BY <1>1, <1>3, <1>4, <1>7 DEF ToSet
  <2>4. s[i] \in ToSet(s)  BY <1>1 DEF ToSet
  <2>5. ToSet(s) \subseteq ToSet(l) \union ToSet(r) \union {s[i]}  BY <1>1, <2>1 DEF ToSet
  <2> QED  BY <2>2, <2>3, <2>4, <2>5
<1>9. ASSUME IsInjective(s) PROVE IsInjective(l \o r)
  <2>1. IsInjective(l)  BY <1>1, <1>2, <1>4, <1>6, <1>9 DEF IsInjective
  <2>2. IsInjective(r)
    <3>1. ASSUME NEW j \in 1..(Len(s) - i), NEW k \in 1..(Len(s) - i), r[j] = r[k] PROVE j = k
      <4>1. i + j = i + k  BY <1>1, <1>3, <1>7, <1>9, <3>1 DEF IsInjective
      <4> QED  BY <1>1, <4>1
    <3> QED  BY <1>4, <3>1 DEF IsInjective
  <2>3. ToSet(l) \intersect ToSet(r) = {}
    <3>1. ASSUME NEW j \in 1..(i - 1), NEW k \in 1..(Len(s) - i), l[j] = r[k] PROVE FALSE
      <4>1. s[j] = s[i + k]  BY <1>2, <1>3, <3>1
      <4>2. j = i + k  BY <1>1, <1>6, <1>7, <1>9, <4>1 DEF IsInjective
      <4> QED  BY <1>1, <4>2
    <3> QED  BY <1>4, <3>1 DEF ToSet
  <2> QED  BY <1>2, <1>3, <2>1, <2>2, <2>3, Joined
<1> QED  BY <1>2, <1>3, <1>5, <1>8, <1>9, Joined

----------------------------------------------------------------------------
(* What is saved: the rows without an error that have meter and value. *)
Joins(s, n) == IF ~row[rows[n]].error /\ row[rows[n]].ready THEN Append(s, rows[n]) ELSE s

ChosenFrom ==
    CHOOSE chosen : chosen = [n \in 0..Len(rows) |->
                                  IF n = 0 THEN <<>>
                                  ELSE IF ~row[rows[n]].error /\ row[rows[n]].ready
                                       THEN Append(chosen[n - 1], rows[n])
                                       ELSE chosen[n - 1]]

LEMMA IncludedEquation ==
    ASSUME rows \in Seq(Keys)
    PROVE  /\ Included = ChosenFrom[Len(rows)]
           /\ ChosenFrom[0] = <<>>
           /\ \A n \in 1..Len(rows) : ChosenFrom[n] = Joins(ChosenFrom[n - 1], n)
<1> DEFINE Lists == Seq(Keys)
           step == [n \in 1..Len(rows) |-> [s \in Lists |-> Joins(s, n)]]
           Eqn(f) == f = [n \in 0..Len(rows) |->
                              IF n = 0 THEN <<>>
                              ELSE IF ~row[rows[n]].error /\ row[rows[n]].ready
                                   THEN Append(f[n - 1], rows[n])
                                   ELSE f[n - 1]]
<1>1. Len(rows) \in Nat /\ \A n \in 1..Len(rows) : rows[n] \in Keys
  OBVIOUS
<1>2. Steps(step, Len(rows), Lists)
  <2>1. ASSUME NEW n \in 1..Len(rows), NEW s \in Lists PROVE Joins(s, n) \in Lists
    BY <1>1, <2>1 DEF Joins
  <2> HIDE DEF Lists
  <2> QED  BY <2>1 DEF Steps
<1>3. PICK f : Follows(f, step, <<>>, Len(rows), Lists)
  <2>1. <<>> \in Lists  OBVIOUS
  <2> HIDE DEF step, Lists
  <2> QED  BY <1>1, <1>2, <2>1, Recursion
<1>4. ASSUME NEW n \in 1..Len(rows) PROVE f[n] = Joins(f[n - 1], n)
  <2> HIDE DEF Lists
  <2>1. n - 1 \in 0..Len(rows)  BY <1>1
  <2>2. f[n - 1] \in Lists  BY <1>3, <2>1 DEF Follows
  <2>3. step[n][f[n - 1]] = Joins(f[n - 1], n)  BY <2>2
  <2> HIDE DEF step
  <2> QED  BY <1>3, <2>3 DEF Follows
<1>5. Eqn(f)
  <2> HIDE DEF step, Lists
  <2>1. ASSUME NEW n \in 0..Len(rows)
        PROVE  f[n] = IF n = 0 THEN <<>>
                      ELSE IF ~row[rows[n]].error /\ row[rows[n]].ready
                           THEN Append(f[n - 1], rows[n])
                           ELSE f[n - 1]
    <3>1. CASE n = 0  BY <1>3, <3>1 DEF Follows
    <3>2. CASE n # 0
      <4>1. n \in 1..Len(rows)  BY <1>1, <3>2
      <4> QED  BY <1>4, <3>2, <4>1 DEF Joins
    <3> QED  BY <3>1, <3>2
  <2>2. f \in [0..Len(rows) -> Lists]  BY <1>3 DEF Follows
  <2> QED  BY <2>1, <2>2
<1>6. ChosenFrom = CHOOSE g : Eqn(g)
  BY DEF ChosenFrom
<1>7. Eqn(ChosenFrom)
  <2> HIDE DEF Eqn
  <2> QED  BY <1>5, <1>6
<1>8. Included = ChosenFrom[Len(rows)]
  BY DEF Included, ChosenFrom
<1>9. ChosenFrom[0] = <<>>
  BY <1>1, <1>7
<1>10. ASSUME NEW n \in 1..Len(rows) PROVE ChosenFrom[n] = Joins(ChosenFrom[n - 1], n)
  <2>1. n \in 0..Len(rows) /\ n # 0  BY <1>1
  <2> QED  BY <1>7, <2>1 DEF Joins
<1> QED  BY <1>8, <1>9, <1>10

LEMMA IncludedRows ==
    ASSUME rows \in Seq(Keys)
    PROVE  Included \in Seq(Keys) /\ \A k \in ToSet(Included) : k \in ToSet(rows) /\ ~row[k].error
<1> DEFINE Good == {k \in ToSet(rows) : ~row[k].error}
           G == {n \in 0..Len(rows) : ChosenFrom[n] \in Seq(Good)}
<1>1. Len(rows) \in Nat /\ ToSet(rows) \subseteq Keys
  BY SetOfSequence
<1>2. /\ Included = ChosenFrom[Len(rows)] /\ ChosenFrom[0] = <<>>
      /\ \A n \in 1..Len(rows) : ChosenFrom[n] = Joins(ChosenFrom[n - 1], n)
  BY IncludedEquation
<1>3. 0 \in G
  <2> HIDE DEF Good
  <2>1. <<>> \in Seq(Good)  OBVIOUS
  <2>2. ChosenFrom[0] \in Seq(Good)  BY <1>2, <2>1
  <2> QED  BY <1>1, <2>2
<1>4. ASSUME NEW n \in 1..Len(rows), n - 1 \in G PROVE n \in G
  <2>1. rows[n] \in ToSet(rows)  BY DEF ToSet
  <2>2. ~row[rows[n]].error => rows[n] \in Good  BY <2>1
  <2> HIDE DEF Good
  <2>3. Joins(ChosenFrom[n - 1], n) \in Seq(Good)  BY <1>4, <2>2 DEF Joins
  <2> QED  BY <1>1, <1>2, <2>3
<1>5. Included \in Seq(Good)
  <2>1. Len(rows) \in G
    <3> HIDE DEF G
    <3>1. 0..Len(rows) \subseteq G  BY <1>1, <1>3, <1>4, Induction
    <3> QED  BY <1>1, <3>1
  <2> HIDE DEF Good
  <2> QED  BY <1>2, <2>1
<1>6. ToSet(Included) \subseteq Good
  <2> HIDE DEF Good
  <2> QED  BY <1>5, SetOfSequence
<1>7. Included \in Seq(Keys)
  <2>1. Good \subseteq Keys  BY <1>1
  <2> HIDE DEF Good
  <2> QED  BY <1>5, <2>1
<1> QED  BY <1>6, <1>7

----------------------------------------------------------------------------
(* Types, and where the control is. *)
DupT == {"no", "session", "database"}

RowT == {r \in [error : BOOLEAN, photo : BOOLEAN, ready : BOOLEAN, dup : DupT] : r.error \/ r.photo}

EventT == [file : Files, row : RowT]

GenT == [pc : {"idle", "next", "ocr", "end"}, payloads : Seq(Files), seen : SUBSET Images,
         dup : DupT, abort : BOOLEAN]

Typed ==
    /\ current \in Nat /\ cuts \in Nat /\ awaiting \in BOOLEAN
    /\ stream \in Seq(EventT) /\ rows \in Seq(Keys) /\ row \in [Keys -> RowT]
    /\ gen \in [BatchNo -> GenT]
    /\ removed \subseteq Keys /\ queue \in Seq(Keys)

(* Nothing happened yet. *)
Fresh ==
    /\ stage = "upload" /\ current = 1 /\ ~awaiting /\ ~committing
    /\ stream = <<>> /\ rows = <<>> /\ queue = <<>>
    /\ removed = {} /\ readings = {} /\ stored = {} /\ registered = {}
    /\ \A b \in BatchNo : gen[b].pc = "idle"
    /\ \A k \in Keys : ~row[k].photo

Control ==
    /\ awaiting => stage = "scanning" /\ current <= Len(batches)
    /\ 1 <= current /\ current <= Len(batches) + 1
    /\ stage = "scanning" => ~committing /\ queue = <<>> /\ readings = {} /\ removed = {}
    /\ stream # <<>> => awaiting
    /\ batches = <<>> => Fresh
    /\ \A b \in BatchNo : gen[b].pc = "ocr" => gen[b].payloads # <<>>

Controlled == Built /\ Typed /\ Control

(* What a step does, in terms the invariants are about. *)
Failing ==
    /\ stage = "scanning" /\ current \in 1..Len(batches)
    /\ stream' = <<>> /\ FailBatch
    /\ (~awaiting /\ cuts' = cuts) \/ cuts' # 0
    /\ cuts' \in Nat
    /\ UNCHANGED <<stage, batches, server, readings, commits, removed>>

Resting ==
    /\ ~awaiting /\ batches # <<>> /\ stage' # "scanning"
    /\ UNCHANGED <<batches, current, awaiting, stream, server, cuts>>
    /\ rows' \in Seq(Keys) /\ row' \in [Keys -> RowT] /\ removed' \subseteq Keys /\ queue' \in Seq(Keys)
    /\ Reviewed' = Reviewed /\ (IsInjective(rows) => IsInjective(rows'))
    /\ \A k \in Keys : /\ row'[k].error = row[k].error
                       /\ row'[k].photo = row[k].photo
                       /\ row'[k].dup = row[k].dup

(* The photos that are there in both stores, and what is there in either   *)
(* without being the rest of something that failed.                        *)
Intact == stored \intersect registered

Loose == (stored \ spilled) \union (registered \ stray)

(* A step of the generator of batch b. *)
Generating(b) ==
    /\ b \in BatchNo /\ gen[b].pc \in {"next", "ocr"}
    /\ gen' \in [BatchNo -> GenT] /\ \A c \in BatchNo : c # b => gen'[c] = gen[c]
    /\ UNCHANGED <<client, readings, commits, history>>

Storing(b) ==
    LET g == gen[b]
        f == Head(g.payloads)
    IN  /\ Generating(b)
        /\ g.pc = "next" /\ g.payloads # <<>> /\ gen'[b].pc = "ocr" /\ gen'[b].payloads = g.payloads
        /\ gen'[b].seen = g.seen \union {ImageOf[f]}
        /\ gen'[b].dup = "no" => ImageOf[f] \notin g.seen
        /\ Intact' = Intact \union {f} /\ Loose' \subseteq Loose \union {f} /\ UNCHANGED stream

Delivering(b, r) ==
    LET g == gen[b]
        f == Head(g.payloads)
    IN  /\ Generating(b)
        /\ g.payloads # <<>> /\ gen'[b].pc = "next" /\ gen'[b].payloads = Tail(g.payloads)
        /\ g.seen \subseteq gen'[b].seen
        /\ r \in RowT
        /\ r.photo => g.pc = "ocr" /\ r.dup = g.dup /\ Intact' = Intact /\ Loose' = Loose
        /\ ~r.photo => /\ Intact \ {f} \subseteq Intact' /\ Loose' \subseteq Loose
                       /\ g.pc = "ocr" => f \notin Loose'
        /\ stream' = IF Connected(b) THEN Append(stream, [file |-> f, row |-> r]) ELSE stream

Ending(b) ==
    /\ Generating(b)
    /\ gen'[b].pc = "end" /\ gen'[b].payloads = gen[b].payloads /\ gen'[b].seen = gen[b].seen
    /\ (gen[b].pc = "next" /\ gen[b].payloads = <<>>) \/ ~Connected(b)
    /\ UNCHANGED <<stream, uploads>>

LEMMA GeneratorSteps ==
    ASSUME ImportAssumption, Controlled, NEW b \in BatchNo, GenStep(b)
    PROVE  Storing(b) \/ Ending(b) \/ \E r \in RowT : Delivering(b, r)
<1> DEFINE g == gen[b]
           f == Head(g.payloads)
<1>1. /\ g \in GenT /\ gen \in [BatchNo -> GenT]
      /\ g.pc = "ocr" => g.payloads # <<>>
      /\ g.payloads # <<>> => f \in Files /\ ImageOf[f] \in Images /\ Tail(g.payloads) \in Seq(Files)
  BY DEF Controlled, Typed, Control, GenT, ImportAssumption
<1>2. ErrorRow \in RowT /\ ErrorRow.photo = FALSE
  BY DEF ErrorRow, RowT, DupT
<1>3. \A d \in DupT : [ErrorRow EXCEPT !.dup = d] \in RowT /\ [ErrorRow EXCEPT !.dup = d].photo = FALSE
  BY DEF ErrorRow, RowT, DupT
<1>4. \A found \in BOOLEAN, d \in DupT :
         LET r == [error |-> FALSE, photo |-> TRUE, ready |-> found, dup |-> d]
         IN  r \in RowT /\ r.photo = TRUE /\ r.dup = d
  BY DEF RowT
<1>5. DuplicateOf(g, f) \in DupT /\ (DuplicateOf(g, f) = "no" => ImageOf[f] \notin g.seen)
  BY DEF DuplicateOf, DupT
<1>6. CASE GenStore(b)
  <2>1. Generating(b)
    <3>1. gen' \in [BatchNo -> GenT]
      <4> HIDE DEF DuplicateOf
      <4> QED  BY <1>1, <1>5, <1>6 DEF GenStore, GenT
    <3> QED  BY <1>1, <1>6, <3>1 DEF GenStore, Generating
  <2>2. /\ gen'[b].pc = "ocr" /\ gen'[b].payloads = g.payloads
        /\ gen'[b].seen = g.seen \union {ImageOf[f]} /\ gen'[b].dup = DuplicateOf(g, f)
    BY <1>1, <1>6 DEF GenStore, GenT
  <2>3. /\ g.pc = "next" /\ g.payloads # <<>> /\ UNCHANGED stream
        /\ Intact' = Intact \union {f} /\ Loose' \subseteq Loose \union {f}
    BY <1>6 DEF GenStore, Intact, Loose
  <2> QED  BY <1>5, <2>1, <2>2, <2>3 DEF Storing
<1>7. ASSUME NEW h \in GenT, h.payloads = g.payloads, h.seen = g.seen, g.payloads # <<>>, Advance(b, h)
      PROVE  /\ gen' \in [BatchNo -> GenT] /\ \A c \in BatchNo : c # b => gen'[c] = gen[c]
             /\ gen'[b].pc = "next" /\ gen'[b].payloads = Tail(g.payloads) /\ gen'[b].seen = g.seen
  BY <1>1, <1>7 DEF Advance, GenT, DupT
<1>8. CASE GenRefuse(b)
  <2>1. g.pc = "next" /\ g.payloads # <<>> /\ Advance(b, g) /\ Emit(b, f, ErrorRow)
        /\ UNCHANGED <<client, uploads, readings, commits, history>>
    BY <1>8 DEF GenRefuse
  <2>2. Delivering(b, ErrorRow)
    BY <1>1, <1>2, <1>7, <2>1 DEF Delivering, Generating, Emit, uploads, Intact, Loose
  <2> QED  BY <1>2, <2>2
<1>12. CASE GenStoreFails(b)
  <2> DEFINE h == [g EXCEPT !.seen = @ \union {ImageOf[f]}]
  <2>1. PICK d \in DupT : Emit(b, f, [ErrorRow EXCEPT !.dup = d])
    <3>1. ErrorRow = [ErrorRow EXCEPT !.dup = "no"] /\ "no" \in DupT
      BY DEF ErrorRow, DupT
    <3>2. Emit(b, f, [ErrorRow EXCEPT !.dup = DuplicateOf(g, f)]) \/ Emit(b, f, ErrorRow)
      BY <1>12 DEF GenStoreFails
    <3> HIDE DEF f
    <3> QED  BY <1>5, <3>1, <3>2
  <2> DEFINE r == [ErrorRow EXCEPT !.dup = d]
  <2>2. /\ g.pc = "next" /\ g.payloads # <<>> /\ Advance(b, h)
        /\ UNCHANGED <<client, readings, commits, history>>
        /\ Intact \subseteq Intact' /\ Loose' \subseteq Loose
    BY <1>12 DEF GenStoreFails, Intact, Loose
  <2>3. r \in RowT /\ r.photo = FALSE
    BY <1>3
  <2>4. h \in GenT /\ h.payloads = g.payloads /\ g.seen \subseteq h.seen /\ h.seen \subseteq Images
    BY <1>1, <2>2 DEF GenT
  <2> HIDE DEF r, h
  <2>5. /\ gen' \in [BatchNo -> GenT] /\ \A c \in BatchNo : c # b => gen'[c] = gen[c]
        /\ gen'[b].pc = "next" /\ gen'[b].payloads = Tail(g.payloads) /\ gen'[b].seen = h.seen
    BY <1>1, <2>2, <2>4 DEF Advance, GenT, DupT
  <2>6. Emit(b, f, r)
    BY <2>1 DEF r
  <2>7. Delivering(b, r)
    BY <1>1, <2>2, <2>3, <2>4, <2>5, <2>6 DEF Delivering, Generating, Emit
  <2> QED  BY <2>3, <2>7
<1>9. CASE \E found \in BOOLEAN : GenRead(b, found)
  <2>1. PICK found \in BOOLEAN : GenRead(b, found)  BY <1>9
  <2> DEFINE r == [error |-> FALSE, photo |-> TRUE, ready |-> found, dup |-> g.dup]
  <2>2. g.pc = "ocr" /\ Advance(b, g) /\ Emit(b, f, r)
        /\ UNCHANGED <<client, uploads, readings, commits, history>>
    BY <2>1 DEF GenRead
  <2>3. r \in RowT /\ r.photo = TRUE /\ r.dup = g.dup
    <3>1. g.dup \in DupT  BY <1>1 DEF GenT
    <3> QED  BY <1>4, <3>1
  <2> HIDE DEF r
  <2>4. Delivering(b, r)
    BY <1>1, <1>7, <2>2, <2>3 DEF Delivering, Generating, Emit, uploads, Intact, Loose
  <2> QED  BY <2>3, <2>4
<1>10. CASE GenLlmError(b) \/ GenError(b)
  <2> DEFINE r == [ErrorRow EXCEPT !.dup = g.dup]
             h == [g EXCEPT !.abort = TRUE]
  <2>1. /\ g.pc = "ocr" /\ (Advance(b, g) \/ Advance(b, h)) /\ Emit(b, f, r) /\ Discard(f)
        /\ UNCHANGED <<client, readings, commits, history>>
    BY <1>10 DEF GenLlmError, GenError
  <2>2. r \in RowT /\ r.photo = FALSE
    <3>1. g.dup \in DupT  BY <1>1 DEF GenT
    <3> QED  BY <1>3, <3>1
  <2>3. h \in GenT /\ h.payloads = g.payloads /\ h.seen = g.seen
    BY <1>1 DEF GenT
  <2> HIDE DEF r, h
  <2>4. /\ gen' \in [BatchNo -> GenT] /\ \A c \in BatchNo : c # b => gen'[c] = gen[c]
        /\ gen'[b].pc = "next" /\ gen'[b].payloads = Tail(g.payloads) /\ gen'[b].seen = g.seen
    BY <1>1, <1>7, <2>1, <2>3
  <2>5. Intact \ {f} \subseteq Intact' /\ Loose' \subseteq Loose /\ f \notin Loose'
    <3> HIDE DEF f
    <3> QED  BY <2>1 DEF Discard, Intact, Loose
  <2>6. Delivering(b, r)
    BY <1>1, <2>1, <2>2, <2>4, <2>5 DEF Delivering, Generating, Emit
  <2> QED  BY <2>2, <2>6
<1>11. CASE GenComplete(b) \/ GenCancelled(b)
  <2>1. /\ gen' = [gen EXCEPT ![b].pc = "end"] /\ gen[b].pc \in {"next", "ocr"}
        /\ (gen[b].pc = "next" /\ gen[b].payloads = <<>>) \/ ~Connected(b)
        /\ UNCHANGED <<client, stream, uploads, readings, commits, history>>
    BY <1>11 DEF GenComplete, GenCancelled
  <2>2. /\ gen' \in [BatchNo -> GenT] /\ \A c \in BatchNo : c # b => gen'[c] = gen[c]
        /\ gen'[b].pc = "end" /\ gen'[b].payloads = gen[b].payloads /\ gen'[b].seen = gen[b].seen
    BY <1>1, <2>1 DEF GenT
  <2> QED  BY <2>1, <2>2 DEF Ending, Generating
<1> QED  BY <1>6, <1>8, <1>9, <1>10, <1>11, <1>12 DEF GenStep

ReviewStep ==
    \/ FinishScan \/ (\E k \in Keys : Edit(k)) \/ (\E i \in DOMAIN rows : RemoveRow(i))
    \/ Cancel \/ CommitAll \/ CommitStep

LEMMA ReviewSteps ==
    ASSUME Controlled, ReviewStep
    PROVE  Resting
<1>1. /\ ~awaiting /\ batches # <<>> /\ stage' # "scanning"
      /\ UNCHANGED <<batches, current, awaiting, stream, server, cuts>>
  BY DEF Controlled, Control, Fresh, ReviewStep, FinishScan, Edit, RemoveRow, Cancel, CommitAll,
         CommitStep, CommitNext, CommitEnd, client, history, server
<1>2. /\ rows \in Seq(Keys) /\ row \in [Keys -> RowT] /\ removed \subseteq Keys /\ queue \in Seq(Keys)
      /\ ToSet(rows) \subseteq Keys /\ DOMAIN rows = 1..Len(rows)
  BY SetOfSequence DEF Controlled, Typed
<1>3. queue' \in Seq(Keys)
  <2>1. CASE CommitAll  BY <1>2, <2>1, IncludedRows DEF CommitAll
  <2>2. CASE CommitNext  BY <1>2, <2>2, HeadAndTail DEF CommitNext
  <2>3. CASE UNCHANGED queue  BY <1>2, <2>3
  <2> QED  BY <2>1, <2>2, <2>3 DEF ReviewStep, FinishScan, Edit, RemoveRow, Cancel, CommitStep,
                                   CommitEnd, commits
<1>4. CASE \E k \in Keys : Edit(k)
  <2>1. PICK k \in Keys : Edit(k)  BY <1>4
  <2>2. rows' = rows /\ removed' = removed /\ row' = [row EXCEPT ![k].ready = ~@]
    BY <2>1 DEF Edit, history
  <2>3. /\ row' \in [Keys -> RowT]
        /\ \A l \in Keys : /\ row'[l].error = row[l].error
                           /\ row'[l].photo = row[l].photo
                           /\ row'[l].dup = row[l].dup
    BY <1>2, <2>2 DEF RowT
  <2> QED  BY <1>1, <1>2, <1>3, <2>2, <2>3 DEF Resting, Reviewed
<1>5. CASE \E i \in DOMAIN rows : RemoveRow(i)
  <2>1. PICK i \in 1..Len(rows) : RemoveRow(i)  BY <1>2, <1>5
  <2>2. /\ rows' = RemoveAt(rows, i) /\ removed' = removed \union {rows[i]} /\ row' = row
    BY <2>1 DEF RemoveRow
  <2>3. rows' \in Seq(Keys) /\ ToSet(rows') \union {rows[i]} = ToSet(rows)
        /\ (IsInjective(rows) => IsInjective(rows'))
    BY <1>2, <2>2, Removed
  <2>4. Reviewed' = Reviewed /\ removed' \subseteq Keys
    BY <1>2, <2>2, <2>3 DEF Reviewed
  <2> QED  BY <1>1, <1>2, <1>3, <2>2, <2>3, <2>4 DEF Resting
<1>6. CASE Cancel
  <2>1. rows' = <<>> /\ removed' = removed \union ToSet(rows) /\ row' = row
    BY <1>6 DEF Cancel
  <2>2. rows' \in Seq(Keys) /\ ToSet(rows') = {} /\ IsInjective(rows')
    <3>1. <<>> \in Seq(Keys) /\ ToSet(<<>>) = {} /\ IsInjective(<<>>)
      BY DEF ToSet, IsInjective
    <3> QED  BY <2>1, <3>1
  <2>3. Reviewed' = Reviewed /\ removed' \subseteq Keys
    BY <1>2, <2>1, <2>2 DEF Reviewed
  <2> QED  BY <1>1, <1>2, <1>3, <2>1, <2>2, <2>3 DEF Resting
<1>7. CASE UNCHANGED <<rows, row, removed>>
  BY <1>1, <1>2, <1>3, <1>7 DEF Resting, Reviewed
<1> QED  BY <1>4, <1>5, <1>6, <1>7 DEF ReviewStep, FinishScan, CommitAll, CommitStep, CommitNext,
                                       CommitEnd, client, history

LEMMA FailingSteps ==
    ASSUME ImportAssumption, Controlled, Refused \/ Break
    PROVE  Failing
<1>1. current \in Nat /\ cuts \in Nat /\ Len(batches) \in Nat
  BY BuiltBatches DEF Controlled, Typed, Batched
<1>2. stage = "scanning" /\ current \in 1..Len(batches)
  BY <1>1 DEF Controlled, Control, Refused, Break
<1>3. CASE Refused
  BY <1>1, <1>2, <1>3 DEF Controlled, Control, Refused, Failing, history
<1>4. CASE Break
  BY <1>1, <1>2, <1>4 DEF Break, Failing
<1> QED  BY <1>3, <1>4

(* The steps of Next by their effects. *)
Step ==
    \/ \E files \in Selections : StartScan(files)
    \/ Send \/ Failing \/ Receive \/ EndOfStream \/ Resting
    \/ \E b \in BatchNo : Storing(b) \/ Ending(b) \/ \E r \in RowT : Delivering(b, r)
    \/ UNCHANGED vars

LEMMA StepOfNext == ASSUME ImportAssumption, Controlled, [Next]_vars PROVE Step
<1>1. Next =>
        \/ \E files \in Selections : StartScan(files)
        \/ Send \/ Receive \/ EndOfStream \/ Refused \/ Break \/ ReviewStep
        \/ \E b \in BatchNo : GenStep(b)
  BY DEF Next, ScanStep, ReviewStep
<1> QED  BY <1>1, GeneratorSteps, ReviewSteps, FailingSteps DEF Step

----------------------------------------------------------------------------
(* Types and control are kept. *)
LEMMA BatchNumbers ==
    ASSUME ImportAssumption, Built
    PROVE  /\ Len(batches) \in Nat
           /\ \A i \in 1..Len(batches) : i \in BatchNo /\ batches[i] \in Seq(Files) /\ batches[i] # <<>>
                                         /\ IsInjective(batches[i]) /\ ToSet(batches[i]) \subseteq Files
<1>1. Cardinality(Files) \in Nat
  BY FS_CardinalityType DEF ImportAssumption
<1>2. Len(batches) \in Nat /\ Len(batches) <= Cardinality(Files) /\ \A i \in 1..Len(batches) : Batch(batches[i])
  BY BuiltBatches DEF Batched
<1>3. ASSUME NEW i \in 1..Len(batches)
      PROVE  /\ i \in BatchNo /\ batches[i] \in Seq(Files) /\ batches[i] # <<>>
             /\ IsInjective(batches[i]) /\ ToSet(batches[i]) \subseteq Files
  <2>1. Batch(batches[i])  BY <1>2
  <2>2. batches[i] \in Seq(Files) /\ batches[i] # <<>> /\ IsInjective(batches[i])
    BY <2>1 DEF Batch
  <2>3. ToSet(batches[i]) \subseteq Files  BY <2>2, SetOfSequence
  <2> QED  BY <1>1, <1>2, <2>2, <2>3 DEF BatchNo
<1> QED  BY <1>2, <1>3

(* The rows that stand for a failed batch. *)
FailedKeys == [i \in DOMAIN batches[current] |-> [file |-> batches[current][i], from |-> "catch"]]

LEMMA FailedRows ==
    ASSUME ImportAssumption, Controlled, Failing
    PROVE  /\ FailedKeys \in Seq(Keys) /\ IsInjective(FailedKeys)
           /\ ToSet(FailedKeys) = {[file |-> f, from |-> "catch"] : f \in ToSet(batches[current])}
           /\ rows' = rows \o FailedKeys /\ ~awaiting' /\ current' = current + 1
           /\ row' = [k \in Keys |-> IF k \in ToSet(FailedKeys) THEN ErrorRow ELSE row[k]]
           /\ row' \in [Keys -> RowT] /\ rows' \in Seq(Keys)
<1> DEFINE b == batches[current]
           keys == FailedKeys
<1>1. b \in Seq(Files) /\ IsInjective(b) /\ DOMAIN b = 1..Len(b) /\ Len(b) \in Nat
  BY BatchNumbers, SetOfSequence DEF Controlled, Failing
<1>2. /\ rows' = rows \o FailedKeys /\ ~awaiting' /\ current' = current + 1
      /\ row' = [k \in Keys |-> IF k \in ToSet(FailedKeys) THEN ErrorRow ELSE row[k]]
  BY DEF Failing, FailBatch, FailedKeys
<1>3. DOMAIN keys = 1..Len(b) /\ \A i \in 1..Len(b) : keys[i] = [file |-> b[i], from |-> "catch"]
  BY <1>1 DEF FailedKeys
<1> HIDE DEF b
<1>4. keys \in [1..Len(b) -> Keys]
  <2>1. ASSUME NEW i \in 1..Len(b) PROVE [file |-> b[i], from |-> "catch"] \in Keys
    BY <1>1 DEF Keys
  <2>2. keys = [i \in 1..Len(b) |-> [file |-> b[i], from |-> "catch"]]
    BY <1>1 DEF FailedKeys, b
  <2> QED  BY <2>1, <2>2
<1>5. keys \in Seq(Keys)
  BY <1>1, <1>4, SeqDef
<1>6. IsInjective(keys)
  BY <1>1, <1>3 DEF IsInjective
<1>7. ToSet(keys) = {[file |-> f, from |-> "catch"] : f \in ToSet(b)}
  BY <1>1, <1>3 DEF ToSet
<1>8. row' \in [Keys -> RowT] /\ rows' \in Seq(Keys)
  <2>1. ErrorRow \in RowT  BY DEF ErrorRow, RowT, DupT
  <2>2. row' \in [Keys -> RowT]  BY <1>2, <2>1 DEF Controlled, Typed
  <2>3. rows' \in Seq(Keys)  BY <1>2, <1>5, Joined DEF Controlled, Typed
  <2> QED  BY <2>2, <2>3
<1> QED  BY <1>2, <1>5, <1>6, <1>7, <1>8 DEF b

LEMMA ControlKept == ASSUME ImportAssumption, Controlled, Step PROVE Controlled'
<1>1. Built'
  <2>1. \/ \E files \in Selections : StartScan(files)
        \/ UNCHANGED batches
    BY DEF Step, Send, Failing, Receive, EndOfStream, Resting, Generating, Storing, Ending, Delivering,
           vars, client
  <2> QED  BY <2>1 DEF Controlled, Built, StartScan
<1>2. Len(batches) \in Nat /\ \A i \in 1..Len(batches) : i \in BatchNo /\ batches[i] \in Seq(Files)
  BY BatchNumbers DEF Controlled
<1>3. CASE \E files \in Selections : StartScan(files)
  <2>1. PICK files \in Selections : StartScan(files)  BY <1>3
  <2>2. batches' # <<>> /\ Len(batches') >= 1
    <3>1. Packed(BuildBatches(files), Len(files), files) /\ files \in Seq(Files) /\ files # <<>>
      BY <2>1, BatchesOfASelection DEF ImportAssumption, StartScan
    <3>2. batches' # <<>>  BY <2>1, <3>1 DEF Packed, StartScan
    <3> DEFINE T == Seq(Files)
    <3>3. batches' \in Seq(T)  BY <2>1, <3>1 DEF Packed, StartScan
    <3> HIDE DEF T
    <3> QED  BY <3>2, <3>3
  <2>3. Fresh  BY <2>1 DEF Controlled, Control, StartScan
  <2>4. stage' = "scanning" /\ UNCHANGED <<current, awaiting, rows, row, stream, gen, readings,
                                           committing, queue, removed, cuts>>
    BY <2>1 DEF StartScan, server, commits, history
  <2>5. Typed'  BY <2>4 DEF Controlled, Typed
  <2>6. Control'
    <3>1. Len(batches') \in Nat
      BY <1>1, BuiltBatches DEF Batched, Built
    <3> QED  BY <2>2, <2>3, <2>4, <3>1 DEF Controlled, Control, Fresh
  <2> QED  BY <1>1, <2>5, <2>6 DEF Controlled
<1>4. CASE Send
  <2>1. current \in 1..Len(batches) /\ current \in BatchNo
    BY <1>2, <1>4 DEF Controlled, Control, Typed, Send
  <2> DEFINE g == [Idle EXCEPT !.pc = "next", !.payloads = batches[current]]
  <2>2. g \in GenT /\ g.pc = "next"
    BY <1>2, <2>1 DEF GenT, Idle, DupT
  <2>3. /\ awaiting' = TRUE /\ gen' = [gen EXCEPT ![current] = g] /\ stage = "scanning"
        /\ UNCHANGED <<stage, batches, current, rows, row, stream, readings, committing, queue, removed, cuts>>
    BY <1>4 DEF Send, commits, history
  <2> HIDE DEF g
  <2>4. Typed'  BY <2>1, <2>2, <2>3 DEF Controlled, Typed
  <2>5. Control'
    <3>1. batches # <<>>  BY <1>2, <2>1
    <3>2. gen'[current].pc = "next" /\ \A b \in BatchNo : b # current => gen'[b] = gen[b]
      BY <2>1, <2>2, <2>3 DEF Controlled, Typed
    <3> QED  BY <2>1, <2>3, <3>1, <3>2 DEF Controlled, Control
  <2> QED  BY <1>1, <2>4, <2>5 DEF Controlled
<1>5. CASE Failing
  <2>1. /\ ~awaiting' /\ current' = current + 1 /\ row' \in [Keys -> RowT] /\ rows' \in Seq(Keys)
        /\ awaiting' = FALSE
    BY <1>5, FailedRows DEF Failing, FailBatch
  <2>2. /\ stage = "scanning" /\ current \in 1..Len(batches) /\ stream' = <<>> /\ cuts' \in Nat
        /\ UNCHANGED <<stage, batches, gen, readings, committing, queue, removed>>
    BY <1>5 DEF Failing, server, commits
  <2>3. Typed'
    <3>1. stream' \in Seq(EventT)
      <4>1. <<>> \in Seq(EventT)  OBVIOUS
      <4> QED  BY <2>2, <4>1
    <3>2. current' \in Nat  BY <2>1 DEF Controlled, Typed
    <3> QED  BY <2>1, <2>2, <3>1, <3>2 DEF Controlled, Typed
  <2>4. Control'
    <3>1. batches # <<>>  BY <1>2, <2>2
    <3> QED  BY <1>2, <2>1, <2>2, <3>1 DEF Controlled, Control, Typed
  <2> QED  BY <1>1, <2>3, <2>4 DEF Controlled
<1>6. CASE Receive
  <2> DEFINE e == Head(stream)
             k == [file |-> e.file, from |-> "stream"]
  <2>1. /\ awaiting /\ stream # <<>> /\ rows' = Append(rows, k) /\ row' = [row EXCEPT ![k] = e.row]
        /\ stream' = Tail(stream)
        /\ UNCHANGED <<stage, batches, current, awaiting, gen, readings, committing, queue, removed, cuts>>
    BY <1>6 DEF Receive, server, commits, history
  <2>2. e \in EventT /\ stream' \in Seq(EventT)  BY <2>1, HeadAndTail DEF Controlled, Typed
  <2>3. k \in Keys /\ e.row \in RowT  BY <2>2 DEF EventT, Keys
  <2> HIDE DEF k, e
  <2>4. Typed'
    <3>1. rows' \in Seq(Keys)  BY <2>1, <2>3, Appended DEF Controlled, Typed
    <3>2. row' \in [Keys -> RowT]  BY <2>1, <2>3 DEF Controlled, Typed
    <3>3. stream' \in Seq(EventT) /\ UNCHANGED <<current, cuts, awaiting, gen, removed, queue>>
      BY <2>1, <2>2
    <3> QED  BY <3>1, <3>2, <3>3 DEF Controlled, Typed
  <2>5. Control'
    <3>1. batches # <<>>  BY <2>1 DEF Controlled, Control, Fresh
    <3> QED  BY <2>1, <3>1 DEF Controlled, Control
  <2> QED  BY <1>1, <2>4, <2>5 DEF Controlled
<1>7. CASE EndOfStream
  <2>1. /\ awaiting /\ stream = <<>> /\ awaiting' = FALSE /\ current' = current + 1
        /\ UNCHANGED <<stage, batches, rows, row, stream, gen, readings, committing, queue, removed, cuts>>
    BY <1>7 DEF EndOfStream, server, commits, history
  <2>2. Typed'
    <3>1. current' \in Nat /\ awaiting' \in BOOLEAN
      <4>1. current \in Nat  BY DEF Controlled, Typed
      <4>2. current + 1 \in Nat  BY <4>1
      <4> QED  BY <2>1, <4>2
    <3>2. UNCHANGED <<cuts, stream, rows, row, gen, removed, queue>>  BY <2>1
    <3> QED  BY <3>1, <3>2 DEF Controlled, Typed
  <2>3. Control'
    <3>1. batches # <<>>  BY <2>1 DEF Controlled, Control, Fresh
    <3> QED  BY <1>2, <2>1, <3>1 DEF Controlled, Control, Typed
  <2> QED  BY <1>1, <2>2, <2>3 DEF Controlled
<1>8. CASE Resting
  <2>1. Typed'  BY <1>8 DEF Resting, server, Controlled, Typed
  <2>2. Control'  BY <1>8 DEF Resting, server, Controlled, Control
  <2> QED  BY <1>1, <2>1, <2>2 DEF Controlled
<1>9. ASSUME NEW b \in BatchNo, Generating(b), stream' \in Seq(EventT), stream' # <<>> => awaiting,
             gen'[b].pc = "ocr" => gen'[b].payloads # <<>>
      PROVE  Controlled'
  <2>1. /\ gen[b].pc # "idle" /\ gen' \in [BatchNo -> GenT] /\ \A c \in BatchNo : c # b => gen'[c] = gen[c]
        /\ UNCHANGED <<stage, batches, current, awaiting, rows, row, readings, committing, queue, removed, cuts>>
    BY <1>9 DEF Generating, client, commits, history
  <2>2. Typed'  BY <1>9, <2>1 DEF Controlled, Typed
  <2>3. Control'
    <3>1. batches # <<>>  BY <2>1 DEF Controlled, Control, Fresh
    <3> QED  BY <1>9, <2>1, <3>1 DEF Controlled, Control
  <2> QED  BY <1>1, <2>2, <2>3 DEF Controlled
<1>10. ASSUME NEW b \in BatchNo, Storing(b) \/ Ending(b) \/ \E r \in RowT : Delivering(b, r)
       PROVE  Controlled'
  <2>1. stream \in Seq(EventT) /\ (stream # <<>> => awaiting)  BY DEF Controlled, Typed, Control
  <2>2. CASE Storing(b)  BY <1>9, <2>1, <2>2 DEF Storing
  <2>3. CASE Ending(b)  BY <1>9, <2>1, <2>3 DEF Ending
  <2>4. ASSUME NEW r \in RowT, Delivering(b, r) PROVE Controlled'
    <3> DEFINE e == [file |-> Head(gen[b].payloads), row |-> r]
    <3>1. e \in EventT
      <4>1. gen[b].payloads \in Seq(Files) /\ gen[b].payloads # <<>>
        BY <2>4 DEF Delivering, Controlled, Typed, GenT
      <4>2. Head(gen[b].payloads) \in Files  BY <4>1
      <4> QED  BY <4>2 DEF EventT
    <3>2. stream' = IF Connected(b) THEN Append(stream, e) ELSE stream
      BY <2>4 DEF Delivering
    <3>3. stream' \in Seq(EventT) /\ (stream' # <<>> => awaiting)
      <4> HIDE DEF e
      <4> QED  BY <2>1, <3>1, <3>2 DEF Connected
    <3> QED  BY <1>9, <2>4, <3>3 DEF Delivering
  <2> QED  BY <1>10, <2>2, <2>3, <2>4
<1>11. CASE UNCHANGED vars
  <2>1. Typed'
    BY <1>11 DEF vars, client, server, commits, history, Controlled, Typed
  <2>2. Control'
    BY <1>11 DEF vars, client, server, uploads, commits, history, Controlled, Control, Fresh
  <2> QED  BY <1>1, <2>1, <2>2 DEF Controlled
<1> QED  BY <1>3, <1>4, <1>5, <1>6, <1>7, <1>8, <1>10, <1>11 DEF Step

----------------------------------------------------------------------------
(* What is in the queue or saved is a reviewed row without an error.  An   *)
(* image is saved once, because a row that is saved has a photo; and so    *)
(* every answer that counts stands for a reading of its own.               *)
Honest ==
    /\ \A k \in ToSet(queue) \union readings : k \in Reviewed /\ ~row[k].error
    /\ \A k, l \in readings : ImageOf[k.file] = ImageOf[l.file] => k = l
    /\ IsFiniteSet(readings) /\ commitSaved <= Cardinality(readings)
    /\ commitDone \in Nat /\ commitSaved \in Nat /\ commitFailed \in Nat
    /\ commitDone = commitSaved + commitFailed

counted == <<queue, commitDone, commitSaved, commitFailed>>

LEMMA HonestAtRest ==
    ASSUME Controlled, Honest, UNCHANGED counted, UNCHANGED readings,
           \A k \in Keys : k \in Reviewed /\ k \in ToSet(queue) \union readings
                              => k \in Reviewed' /\ row'[k].error = row[k].error
    PROVE  Honest'
<1>1. Reviewed \subseteq Keys
  BY SetOfSequence DEF Controlled, Typed, Reviewed
<1>2. UNCHANGED <<queue, readings, commitDone, commitSaved, commitFailed>>
  BY DEF counted
<1>3. ToSet(queue') = ToSet(queue)
  BY <1>2
<1>4. ASSUME NEW k \in ToSet(queue') \union readings' PROVE k \in Reviewed' /\ ~row'[k].error
  BY <1>1, <1>2, <1>3 DEF Honest
<1> QED  BY <1>2, <1>4 DEF Honest

LEMMA CommitKeepsHonest ==
    ASSUME ImportAssumption, Controlled, Honest, CommitAll \/ CommitNext
    PROVE  Honest'
<1>1. /\ rows \in Seq(Keys) /\ queue \in Seq(Keys) /\ UNCHANGED <<rows, row, removed>>
      /\ row \in [Keys -> RowT]
  BY DEF Controlled, Typed, CommitAll, CommitNext, client, history
<1>2. UNCHANGED Reviewed /\ Reviewed \subseteq Keys
  BY <1>1, SetOfSequence DEF Reviewed, Controlled, Typed
<1>3. CASE CommitAll
  <2>1. queue' = Included /\ readings' = readings /\ commitDone' = 0 /\ commitSaved' = 0 /\ commitFailed' = 0
    BY <1>3 DEF CommitAll
  <2>2. \A k \in ToSet(queue') : k \in Reviewed /\ ~row[k].error
    BY <1>1, <2>1, IncludedRows DEF Reviewed
  <2>3. Cardinality(readings) \in Nat  BY FS_CardinalityType DEF Honest
  <2>4. \A k \in ToSet(queue') \union readings' : k \in Reviewed' /\ ~row'[k].error
    BY <1>1, <1>2, <2>1, <2>2 DEF Honest
  <2> QED  BY <2>1, <2>3, <2>4 DEF Honest
<1>4. CASE CommitNext
  <2> DEFINE k == Head(queue)
  <2>1. k \in ToSet(queue) /\ k \in Keys /\ ToSet(queue') \subseteq ToSet(queue)
    BY <1>1, <1>4, HeadAndTail DEF CommitNext
  <2>2. k \in Reviewed /\ ~row[k].error /\ row[k].photo
    <3>1. row[k] \in RowT  BY <1>1, <2>1
    <3> QED  BY <2>1, <3>1 DEF Honest, RowT
  <2>3. commitDone' = commitDone + 1
    BY <1>4 DEF CommitNext
  <2>4. CASE readings' = readings /\ commitFailed' = commitFailed + 1 /\ commitSaved' = commitSaved
    <3>1. \A l \in ToSet(queue') \union readings' : l \in Reviewed' /\ ~row'[l].error
      BY <1>1, <1>2, <2>1, <2>4 DEF Honest
    <3> QED  BY <2>3, <2>4, <3>1 DEF Honest
  <2>5. CASE /\ Acceptable(k) /\ readings' = readings \union {k}
             /\ \/ commitSaved' = commitSaved + 1 /\ commitFailed' = commitFailed
                \/ commitFailed' = commitFailed + 1 /\ commitSaved' = commitSaved
    <3>1. ImageOf[k.file] \notin SavedImages
      BY <2>2, <2>5 DEF Acceptable
    <3>2. \A l \in readings : ImageOf[l.file] # ImageOf[k.file]
      BY <3>1 DEF SavedImages
    <3>3. IsFiniteSet(readings') /\ Cardinality(readings') = Cardinality(readings) + 1
      <4>1. k \notin readings  BY <3>2
      <4> HIDE DEF k
      <4> QED  BY <2>5, <4>1, FS_AddElement DEF Honest
    <3>4. \A l \in ToSet(queue') \union readings' : l \in Reviewed' /\ ~row'[l].error
      BY <1>1, <1>2, <2>1, <2>2, <2>5 DEF Honest
    <3>5. \A l, m \in readings' : ImageOf[l.file] = ImageOf[m.file] => l = m
      BY <2>5, <3>2 DEF Honest
    <3>6. /\ commitDone' = commitSaved' + commitFailed' /\ commitSaved' \in Nat /\ commitFailed' \in Nat
          /\ commitDone' \in Nat /\ commitSaved' <= commitSaved + 1
      BY <2>3, <2>5 DEF Honest
    <3>7. commitSaved' <= Cardinality(readings')
      <4>1. Cardinality(readings) \in Nat  BY FS_CardinalityType DEF Honest
      <4> QED  BY <3>3, <3>6, <4>1 DEF Honest
    <3> QED  BY <3>3, <3>4, <3>5, <3>6, <3>7 DEF Honest
  <2> QED  BY <1>4, <2>4, <2>5 DEF CommitNext
<1> QED  BY <1>3, <1>4

LEMMA HonestKept == ASSUME ImportAssumption, Controlled, Honest, [Next]_vars PROVE Honest'
<1>1. Step
  BY StepOfNext
<1>2. CASE CommitAll \/ CommitNext
  BY <1>2, CommitKeepsHonest
<1>3. CASE ReviewStep /\ ~(CommitAll \/ CommitNext)
  <2>1. Resting  BY <1>3, ReviewSteps
  <2>2. UNCHANGED counted /\ UNCHANGED readings
    BY <1>3 DEF ReviewStep, FinishScan, Edit, RemoveRow, Cancel, CommitStep, CommitEnd, commits, counted
  <2> QED  BY <2>1, <2>2, HonestAtRest DEF Resting
<1>4. ASSUME UNCHANGED counted, UNCHANGED readings, UNCHANGED <<rows, row, removed>>
      PROVE  Honest'
  <2>1. UNCHANGED Reviewed  BY <1>4 DEF Reviewed
  <2> QED  BY <1>4, <2>1, HonestAtRest
<1>5. ASSUME UNCHANGED counted, UNCHANGED readings, stage = "scanning"
      PROVE  Honest'
  <2>1. ToSet(queue) \union readings = {}
    BY <1>5 DEF Controlled, Control, ToSet
  <2> QED  BY <1>5, <2>1, HonestAtRest
<1>6. CASE \E files \in Selections : StartScan(files)
  BY <1>4, <1>6 DEF StartScan, history, commits, counted
<1>7. CASE Send \/ EndOfStream
  BY <1>4, <1>7 DEF Send, EndOfStream, history, commits, counted
<1>8. CASE Receive
  BY <1>5, <1>8 DEF Controlled, Control, Receive, commits, counted
<1>9. CASE Refused \/ Break
  <2>1. Failing  BY <1>9, FailingSteps
  <2> QED  BY <1>5, <2>1 DEF Failing, commits, counted
<1>10. CASE \E b \in BatchNo : GenStep(b)
  <2>1. \E b \in BatchNo : Generating(b)
    BY <1>10, GeneratorSteps DEF Storing, Ending, Delivering
  <2> QED  BY <1>4, <2>1 DEF Generating, client, history, commits, counted
<1>11. CASE UNCHANGED vars
  BY <1>4, <1>11 DEF vars, client, history, commits, counted
<1> QED  BY <1>2, <1>3, <1>6, <1>7, <1>8, <1>9, <1>10, <1>11 DEF Next, ScanStep, ReviewStep

LEMMA InitControlled == ASSUME ImportAssumption, Init PROVE Controlled /\ Honest
<1>1. ErrorRow \in RowT /\ ErrorRow.photo = FALSE
  BY DEF ErrorRow, RowT, DupT
<1>2. Idle \in GenT /\ Idle.pc = "idle"
  BY DEF Idle, GenT, DupT
<1>3. <<>> \in Seq(EventT) /\ <<>> \in Seq(Keys)
  OBVIOUS
<1>4. Typed
  BY <1>1, <1>2, <1>3 DEF Init, Typed
<1>5. Fresh
  BY <1>1, <1>2 DEF Init, Fresh
<1>6. Control
  <2> DEFINE T == Seq(Files)
  <2>1. Len(batches) = 0  BY DEF Init
  <2> QED  BY <1>2, <1>5, <2>1 DEF Init, Control
<1>7. Honest
  <2>1. queue = <<>> /\ readings = {} /\ commitDone = 0 /\ commitSaved = 0 /\ commitFailed = 0
    BY DEF Init
  <2>2. IsFiniteSet({}) /\ Cardinality({}) = 0  BY FS_EmptySet
  <2>3. ToSet(queue) = {}  BY <2>1 DEF ToSet
  <2> QED  BY <2>1, <2>2, <2>3 DEF Honest
<1> QED  BY <1>4, <1>6, <1>7 DEF Controlled, Built, Init

(* Whatever is edited, removed or cancelled while rows are being saved: a   *)
(* reading is of a reviewed row without an error, an image is saved once,  *)
(* and the summary claims no more than was saved.                          *)
THEOREM CommitsAreHonest == ASSUME ImportAssumption PROVE Spec => []CommitIsHonest
<1>1. Init => Controlled /\ Honest
  BY InitControlled
<1>2. Controlled /\ Honest /\ [Next]_vars => (Controlled /\ Honest)'
  BY HonestKept, StepOfNext, ControlKept
<1>3. Controlled /\ Honest => CommitIsHonest
  BY DEF Honest, CommitIsHonest
<1> QED BY <1>1, <1>2, <1>3, PTL DEF Spec

----------------------------------------------------------------------------
(* The flow of the files: from the batch to the generator, the stream and   *)
(* the rows, no file on two of these ways at once.                          *)
StreamKey(f) == [file |-> f, from |-> "stream"]

Unseen(f) == StreamKey(f) \notin Reviewed /\ \A e \in ToSet(stream) : e.file # f

(* A row is of a batch that is through or, if it was read, being scanned. *)
Origin(k) ==
    \E i \in 1..Len(batches) :
        k.file \in ToSet(batches[i]) /\ (i < current \/ (i = current /\ awaiting /\ k.from = "stream"))

Running(b) ==
    gen[b].pc # "idle" =>
        /\ b < current \/ (b = current /\ awaiting)
        /\ IsInjective(gen[b].payloads)
        /\ \A f \in ToSet(gen[b].payloads) : f \in ToSet(batches[b]) /\ Unseen(f)
        /\ gen[b].pc = "end" /\ b = current /\ awaiting => gen[b].payloads = <<>>

Underway(f) ==
    f \in ToSet(gen[current].payloads) \/ (\E e \in ToSet(stream) : e.file = f) \/ StreamKey(f) \in Reviewed

Streaming ==
    /\ Distinct(stream)
    /\ \A e \in ToSet(stream) : e.file \in ToSet(batches[current]) /\ StreamKey(e.file) \notin Reviewed

Photos == \A k \in Keys : row[k].photo => k \in Reviewed /\ k.from = "stream"

Covered ==
    /\ \A i \in 1..(current - 1) : \A f \in ToSet(batches[i]) : \E k \in Reviewed : k.file = f
    /\ awaiting => gen[current].pc # "idle" /\ \A f \in ToSet(batches[current]) : Underway(f)

Flow ==
    /\ \A k \in Reviewed : Origin(k)
    /\ \A b \in BatchNo : Running(b)
    /\ Streaming /\ Photos /\ IsInjective(rows) /\ Covered

LEMMA Facts ==
    ASSUME ImportAssumption, Controlled
    PROVE  /\ Reviewed \subseteq Keys /\ ToSet(rows) \subseteq Reviewed /\ ToSet(stream) \subseteq EventT
           /\ current \in Nat /\ 1 <= current /\ Len(batches) \in Nat
           /\ (~awaiting => stream = <<>> /\ ToSet(stream) = {})
           /\ \A i \in 1..Len(batches) : i \in BatchNo
           /\ \A b \in BatchNo : gen[b] \in GenT /\ b \in Nat
           /\ \A i, j \in 1..Len(batches) : \A f : f \in ToSet(batches[i]) /\ f \in ToSet(batches[j]) => i = j
<1>1. Reviewed \subseteq Keys /\ ToSet(rows) \subseteq Reviewed /\ ToSet(stream) \subseteq EventT
  BY SetOfSequence DEF Controlled, Typed, Reviewed
<1>2. current \in Nat /\ 1 <= current /\ Len(batches) \in Nat /\ \A i \in 1..Len(batches) : i \in BatchNo
  BY BatchNumbers DEF Controlled, Typed, Control
<1>3. ~awaiting => stream = <<>> /\ ToSet(stream) = {}
  BY SetOfSequence DEF Controlled, Control, Typed
<1>4. \A b \in BatchNo : gen[b] \in GenT /\ b \in Nat
  BY DEF Controlled, Typed, BatchNo
<1>5. \A i, j \in 1..Len(batches) : \A f : f \in ToSet(batches[i]) /\ f \in ToSet(batches[j]) => i = j
  BY BuiltBatches DEF Controlled, Batched
<1> QED  BY <1>1, <1>2, <1>3, <1>4, <1>5

LEMMA OneBatch ==
    ASSUME ImportAssumption, Controlled, NEW i \in 1..Len(batches), NEW j \in 1..Len(batches), i < j,
           NEW f, f \in ToSet(batches[i]), f \in ToSet(batches[j])
    PROVE  FALSE
<1>1. i = j  BY Facts
<1>2. i \in Nat /\ j \in Nat  BY Facts
<1> QED  BY <1>1, <1>2

LEMMA StartKeepsFlow ==
    ASSUME ImportAssumption, Controlled, NEW files \in Selections, StartScan(files)
    PROVE  Flow'
<1>1. /\ Fresh /\ UNCHANGED <<current, awaiting, rows, row, stream, gen, removed>>
  BY DEF Controlled, Control, StartScan, server, history
<1>2. Reviewed' = {} /\ ToSet(stream') = {} /\ Len(stream') = 0
  BY <1>1 DEF Fresh, Reviewed, ToSet
<1>3. IsInjective(rows') /\ Distinct(stream')
  BY <1>1, <1>2 DEF Fresh, IsInjective, Distinct
<1>4. /\ current' = 1 /\ ~awaiting' /\ \A b \in BatchNo : gen'[b].pc = "idle"
      /\ \A k \in Keys : ~row'[k].photo
  BY <1>1 DEF Fresh
<1> QED  BY <1>2, <1>3, <1>4 DEF Flow, Running, Streaming, Photos, Covered

LEMMA SendKeepsFlow ==
    ASSUME ImportAssumption, Controlled, Flow, Send
    PROVE  Flow'
<1> DEFINE g == [Idle EXCEPT !.pc = "next", !.payloads = batches[current]]
<1>1. /\ ~awaiting /\ awaiting' /\ gen' = [gen EXCEPT ![current] = g]
      /\ UNCHANGED <<batches, current, rows, row, stream, removed>>
      /\ current \in 1..Len(batches) /\ current \in BatchNo
  <2>1. current \in 1..Len(batches)  BY Facts DEF Send
  <2> QED  BY <2>1, Facts DEF Send, history
<1>2. Reviewed' = Reviewed /\ ToSet(stream') = {} /\ ToSet(stream) = {}
  BY <1>1, Facts DEF Reviewed
<1>3. /\ gen'[current].pc = "next" /\ gen'[current].payloads = batches[current]
      /\ \A b \in BatchNo : b # current => gen'[b] = gen[b]
  BY <1>1 DEF Controlled, Typed, Idle
<1>4. \A k \in Reviewed' : Origin(k)'
  BY <1>1, <1>2 DEF Flow, Origin
<1>5. ASSUME NEW b \in BatchNo PROVE Running(b)'
  <2>1. CASE b = current
    <3>1. IsInjective(batches[current])  BY <1>1, BatchNumbers DEF Controlled
    <3>2. ASSUME NEW f \in ToSet(batches[current]) PROVE StreamKey(f) \notin Reviewed
      <4> SUFFICES ASSUME StreamKey(f) \in Reviewed PROVE FALSE
        OBVIOUS
      <4>1. PICK i \in 1..Len(batches) : StreamKey(f).file \in ToSet(batches[i]) /\ i < current
        BY <1>1 DEF Flow, Origin
      <4>2. f \in ToSet(batches[i])  BY <4>1 DEF StreamKey
      <4> QED  BY <1>1, <4>1, <4>2, OneBatch
    <3> QED  BY <1>1, <1>2, <1>3, <2>1, <3>1, <3>2 DEF Running, Unseen
  <2>2. CASE b # current
    BY <1>1, <1>2, <1>3, <2>2, Facts DEF Flow, Running, Unseen
  <2> QED  BY <2>1, <2>2
<1>6. Streaming' /\ Photos' /\ IsInjective(rows')
  BY <1>1, <1>2 DEF Flow, Streaming, Photos
<1>7. Covered'
  BY <1>1, <1>2, <1>3 DEF Flow, Covered, Underway
<1> QED  BY <1>4, <1>5, <1>6, <1>7 DEF Flow

LEMMA FailingKeepsFlow ==
    ASSUME ImportAssumption, Controlled, Flow, Failing
    PROVE  Flow'
<1> DEFINE failed == ToSet(FailedKeys)
<1>1. /\ FailedKeys \in Seq(Keys) /\ IsInjective(FailedKeys)
      /\ failed = {[file |-> f, from |-> "catch"] : f \in ToSet(batches[current])}
      /\ rows' = rows \o FailedKeys /\ ~awaiting' /\ current' = current + 1
      /\ row' = [k \in Keys |-> IF k \in failed THEN ErrorRow ELSE row[k]]
  BY FailedRows
<1>2. /\ current \in 1..Len(batches) /\ stream' = <<>> /\ UNCHANGED <<batches, gen, removed>>
  BY DEF Failing, server
<1>3. \A k \in failed : k.from = "catch" /\ k.file \in ToSet(batches[current])
  BY <1>1
<1>4. ASSUME NEW f \in ToSet(batches[current]) PROVE \E k \in failed : k.file = f
  <2>1. [file |-> f, from |-> "catch"] \in failed  BY <1>1
  <2> QED  BY <2>1
<1>5. Reviewed' = Reviewed \union failed /\ ToSet(rows) \subseteq Reviewed
  BY <1>1, <1>2, Joined DEF Reviewed, Controlled, Typed
<1>6. ToSet(stream') = {} /\ Len(stream') = 0
  BY <1>2 DEF ToSet
<1> HIDE DEF failed
<1>7. ASSUME NEW k \in Reviewed' PROVE Origin(k)'
  <2>1. CASE k \in Reviewed
    <3>1. PICK i \in 1..Len(batches) : k.file \in ToSet(batches[i]) /\ (i < current \/ i = current)
      BY <2>1 DEF Flow, Origin
    <3>2. i < current'  BY <1>1, <3>1, Facts
    <3> QED  BY <1>2, <3>1, <3>2 DEF Origin
  <2>2. CASE k \in failed
    <3>1. current < current'  BY <1>1, Facts
    <3> QED  BY <1>2, <1>3, <2>2, <3>1 DEF Origin
  <2> QED  BY <1>5, <2>1, <2>2
<1>8. \A f : StreamKey(f) \in Reviewed' => StreamKey(f) \in Reviewed
  BY <1>3, <1>5 DEF StreamKey
<1>9. ASSUME NEW b \in BatchNo PROVE Running(b)'
  <2>1. b < current \/ b = current => b < current'  BY <1>1, Facts
  <2> QED  BY <1>1, <1>2, <1>6, <1>8, <2>1 DEF Flow, Running, Unseen
<1>10. Streaming'
  BY <1>6 DEF Streaming, Distinct
<1>11. Photos'
  BY <1>1, <1>5 DEF Flow, Photos, ErrorRow
<1>12. IsInjective(rows')
  <2>1. ASSUME NEW k \in ToSet(rows), k \in failed PROVE FALSE
    <3>1. PICK i \in 1..Len(batches) : k.file \in ToSet(batches[i]) /\ i < current
      BY <1>3, <1>5, <2>1 DEF Flow, Origin
    <3>2. k.file \in ToSet(batches[current])  BY <1>3, <2>1
    <3> QED  BY <1>2, <3>1, <3>2, OneBatch
  <2>2. ToSet(rows) \intersect ToSet(FailedKeys) = {}
    BY <2>1 DEF failed
  <2> QED  BY <1>1, <2>2, Joined DEF Flow, Controlled, Typed
<1>13. Covered'
  <2>1. ASSUME NEW i \in 1..(current' - 1), NEW f \in ToSet(batches[i])
        PROVE  \E k \in Reviewed' : k.file = f
    <3>1. CASE i = current  BY <1>4, <1>5, <2>1, <3>1
    <3>2. CASE i # current
      <4>1. i \in 1..(current - 1)  BY <1>1, <3>2, Facts
      <4> QED  BY <1>5, <2>1, <4>1 DEF Flow, Covered
    <3> QED  BY <3>1, <3>2
  <2> QED  BY <1>1, <1>2, <2>1 DEF Covered
<1> QED  BY <1>7, <1>9, <1>10, <1>11, <1>12, <1>13 DEF Flow

LEMMA ReceiveKeepsFlow ==
    ASSUME ImportAssumption, Controlled, Flow, Receive
    PROVE  Flow'
<1> DEFINE e == Head(stream)
           k == StreamKey(e.file)
<1>1. /\ awaiting /\ stream # <<>> /\ rows' = Append(rows, k) /\ row' = [row EXCEPT ![k] = e.row]
      /\ stream' = Tail(stream)
      /\ UNCHANGED <<batches, current, awaiting, gen, removed>>
  BY DEF Receive, server, history, StreamKey
<1>2. /\ e \in ToSet(stream) /\ ToSet(stream) = ToSet(stream') \union {e}
      /\ Distinct(stream') /\ \A x \in ToSet(stream') : x.file # e.file
      /\ e \in EventT
  BY <1>1, HeadAndTail DEF Controlled, Typed, Flow, Streaming
<1>3. k \in Keys /\ k.file = e.file /\ k.from = "stream"
  BY <1>2 DEF EventT, Keys, StreamKey
<1> HIDE DEF e
<1>4. k \notin Reviewed /\ e.file \in ToSet(batches[current])
  BY <1>2 DEF Flow, Streaming
<1>5. \A f : StreamKey(f) = k => f = e.file
  BY DEF StreamKey
<1> HIDE DEF k
<1>6. rows' \in Seq(Keys) /\ Reviewed' = Reviewed \union {k} /\ IsInjective(rows')
  <2>1. k \notin ToSet(rows)  BY <1>4 DEF Reviewed
  <2> QED  BY <1>1, <1>3, <2>1, Appended DEF Controlled, Typed, Flow, Reviewed
<1>7. current \in 1..Len(batches)
  BY <1>1, Facts DEF Controlled, Control
<1>8. \A l \in Reviewed' : Origin(l)'
  BY <1>1, <1>3, <1>4, <1>6, <1>7 DEF Flow, Origin
<1>9. \A f : Unseen(f) => Unseen(f)'
  BY <1>2, <1>5, <1>6 DEF Unseen
<1>10. ASSUME NEW b \in BatchNo PROVE Running(b)'
  BY <1>1, <1>9 DEF Flow, Running
<1>11. Streaming'
  BY <1>1, <1>2, <1>5, <1>6 DEF Flow, Streaming, k
<1>12. Photos'
  <2>1. \A l \in Keys : l # k => row'[l] = row[l]
    BY <1>1 DEF Controlled, Typed
  <2> QED  BY <1>3, <1>6, <2>1 DEF Flow, Photos
<1>13. Covered'
  <2>1. ASSUME NEW f \in ToSet(batches[current]) PROVE Underway(f)'
    <3>1. Underway(f)  BY <1>1 DEF Flow, Covered
    <3>2. f = e.file => StreamKey(f) \in Reviewed'  BY <1>6 DEF k
    <3> QED  BY <1>1, <1>2, <1>6, <3>1, <3>2 DEF Underway
  <2> QED  BY <1>1, <1>6, <2>1 DEF Flow, Covered
<1> QED  BY <1>6, <1>8, <1>10, <1>11, <1>12, <1>13 DEF Flow

LEMMA EndKeepsFlow ==
    ASSUME ImportAssumption, Controlled, Flow, EndOfStream
    PROVE  Flow'
<1>1. /\ awaiting /\ stream = <<>> /\ gen[current].pc = "end" /\ ~awaiting' /\ current' = current + 1
      /\ UNCHANGED <<batches, rows, row, stream, gen, removed>>
  BY DEF EndOfStream, server, history
<1>2. Reviewed' = Reviewed /\ ToSet(stream) = {} /\ ToSet(stream') = {} /\ Len(stream') = 0
  BY <1>1 DEF Reviewed, ToSet
<1>3. current \in BatchNo /\ current \in 1..Len(batches)
  BY <1>1, Facts DEF Controlled, Control
<1>4. gen[current].payloads = <<>>
  BY <1>1, <1>3 DEF Flow, Running
<1>5. ASSUME NEW k \in Reviewed' PROVE Origin(k)'
  <2>1. PICK i \in 1..Len(batches) : k.file \in ToSet(batches[i]) /\ (i < current \/ i = current)
    BY <1>2 DEF Flow, Origin
  <2>2. i < current'  BY <1>1, <2>1, Facts
  <2> QED  BY <1>1, <2>1, <2>2 DEF Origin
<1>6. ASSUME NEW b \in BatchNo PROVE Running(b)'
  <2>1. b < current \/ b = current => b < current'  BY <1>1, Facts
  <2> QED  BY <1>1, <1>2, <2>1 DEF Flow, Running, Unseen
<1>7. Streaming' /\ Photos' /\ IsInjective(rows')
  BY <1>1, <1>2 DEF Flow, Streaming, Photos, Distinct
<1>8. Covered'
  <2>1. ASSUME NEW i \in 1..(current' - 1), NEW f \in ToSet(batches[i])
        PROVE  \E k \in Reviewed' : k.file = f
    <3>1. CASE i = current
      <4>1. Underway(f)  BY <1>1, <2>1, <3>1 DEF Flow, Covered
      <4>2. StreamKey(f) \in Reviewed  BY <1>2, <1>4, <4>1 DEF Underway, ToSet
      <4> QED  BY <1>2, <4>2 DEF StreamKey
    <3>2. CASE i # current
      <4>1. i \in 1..(current - 1)  BY <1>1, <3>2, Facts
      <4> QED  BY <1>2, <2>1, <4>1 DEF Flow, Covered
    <3> QED  BY <3>1, <3>2
  <2> QED  BY <1>1, <2>1 DEF Covered
<1> QED  BY <1>5, <1>6, <1>7, <1>8 DEF Flow

LEMMA RestingKeepsFlow ==
    ASSUME ImportAssumption, Controlled, Flow, Resting
    PROVE  Flow'
<1>1. /\ ~awaiting /\ UNCHANGED <<batches, current, awaiting, stream, gen>> /\ Reviewed' = Reviewed
      /\ IsInjective(rows') /\ \A k \in Keys : row'[k].photo = row[k].photo
  BY DEF Resting, server, Flow
<1>2. \A k \in Reviewed' : Origin(k)'
  BY <1>1 DEF Flow, Origin
<1>3. \A b \in BatchNo : Running(b)'
  BY <1>1 DEF Flow, Running, Unseen
<1>4. Streaming' /\ Photos' /\ Covered'
  BY <1>1 DEF Flow, Streaming, Photos, Covered
<1> QED  BY <1>1, <1>2, <1>3, <1>4 DEF Flow

LEMMA StoringKeepsFlow ==
    ASSUME ImportAssumption, Controlled, Flow, NEW b \in BatchNo, Storing(b) \/ Ending(b)
    PROVE  Flow'
<1>1. /\ UNCHANGED <<batches, current, awaiting, rows, row, stream, removed>>
      /\ \A c \in BatchNo : c # b => gen'[c] = gen[c]
      /\ gen[b].pc # "idle" /\ gen'[b].pc \in {"ocr", "end"} /\ gen'[b].payloads = gen[b].payloads
      /\ gen'[b].pc = "end" => gen[b].payloads = <<>> \/ ~(awaiting /\ b = current)
  BY DEF Storing, Ending, Generating, client, history, Connected
<1>2. Reviewed' = Reviewed
  BY <1>1 DEF Reviewed
<1>3. \A k \in Reviewed' : Origin(k)'
  BY <1>1, <1>2 DEF Flow, Origin
<1>4. ASSUME NEW c \in BatchNo PROVE Running(c)'
  <2>1. CASE c = b  BY <1>1, <1>2, <2>1 DEF Flow, Running, Unseen
  <2>2. CASE c # b  BY <1>1, <1>2, <2>2 DEF Flow, Running, Unseen
  <2> QED  BY <2>1, <2>2
<1>5. Streaming' /\ Photos' /\ IsInjective(rows')
  BY <1>1, <1>2 DEF Flow, Streaming, Photos
<1>6. Covered'
  <2>1. awaiting => current \in BatchNo
    BY Facts DEF Controlled, Control
  <2>2. awaiting => gen'[current].payloads = gen[current].payloads /\ gen'[current].pc # "idle"
    BY <1>1, <2>1 DEF Flow, Covered
  <2> QED  BY <1>1, <1>2, <2>2 DEF Flow, Covered, Underway
<1> QED  BY <1>3, <1>4, <1>5, <1>6 DEF Flow

LEMMA DeliveringKeepsFlow ==
    ASSUME ImportAssumption, Controlled, Flow, NEW b \in BatchNo, NEW r \in RowT, Delivering(b, r)
    PROVE  Flow'
<1> DEFINE f == Head(gen[b].payloads)
           e == [file |-> f, row |-> r]
<1>1. /\ UNCHANGED <<batches, current, awaiting, rows, row, removed>>
      /\ \A c \in BatchNo : c # b => gen'[c] = gen[c]
      /\ gen[b].pc # "idle" /\ gen'[b].pc = "next" /\ gen'[b].payloads = Tail(gen[b].payloads)
      /\ gen[b].payloads # <<>>
      /\ stream' = IF Connected(b) THEN Append(stream, e) ELSE stream
  BY DEF Delivering, Generating, client, history
<1>2. /\ f \in Files /\ f \in ToSet(gen[b].payloads)
      /\ ToSet(gen[b].payloads) = ToSet(gen'[b].payloads) \union {f}
      /\ IsInjective(gen'[b].payloads) /\ f \notin ToSet(gen'[b].payloads)
  <2>1. gen[b].payloads \in Seq(Files)  BY Facts DEF GenT
  <2>2. IsInjective(gen[b].payloads)  BY <1>1 DEF Flow, Running
  <2> QED  BY <1>1, <2>1, <2>2, HeadAndTail
<1>3. Reviewed' = Reviewed
  BY <1>1 DEF Reviewed
<1>4. Unseen(f) /\ f \in ToSet(batches[b]) /\ b <= current /\ b \in 1..Len(batches)
  <2>1. Unseen(f) /\ f \in ToSet(batches[b]) /\ (b < current \/ (b = current /\ awaiting))
    BY <1>1, <1>2 DEF Flow, Running
  <2>2. b \in Nat /\ 1 <= b  BY DEF BatchNo
  <2> QED  BY <2>1, <2>2, Facts DEF Controlled, Control
<1>5. e \in EventT /\ e.file = f
  BY <1>2 DEF EventT
<1> HIDE DEF f, e
<1>6. ToSet(stream) \subseteq ToSet(stream') /\ \A x \in ToSet(stream') : x \in ToSet(stream) \/ x = e
  BY <1>1, <1>5, Appended DEF Controlled, Typed
<1>7. Connected(b) => e \in ToSet(stream')
  BY <1>1, <1>5, Appended DEF Controlled, Typed
<1>8. \A k \in Reviewed' : Origin(k)'
  BY <1>1, <1>3 DEF Flow, Origin
<1>9. \A x : x # f /\ Unseen(x) => Unseen(x)'
  BY <1>3, <1>5, <1>6 DEF Unseen
<1>10. ASSUME NEW c \in BatchNo PROVE Running(c)'
  <2>1. CASE c = b
    <3>1. \A x \in ToSet(gen'[b].payloads) : x # f /\ x \in ToSet(gen[b].payloads)
      BY <1>2
    <3> QED  BY <1>1, <1>2, <1>9, <2>1, <3>1 DEF Flow, Running
  <2>2. CASE c # b
    <3>1. CASE gen[c].pc = "idle"  BY <1>1, <2>2, <3>1 DEF Running
    <3>2. CASE gen[c].pc # "idle"
      <4>1. c \in 1..Len(batches)
        <5>1. c < current \/ (c = current /\ awaiting)  BY <3>2 DEF Flow, Running
        <5>2. c \in Nat /\ 1 <= c  BY DEF BatchNo
        <5> QED  BY <5>1, <5>2, Facts DEF Controlled, Control
      <4>2. ASSUME NEW x \in ToSet(gen[c].payloads) PROVE x # f
        <5>1. x \in ToSet(batches[c])  BY <3>2 DEF Flow, Running
        <5> QED  BY <1>4, <2>2, <4>1, <5>1, Facts
      <4> QED  BY <1>1, <1>9, <2>2, <4>2 DEF Flow, Running
    <3> QED  BY <3>1, <3>2
  <2> QED  BY <2>1, <2>2
<1>11. Streaming'
  <2>1. CASE Connected(b)
    <3>1. stream' = Append(stream, e) /\ b = current  BY <1>1, <2>1 DEF Connected
    <3>2. \A x \in ToSet(stream) : x.file # e.file  BY <1>4, <1>5 DEF Unseen
    <3>3. Distinct(stream')  BY <1>5, <3>1, <3>2, Appended DEF Controlled, Typed, Flow, Streaming
    <3> QED  BY <1>1, <1>3, <1>4, <1>5, <1>6, <3>1, <3>3 DEF Flow, Streaming, Unseen
  <2>2. CASE ~Connected(b)  BY <1>1, <1>3, <2>2 DEF Flow, Streaming
  <2> QED  BY <2>1, <2>2
<1>12. Photos' /\ IsInjective(rows')
  BY <1>1, <1>3 DEF Flow, Photos
<1>13. Covered'
  <2>1. awaiting => current \in BatchNo
    BY Facts DEF Controlled, Control
  <2>2. awaiting => gen'[current].pc # "idle"
    BY <1>1, <2>1 DEF Flow, Covered
  <2>3. ASSUME awaiting, NEW x \in ToSet(batches[current]) PROVE Underway(x)'
    <3>1. Underway(x)  BY <2>3 DEF Flow, Covered
    <3>2. CASE b = current
      BY <1>1, <1>2, <1>3, <1>5, <1>6, <1>7, <2>3, <3>1, <3>2 DEF Underway, Connected
    <3>3. CASE b # current
      BY <1>1, <1>3, <1>6, <2>1, <2>3, <3>1, <3>3 DEF Underway
    <3> QED  BY <3>2, <3>3
  <2> QED  BY <1>1, <1>3, <2>2, <2>3 DEF Flow, Covered
<1> QED  BY <1>8, <1>10, <1>11, <1>12, <1>13 DEF Flow

LEMMA FlowKept == ASSUME ImportAssumption, Controlled, Flow, Step PROVE Flow'
<1>1. CASE UNCHANGED vars
  <2>1. UNCHANGED <<batches, current, awaiting, rows, row, stream, gen, removed>> /\ UNCHANGED Reviewed
    BY <1>1 DEF vars, client, server, history, Reviewed
  <2>2. \A k \in Reviewed' : Origin(k)'  BY <2>1 DEF Flow, Origin
  <2>3. \A b \in BatchNo : Running(b)'  BY <2>1 DEF Flow, Running, Unseen
  <2>4. Streaming' /\ Photos' /\ Covered' /\ IsInjective(rows')
    BY <2>1 DEF Flow, Streaming, Photos, Covered, Underway
  <2> QED  BY <2>2, <2>3, <2>4 DEF Flow
<1> QED  BY <1>1, StartKeepsFlow, SendKeepsFlow, FailingKeepsFlow, ReceiveKeepsFlow, EndKeepsFlow,
            RestingKeepsFlow, StoringKeepsFlow, DeliveringKeepsFlow DEF Step

LEMMA InitFlow == ASSUME ImportAssumption, Init PROVE Flow
<1>1. Reviewed = {} /\ ToSet(stream) = {} /\ Len(stream) = 0 /\ IsInjective(rows)
  BY DEF Init, Reviewed, ToSet, IsInjective
<1>2. /\ current = 1 /\ ~awaiting /\ \A b \in BatchNo : gen[b].pc = "idle"
      /\ \A k \in Keys : ~row[k].photo
  BY DEF Init, Idle, ErrorRow
<1> QED  BY <1>1, <1>2 DEF Flow, Running, Streaming, Distinct, Photos, Covered

(* However requests are refused, connections break and rows are removed:   *)
(* every file of the batches that are through was shown for review, and    *)
(* no row is there twice.                                                  *)
THEOREM EveryFileIsReviewed == ASSUME ImportAssumption PROVE Spec => []EveryFileReviewed
<1>1. Init => Controlled /\ Flow
  BY InitControlled, InitFlow
<1>2. Controlled /\ Flow /\ [Next]_vars => (Controlled /\ Flow)'
  BY StepOfNext, ControlKept, FlowKept
<1>3. Controlled /\ Flow => EveryFileReviewed
  BY DEF Flow, Covered, IsInjective, EveryFileReviewed
<1> QED BY <1>1, <1>2, <1>3, PTL DEF Spec

----------------------------------------------------------------------------
(* The photos shown for review or on their way there. *)
Shown ==
    {[file |-> k.file, dup |-> row[k].dup] : k \in {l \in Reviewed : row[l].photo}}
        \union {[file |-> e.file, dup |-> e.row.dup] : e \in {x \in ToSet(stream) : x.row.photo}}

(* They are stored and registered; and while no connection broke, nothing  *)
(* else is.                                                                *)
Kept ==
    /\ \A s \in Shown : s.file \in Intact
    /\ \A b \in BatchNo : gen[b].pc = "ocr" => Head(gen[b].payloads) \in Intact
    /\ cuts = 0 =>
          /\ \A b \in BatchNo : gen[b].pc \in {"next", "ocr"} => Connected(b)
          /\ \A f \in Loose : \/ \E b \in BatchNo : gen[b].pc = "ocr" /\ f = Head(gen[b].payloads)
                              \/ \E s \in Shown : s.file = f

(* A generator has seen every image it has shown.  What it shows without a *)
(* mark has an image it had not shown before.                              *)
Told(b) ==
    \A s \in Shown : s.file \in ToSet(batches[b]) =>
        /\ ImageOf[s.file] \in gen[b].seen
        /\ gen[b].pc = "ocr" /\ gen[b].dup = "no" => ImageOf[s.file] # ImageOf[Head(gen[b].payloads)]

Marked ==
    /\ \A b \in BatchNo : gen[b].pc = "ocr" => ImageOf[Head(gen[b].payloads)] \in gen[b].seen
    /\ \A b \in 1..Len(batches) :
          /\ Told(b)
          /\ \A s, t \in Shown :
                /\ {s.file, t.file} \subseteq ToSet(batches[b])
                /\ s.file # t.file /\ ImageOf[s.file] = ImageOf[t.file]
                => s.dup # "no" \/ t.dup # "no"

LEMMA ShownSame ==
    ASSUME Reviewed' = Reviewed, ToSet(stream') = ToSet(stream),
           \A k \in Reviewed : row'[k].photo = row[k].photo /\ row'[k].dup = row[k].dup
    PROVE  Shown' = Shown
BY DEF Shown

(* Of a file that is neither in the stream nor read, no photo is shown. *)
LEMMA UnseenNotShown ==
    ASSUME ImportAssumption, Controlled, Flow, NEW f, Unseen(f), NEW s \in Shown
    PROVE  s.file # f
<1>1. ASSUME NEW k \in Reviewed, row[k].photo PROVE k.file # f
  <2>1. k \in Keys  BY Facts
  <2>2. k.from = "stream"  BY <1>1, <2>1 DEF Flow, Photos
  <2>3. k = StreamKey(k.file)  BY <2>1, <2>2 DEF Keys, StreamKey
  <2> QED  BY <2>3 DEF Unseen
<1>2. \A e \in ToSet(stream) : e.file # f
  BY DEF Unseen
<1> QED  BY <1>1, <1>2 DEF Shown

LEMMA StartKeepsShown ==
    ASSUME ImportAssumption, Controlled, NEW files \in Selections, StartScan(files)
    PROVE  Kept' /\ Marked'
<1>1. /\ Fresh /\ UNCHANGED <<row, stream, gen, uploads, rows, removed>>
  BY DEF Controlled, Control, StartScan, server, history
<1>2. Reviewed' = {} /\ ToSet(stream') = {}
  BY <1>1 DEF Fresh, Reviewed, ToSet
<1>3. Shown' = {}
  BY <1>2 DEF Shown
<1>4. Intact' = {} /\ Loose' = {} /\ \A b \in BatchNo : gen'[b].pc = "idle"
  BY <1>1 DEF Fresh, Intact, Loose, uploads
<1> QED  BY <1>3, <1>4 DEF Kept, Marked, Told

LEMMA SendKeepsShown ==
    ASSUME ImportAssumption, Controlled, Flow, Kept, Marked, Send
    PROVE  Kept' /\ Marked'
<1>1. /\ ~awaiting /\ awaiting' /\ current \in 1..Len(batches) /\ current \in BatchNo
      /\ UNCHANGED <<batches, current, rows, row, stream, removed, uploads, cuts>>
      /\ gen'[current].pc = "next" /\ \A b \in BatchNo : b # current => gen'[b] = gen[b]
  <2>1. current \in 1..Len(batches)  BY Facts DEF Send
  <2> QED  BY <2>1, Facts DEF Send, history, Controlled, Typed, Idle
<1>2. Shown' = Shown
  <2>1. Reviewed' = Reviewed  BY <1>1 DEF Reviewed
  <2> QED  BY <1>1, <2>1, ShownSame
<1>3. ASSUME NEW s \in Shown PROVE s.file \notin ToSet(batches[current])
  <2> SUFFICES ASSUME s.file \in ToSet(batches[current]) PROVE FALSE
    OBVIOUS
  <2>1. ToSet(stream) = {}  BY <1>1, Facts
  <2>2. PICK k \in Reviewed : s.file = k.file  BY <2>1 DEF Shown
  <2>3. PICK i \in 1..Len(batches) : k.file \in ToSet(batches[i]) /\ i < current
    BY <1>1 DEF Flow, Origin
  <2> QED  BY <1>1, <2>2, <2>3, OneBatch
<1>4. Kept'
  <2>1. \A b \in BatchNo : gen'[b].pc = "ocr" => b # current /\ gen'[b] = gen[b]
    BY <1>1
  <2>2. cuts = 0 => \A b \in BatchNo : gen[b].pc \notin {"next", "ocr"}
    BY <1>1 DEF Kept, Connected
  <2>3. ASSUME cuts = 0 PROVE \A b \in BatchNo : gen'[b].pc \in {"next", "ocr"} => b = current
    BY <1>1, <2>2, <2>3
  <2> QED  BY <1>1, <1>2, <2>1, <2>2, <2>3 DEF Kept, Intact, Loose, uploads, Connected
<1>5. Marked'
  <2>1. \A b \in BatchNo : gen'[b].pc = "ocr" => b # current /\ gen'[b] = gen[b]
    BY <1>1
  <2>2. ASSUME NEW b \in 1..Len(batches) PROVE Told(b)'
    <3>1. CASE b = current  BY <1>1, <1>2, <1>3, <3>1 DEF Told
    <3>2. CASE b # current
      <4>1. gen'[b] = gen[b]  BY <1>1, <3>2, Facts
      <4> QED  BY <1>1, <1>2, <4>1 DEF Marked, Told
    <3> QED  BY <3>1, <3>2
  <2> QED  BY <1>1, <1>2, <2>1, <2>2 DEF Marked
<1> QED  BY <1>4, <1>5

LEMMA FailingKeepsShown ==
    ASSUME ImportAssumption, Controlled, Flow, Kept, Marked, Failing
    PROVE  Kept' /\ Marked'
<1> DEFINE failed == ToSet(FailedKeys)
<1>1. /\ FailedKeys \in Seq(Keys)
      /\ failed = {[file |-> f, from |-> "catch"] : f \in ToSet(batches[current])}
      /\ rows' = rows \o FailedKeys
      /\ row' = [k \in Keys |-> IF k \in failed THEN ErrorRow ELSE row[k]]
  BY FailedRows
<1>2. /\ stream' = <<>> /\ UNCHANGED <<batches, gen, uploads, removed>>
      /\ ~awaiting' /\ (cuts' = 0 => ~awaiting /\ cuts = 0)
  BY DEF Failing, FailBatch, server
<1>3. ToSet(stream') = {}
  BY <1>2 DEF ToSet
<1>4. Reviewed' = Reviewed \union failed /\ Reviewed \subseteq Keys /\ failed \subseteq Keys
  <2>1. ToSet(rows') = ToSet(rows) \union failed  BY <1>1, Joined DEF Controlled, Typed
  <2>2. failed \subseteq Keys  BY <1>1, SetOfSequence
  <2> QED  BY <1>2, <2>1, <2>2, Facts DEF Reviewed
<1>5. \A k \in failed : k.from = "catch"
  BY <1>1
<1> HIDE DEF failed
<1>6. \A k \in Keys : \/ k \in failed /\ ~row'[k].photo /\ ~row[k].photo
                      \/ k \notin failed /\ row'[k] = row[k]
  BY <1>1, <1>5 DEF ErrorRow, Flow, Photos
<1>7. \A k \in Reviewed' : row'[k].photo => k \in Reviewed /\ row'[k] = row[k]
  BY <1>4, <1>6
<1>8. \A k \in Reviewed : row[k].photo => k \in Reviewed' /\ row'[k] = row[k]
  BY <1>4, <1>6
<1>9. Shown' \subseteq Shown
  BY <1>3, <1>7 DEF Shown
<1>10. ~awaiting => Shown \subseteq Shown'
  <2>1. ~awaiting => ToSet(stream) = {}  BY Facts
  <2> QED  BY <1>8, <2>1 DEF Shown
<1>11. Kept'
  <2>1. cuts' = 0 => cuts = 0 /\ ~awaiting /\ \A b \in BatchNo : gen[b].pc \notin {"next", "ocr"}
    BY <1>2 DEF Kept, Connected
  <2> QED  BY <1>2, <1>9, <1>10, <2>1 DEF Kept, Intact, Loose, uploads
<1>12. Marked'
  <2>1. \A b \in 1..Len(batches) : Told(b)'  BY <1>2, <1>9 DEF Marked, Told
  <2> QED  BY <1>2, <1>9, <2>1 DEF Marked
<1> QED  BY <1>11, <1>12

LEMMA ReceiveKeepsShown ==
    ASSUME ImportAssumption, Controlled, Flow, Receive
    PROVE  Shown' = Shown
<1> DEFINE e == Head(stream)
           k == StreamKey(e.file)
<1>1. /\ stream # <<>> /\ rows' = Append(rows, k) /\ row' = [row EXCEPT ![k] = e.row]
      /\ stream' = Tail(stream) /\ removed' = removed
  BY DEF Receive, history, StreamKey
<1>2. e \in ToSet(stream) /\ ToSet(stream) = ToSet(stream') \union {e} /\ e \in EventT
  BY <1>1, HeadAndTail DEF Controlled, Typed
<1>3. k \in Keys /\ k.file = e.file
  BY <1>2 DEF EventT, Keys, StreamKey
<1> HIDE DEF e
<1>4. k \notin Reviewed
  BY <1>2 DEF Flow, Streaming
<1> HIDE DEF k
<1>5. Reviewed' = Reviewed \union {k} /\ Reviewed \subseteq Keys
  BY <1>1, <1>3, Appended, Facts DEF Controlled, Typed, Reviewed
<1>6. row'[k] = e.row /\ \A l \in Reviewed : row'[l] = row[l]
  BY <1>1, <1>3, <1>4, <1>5 DEF Controlled, Typed
<1>7. ASSUME NEW s \in Shown PROVE s \in Shown'
  <2>1. CASE \E l \in Reviewed : row[l].photo /\ s = [file |-> l.file, dup |-> row[l].dup]
    BY <1>5, <1>6, <2>1 DEF Shown
  <2>2. CASE \E x \in ToSet(stream') : x.row.photo /\ s = [file |-> x.file, dup |-> x.row.dup]
    BY <2>2 DEF Shown
  <2>3. CASE e.row.photo /\ s = [file |-> e.file, dup |-> e.row.dup]
    BY <1>3, <1>5, <1>6, <2>3 DEF Shown
  <2> QED  BY <1>2, <2>1, <2>2, <2>3 DEF Shown
<1>8. ASSUME NEW s \in Shown' PROVE s \in Shown
  <2>1. CASE \E l \in Reviewed : row'[l].photo /\ s = [file |-> l.file, dup |-> row'[l].dup]
    BY <1>6, <2>1 DEF Shown
  <2>2. CASE \E x \in ToSet(stream') : x.row.photo /\ s = [file |-> x.file, dup |-> x.row.dup]
    BY <1>2, <2>2 DEF Shown
  <2>3. CASE e.row.photo /\ s = [file |-> e.file, dup |-> e.row.dup]
    BY <1>2, <2>3 DEF Shown
  <2> QED  BY <1>3, <1>5, <1>6, <2>1, <2>2, <2>3 DEF Shown
<1> QED  BY <1>7, <1>8

(* The client moves on or rests. *)
LEMMA ClientKeepsShown ==
    ASSUME ImportAssumption, Controlled, Flow, Kept, Marked, Receive \/ EndOfStream \/ Resting
    PROVE  Kept' /\ Marked'
<1>1. UNCHANGED <<batches, gen, uploads, cuts>>
  BY DEF Receive, EndOfStream, Resting, server, history
<1>2. Shown' = Shown
  <2>1. CASE EndOfStream
    <3>1. UNCHANGED <<rows, row, stream, removed>>  BY <2>1 DEF EndOfStream, history
    <3>2. Reviewed' = Reviewed  BY <3>1 DEF Reviewed
    <3> QED  BY <3>1, <3>2, ShownSame
  <2>2. CASE Resting
    <3>1. Reviewed \subseteq Keys  BY Facts
    <3> QED  BY <2>2, <3>1, ShownSame DEF Resting
  <2> QED  BY <2>1, <2>2, ReceiveKeepsShown
<1>3. ASSUME cuts = 0, NEW b \in BatchNo, gen[b].pc \in {"next", "ocr"} PROVE Connected(b)'
  <2>1. Connected(b)  BY <1>3 DEF Kept
  <2>2. ~EndOfStream  BY <1>3, <2>1 DEF EndOfStream, Connected
  <2> QED  BY <2>1, <2>2 DEF Receive, Resting, Connected
<1>4. Kept'
  BY <1>1, <1>2, <1>3 DEF Kept, Intact, Loose, uploads
<1>5. Marked'
  <2>1. \A b \in 1..Len(batches) : Told(b)'  BY <1>1, <1>2 DEF Marked, Told
  <2> QED  BY <1>1, <1>2, <2>1 DEF Marked
<1> QED  BY <1>4, <1>5

LEMMA StoringKeepsShown ==
    ASSUME ImportAssumption, Controlled, Flow, Kept, Marked, NEW b \in BatchNo, Storing(b) \/ Ending(b)
    PROVE  Kept' /\ Marked'
<1> DEFINE f == Head(gen[b].payloads)
<1>1. /\ UNCHANGED <<batches, current, awaiting, rows, row, stream, removed, cuts>>
      /\ \A c \in BatchNo : c # b => gen'[c] = gen[c]
      /\ gen[b].pc \in {"next", "ocr"} /\ gen'[b].payloads = gen[b].payloads
  BY DEF Storing, Ending, Generating, client, history
<1>2. Shown' = Shown
  <2>1. Reviewed' = Reviewed  BY <1>1 DEF Reviewed
  <2> QED  BY <1>1, <2>1, ShownSame
<1>3. CASE Storing(b)
  <2>1. /\ gen[b].pc = "next" /\ gen'[b].pc = "ocr" /\ Intact' = Intact \union {f} /\ Loose' \subseteq Loose \union {f}
        /\ gen'[b].seen = gen[b].seen \union {ImageOf[f]}
        /\ gen'[b].dup = "no" => ImageOf[f] \notin gen[b].seen
    BY <1>3 DEF Storing
  <2>2. Kept'
    <3>1. \A s \in Shown' : s.file \in Intact'  BY <1>2, <2>1 DEF Kept
    <3>2. \A c \in BatchNo : gen'[c].pc = "ocr" => Head(gen'[c].payloads) \in Intact'
      BY <1>1, <2>1 DEF Kept
    <3>3. cuts = 0 => \A c \in BatchNo : gen'[c].pc \in {"next", "ocr"} => Connected(c)'
      BY <1>1 DEF Kept, Connected
    <3>4. ASSUME cuts = 0, NEW x \in Loose'
          PROVE  \/ \E c \in BatchNo : gen'[c].pc = "ocr" /\ x = Head(gen'[c].payloads)
                 \/ \E s \in Shown' : s.file = x
      <4>1. CASE x = f  BY <1>1, <2>1, <4>1
      <4>2. CASE x \in Loose
        <5>1. CASE \E c \in BatchNo : gen[c].pc = "ocr" /\ x = Head(gen[c].payloads)
          <6>1. PICK c \in BatchNo : gen[c].pc = "ocr" /\ x = Head(gen[c].payloads)  BY <5>1
          <6>2. gen'[c] = gen[c]  BY <1>1, <2>1, <6>1
          <6> QED  BY <6>1, <6>2
        <5>2. CASE \E s \in Shown : s.file = x  BY <1>2, <5>2
        <5> QED  BY <3>4, <4>2, <5>1, <5>2 DEF Kept
      <4> QED  BY <2>1, <3>4, <4>1, <4>2
    <3> QED  BY <1>1, <3>1, <3>2, <3>3, <3>4 DEF Kept
  <2>3. Marked'
    <3>1. \A c \in BatchNo : gen'[c].pc = "ocr" => ImageOf[Head(gen'[c].payloads)] \in gen'[c].seen
      BY <1>1, <2>1 DEF Marked
    <3>2. ASSUME NEW c \in 1..Len(batches) PROVE Told(c)'
      <4>1. CASE c = b  BY <1>1, <1>2, <2>1, <4>1 DEF Marked, Told
      <4>2. CASE c # b
        <5>1. gen'[c] = gen[c]  BY <1>1, <4>2, Facts
        <5> QED  BY <1>1, <1>2, <5>1 DEF Marked, Told
      <4> QED  BY <4>1, <4>2
    <3> QED  BY <1>1, <1>2, <3>1, <3>2 DEF Marked
  <2> QED  BY <2>2, <2>3
<1>4. CASE Ending(b)
  <2>1. /\ gen'[b].pc = "end" /\ Intact' = Intact /\ Loose' = Loose /\ gen'[b].seen = gen[b].seen
        /\ gen[b].pc = "next" \/ ~Connected(b)
    BY <1>4 DEF Ending, uploads, Intact, Loose
  <2>2. Kept'
    <3>1. \A c \in BatchNo : gen'[c].pc \in {"next", "ocr"} => c # b /\ gen'[c] = gen[c]
      BY <1>1, <2>1
    <3>2. cuts = 0 => gen[b].pc # "ocr"
      BY <2>1 DEF Kept
    <3>3. cuts = 0 => \A c \in BatchNo : gen[c].pc = "ocr" => gen'[c] = gen[c]
      BY <1>1, <3>2
    <3>4. \A c \in BatchNo : gen'[c].pc = "ocr" => Head(gen'[c].payloads) \in Intact'
      BY <2>1, <3>1 DEF Kept
    <3>5. cuts = 0 => \A c \in BatchNo : gen'[c].pc \in {"next", "ocr"} => Connected(c)'
      BY <1>1, <3>1 DEF Kept, Connected
    <3>6. ASSUME cuts = 0, NEW x \in Loose'
          PROVE  \/ \E c \in BatchNo : gen'[c].pc = "ocr" /\ x = Head(gen'[c].payloads)
                 \/ \E s \in Shown' : s.file = x
      <4>1. CASE \E c \in BatchNo : gen[c].pc = "ocr" /\ x = Head(gen[c].payloads)
        <5>1. PICK c \in BatchNo : gen[c].pc = "ocr" /\ x = Head(gen[c].payloads)  BY <4>1
        <5>2. gen'[c] = gen[c]  BY <3>3, <3>6, <5>1
        <5> QED  BY <5>1, <5>2
      <4> QED  BY <1>2, <2>1, <3>6, <4>1 DEF Kept
    <3> QED  BY <1>1, <1>2, <2>1, <3>4, <3>5, <3>6 DEF Kept
  <2>3. Marked'
    <3>1. \A c \in BatchNo : gen'[c].pc = "ocr" => ImageOf[Head(gen'[c].payloads)] \in gen'[c].seen
      BY <1>1, <2>1 DEF Marked
    <3>2. ASSUME NEW c \in 1..Len(batches) PROVE Told(c)'
      <4>1. CASE c = b  BY <1>1, <1>2, <2>1, <4>1 DEF Marked, Told
      <4>2. CASE c # b
        <5>1. gen'[c] = gen[c]  BY <1>1, <4>2, Facts
        <5> QED  BY <1>1, <1>2, <5>1 DEF Marked, Told
      <4> QED  BY <4>1, <4>2
    <3> QED  BY <1>1, <1>2, <3>1, <3>2 DEF Marked
  <2> QED  BY <2>2, <2>3
<1> QED  BY <1>3, <1>4

LEMMA DeliveringKeepsShown ==
    ASSUME ImportAssumption, Controlled, Flow, Kept, Marked,
           NEW b \in BatchNo, NEW r \in RowT, Delivering(b, r)
    PROVE  Kept' /\ Marked'
<1> DEFINE f == Head(gen[b].payloads)
           e == [file |-> f, row |-> r]
           new == [file |-> f, dup |-> r.dup]
<1>1. /\ UNCHANGED <<batches, current, awaiting, rows, row, removed, cuts>>
      /\ \A c \in BatchNo : c # b => gen'[c] = gen[c]
      /\ gen[b].pc \in {"next", "ocr"} /\ gen'[b].pc = "next" /\ gen[b].payloads # <<>>
      /\ gen[b].seen \subseteq gen'[b].seen
      /\ stream' = IF Connected(b) THEN Append(stream, e) ELSE stream
      /\ r.photo => gen[b].pc = "ocr" /\ r.dup = gen[b].dup /\ Intact' = Intact /\ Loose' = Loose
      /\ ~r.photo => /\ Intact \ {f} \subseteq Intact' /\ Loose' \subseteq Loose
                     /\ gen[b].pc = "ocr" => f \notin Loose'
  BY DEF Delivering, Generating, client, history
<1>2. f \in ToSet(gen[b].payloads) /\ f \in Files
  <2>1. gen[b].payloads \in Seq(Files)  BY Facts DEF GenT
  <2> QED  BY <1>1, <2>1, HeadAndTail
<1>3. Unseen(f) /\ f \in ToSet(batches[b]) /\ b \in 1..Len(batches)
  <2>1. Unseen(f) /\ f \in ToSet(batches[b]) /\ (b < current \/ (b = current /\ awaiting))
    BY <1>1, <1>2 DEF Flow, Running
  <2>2. b \in Nat /\ 1 <= b  BY DEF BatchNo
  <2> QED  BY <2>1, <2>2, Facts DEF Controlled, Control
<1>4. e \in EventT /\ e.file = f /\ e.row = r /\ new.file = f /\ new.dup = r.dup
  BY <1>2 DEF EventT
<1>5. \A s \in Shown : s.file # f
  BY <1>3, UnseenNotShown
<1>6. Connected(b) => ToSet(stream') = ToSet(stream) \union {e}
  BY <1>1, <1>4, Appended DEF Controlled, Typed
<1>7. ~Connected(b) => stream' = stream
  BY <1>1
<1>8. new = [file |-> e.file, dup |-> e.row.dup]
  BY <1>4
<1> HIDE DEF e, f
<1>9. Reviewed' = Reviewed
  BY <1>1 DEF Reviewed
<1>10. /\ r.photo /\ Connected(b) => Shown' = Shown \union {new}
       /\ ~(r.photo /\ Connected(b)) => Shown' = Shown
  <2> HIDE DEF new
  <2>1. CASE ~Connected(b)  BY <1>1, <1>7, <1>9, <2>1 DEF Shown
  <2>2. CASE Connected(b) /\ r.photo
    <3>1. {x \in ToSet(stream') : x.row.photo} = {x \in ToSet(stream) : x.row.photo} \union {e}
      BY <1>4, <1>6, <2>2
    <3> QED  BY <1>1, <1>8, <1>9, <2>2, <3>1 DEF Shown
  <2>3. CASE Connected(b) /\ ~r.photo
    <3>1. {x \in ToSet(stream') : x.row.photo} = {x \in ToSet(stream) : x.row.photo}
      BY <1>4, <1>6, <2>3
    <3> QED  BY <1>1, <1>9, <2>3, <3>1 DEF Shown
  <2> QED  BY <2>1, <2>2, <2>3
<1>11. \A s \in Shown' : s \in Shown \/ (s = new /\ r.photo)
  BY <1>10
<1>12. Shown \subseteq Shown'
  BY <1>10
<1>13. new.file = f /\ new.dup = r.dup
  BY <1>4
<1> HIDE DEF new
<1>14. f \in Intact \/ gen[b].pc # "ocr"
  BY DEF Kept, f
<1>15. Kept'
  <2>1. \A s \in Shown' : s.file \in Intact'
    <3>1. ASSUME NEW s \in Shown PROVE s.file \in Intact'
      BY <1>1, <1>5 DEF Kept
    <3>2. r.photo => f \in Intact'  BY <1>1, <1>14
    <3> QED  BY <1>11, <1>13, <3>1, <3>2
  <2>2. ASSUME NEW c \in BatchNo, gen'[c].pc = "ocr" PROVE Head(gen'[c].payloads) \in Intact'
    <3>1. c # b /\ gen'[c] = gen[c]  BY <1>1, <2>2
    <3>2. Head(gen[c].payloads) \in Intact  BY <2>2, <3>1 DEF Kept
    <3>3. Head(gen[c].payloads) # f
      <4>1. gen[c].payloads \in Seq(Files) /\ gen[c].payloads # <<>>
        BY <2>2, <3>1, Facts DEF Controlled, Control, GenT
      <4>2. Head(gen[c].payloads) \in ToSet(gen[c].payloads)  BY <4>1, HeadAndTail
      <4>3. /\ Head(gen[c].payloads) \in ToSet(batches[c])
            /\ c < current \/ (c = current /\ awaiting)
        BY <2>2, <3>1, <4>2 DEF Flow, Running
      <4>4. c \in Nat /\ 1 <= c  BY DEF BatchNo
      <4>5. c \in 1..Len(batches)  BY <4>3, <4>4, Facts DEF Controlled, Control
      <4> QED  BY <1>3, <3>1, <4>3, <4>5, Facts
    <3> QED  BY <1>1, <3>1, <3>2, <3>3
  <2>3. ASSUME cuts = 0 PROVE \A c \in BatchNo : gen'[c].pc \in {"next", "ocr"} => Connected(c)'
    <3>1. Connected(b)  BY <1>1, <2>3 DEF Kept
    <3> QED  BY <1>1, <2>3, <3>1 DEF Kept, Connected
  <2>4. ASSUME cuts = 0, NEW x \in Loose'
        PROVE  \/ \E c \in BatchNo : gen'[c].pc = "ocr" /\ x = Head(gen'[c].payloads)
               \/ \E s \in Shown' : s.file = x
    <3>1. x \in Loose  BY <1>1, <2>4
    <3>2. CASE \E c \in BatchNo : gen[c].pc = "ocr" /\ x = Head(gen[c].payloads)
      <4>1. PICK c \in BatchNo : gen[c].pc = "ocr" /\ x = Head(gen[c].payloads)  BY <3>2
      <4>2. CASE c = b
        <5>1. x = f  BY <4>1, <4>2 DEF f
        <5>2. r.photo  BY <1>1, <2>4, <4>1, <4>2, <5>1
        <5>3. Connected(b)  BY <1>1, <2>4 DEF Kept
        <5>4. new \in Shown'  BY <1>10, <5>2, <5>3
        <5> QED  BY <1>13, <5>1, <5>4
      <4>3. CASE c # b
        <5>1. gen'[c] = gen[c]  BY <1>1, <4>3
        <5> QED  BY <4>1, <5>1
      <4> QED  BY <4>2, <4>3
    <3>3. CASE \E s \in Shown : s.file = x  BY <1>12, <3>3
    <3> QED  BY <2>4, <3>1, <3>2, <3>3 DEF Kept
  <2> QED  BY <1>1, <2>1, <2>2, <2>3, <2>4 DEF Kept
<1>16. Marked'
  <2>1. \A c \in BatchNo : gen'[c].pc = "ocr" => ImageOf[Head(gen'[c].payloads)] \in gen'[c].seen
    BY <1>1 DEF Marked
  <2>2. r.photo => ImageOf[f] \in gen[b].seen
    BY <1>1 DEF Marked, f
  <2>3. ASSUME NEW s \in Shown, s.file \in ToSet(batches[b]), r.photo, r.dup = "no"
        PROVE  ImageOf[s.file] # ImageOf[f]
    BY <1>1, <1>3, <2>3 DEF Marked, Told, f
  <2>4. ASSUME NEW c \in 1..Len(batches), c # b PROVE f \notin ToSet(batches[c])
    BY <1>3, <2>4, Facts
  <2>5. ASSUME NEW c \in 1..Len(batches) PROVE Told(c)'
    <3>1. CASE c = b
      BY <1>1, <1>11, <1>13, <2>2, <3>1 DEF Marked, Told
    <3>2. CASE c # b
      <4>1. gen'[c] = gen[c]  BY <1>1, <3>2, Facts
      <4> QED  BY <1>1, <1>11, <1>13, <2>4, <3>2, <4>1 DEF Marked, Told
    <3> QED  BY <3>1, <3>2
  <2>6. ASSUME NEW c \in 1..Len(batches), NEW s \in Shown', NEW t \in Shown',
               {s.file, t.file} \subseteq ToSet(batches[c]),
               s.file # t.file, ImageOf[s.file] = ImageOf[t.file], s.dup = "no", t.dup = "no"
        PROVE  FALSE
    <3>1. CASE s \in Shown /\ t \in Shown  BY <2>6, <3>1 DEF Marked
    <3>2. ASSUME NEW u \in Shown, u.file \in ToSet(batches[c]), f \in ToSet(batches[c]),
                 ImageOf[u.file] = ImageOf[f], r.photo, r.dup = "no"
          PROVE  FALSE
      <4>1. c = b  BY <2>4, <3>2
      <4> QED  BY <2>3, <3>2, <4>1
    <3>3. CASE s = new /\ r.photo /\ t \in Shown  BY <1>13, <2>6, <3>2, <3>3
    <3>4. CASE t = new /\ r.photo /\ s \in Shown  BY <1>13, <2>6, <3>2, <3>4
    <3> QED  BY <1>11, <2>6, <3>1, <3>3, <3>4
  <2> QED  BY <1>1, <2>1, <2>5, <2>6 DEF Marked
<1> QED  BY <1>15, <1>16

LEMMA ShownKept ==
    ASSUME ImportAssumption, Controlled, Flow, Kept, Marked, Step
    PROVE  Kept' /\ Marked'
<1>1. CASE UNCHANGED vars
  <2>1. UNCHANGED <<batches, current, awaiting, rows, row, stream, gen, uploads, removed, cuts>>
    BY <1>1 DEF vars, client, server, history
  <2>2. Shown' = Shown
    <3>1. Reviewed' = Reviewed  BY <2>1 DEF Reviewed
    <3> QED  BY <2>1, <3>1, ShownSame
  <2>3. \A b \in BatchNo : Connected(b)' = Connected(b)  BY <2>1 DEF Connected
  <2>4. \A b \in 1..Len(batches) : Told(b)'  BY <2>1, <2>2 DEF Marked, Told
  <2> QED  BY <2>1, <2>2, <2>3, <2>4 DEF Kept, Intact, Loose, uploads, Marked
<1> QED  BY <1>1, StartKeepsShown, SendKeepsShown, FailingKeepsShown, ClientKeepsShown,
            StoringKeepsShown, DeliveringKeepsShown DEF Step

ImportInvariant == Controlled /\ Flow /\ Kept /\ Marked

LEMMA InitImport == ASSUME ImportAssumption, Init PROVE ImportInvariant
<1>1. Controlled /\ Flow
  BY InitControlled, InitFlow
<1>2. Shown = {}
  <2>1. Reviewed = {} /\ ToSet(stream) = {}  BY DEF Init, Reviewed, ToSet
  <2> QED  BY <2>1 DEF Shown
<1>3. Intact = {} /\ Loose = {} /\ \A b \in BatchNo : gen[b].pc = "idle"
  BY DEF Init, Idle, Intact, Loose
<1> QED  BY <1>1, <1>2, <1>3 DEF ImportInvariant, Kept, Marked, Told

LEMMA ImportKept == ASSUME ImportAssumption, ImportInvariant, [Next]_vars PROVE ImportInvariant'
BY StepOfNext, ControlKept, FlowKept, ShownKept DEF ImportInvariant

(* A photo shown for review is stored, whatever fails meanwhile or breaks  *)
(* off; and as long as no connection broke, failed items leave nothing.    *)
THEOREM PhotosFollow == ASSUME ImportAssumption PROVE Spec => []PhotosFollowTheRows
<1>1. Init => ImportInvariant
  BY InitImport
<1>2. ImportInvariant /\ [Next]_vars => ImportInvariant'
  BY ImportKept
<1>3. ImportInvariant => PhotosFollowTheRows
  <2> SUFFICES ASSUME ImportInvariant PROVE PhotosFollowTheRows
    OBVIOUS
  <2>1. ASSUME NEW k \in Reviewed, row[k].photo PROVE k.file \in Intact
    <3>1. [file |-> k.file, dup |-> row[k].dup] \in Shown  BY <2>1 DEF Shown
    <3> QED  BY <3>1 DEF ImportInvariant, Kept
  <2>2. ASSUME NEW s \in Shown
        PROVE  \/ \E i \in DOMAIN stream : stream[i].file = s.file /\ stream[i].row.photo
               \/ \E k \in Reviewed : k.file = s.file /\ row[k].photo
    BY DEF Shown, ToSet
  <2> QED  BY <2>1, <2>2 DEF ImportInvariant, Kept, PhotosFollowTheRows, Intact, Loose
<1> QED BY <1>1, <1>2, <1>3, PTL DEF Spec

(* Of the photos of a batch that show one image all but one are marked,    *)
(* whichever of them failed in between.                                    *)
THEOREM DuplicatesAreMarked == ASSUME ImportAssumption PROVE Spec => []DuplicatesMarked
<1>1. Init => ImportInvariant
  BY InitImport
<1>2. ImportInvariant /\ [Next]_vars => ImportInvariant'
  BY ImportKept
<1>3. ImportInvariant => DuplicatesMarked
  <2> SUFFICES ASSUME ImportInvariant, NEW i \in DOMAIN batches, NEW k \in Reviewed, NEW l \in Reviewed,
                      {k.file, l.file} \subseteq ToSet(batches[i]),
                      k.file # l.file, ImageOf[k.file] = ImageOf[l.file], row[k].photo, row[l].photo
               PROVE  row[k].dup # "no" \/ row[l].dup # "no"
    BY DEF DuplicatesMarked
  <2> DEFINE s == [file |-> k.file, dup |-> row[k].dup]
             t == [file |-> l.file, dup |-> row[l].dup]
  <2>1. s \in Shown /\ t \in Shown  BY DEF Shown
  <2>2. s.file = k.file /\ s.dup = row[k].dup /\ t.file = l.file /\ t.dup = row[l].dup
    OBVIOUS
  <2>3. i \in 1..Len(batches)
    <3> DEFINE T == Seq(Files)
    <3>1. batches \in Seq(T)  BY BuiltBatches DEF ImportInvariant, Controlled, Batched
    <3> HIDE DEF T
    <3> QED  BY <3>1, SetOfSequence
  <2> HIDE DEF s, t
  <2> QED  BY <2>1, <2>2, <2>3 DEF ImportInvariant, Marked
<1> QED BY <1>1, <1>2, <1>3, PTL DEF Spec
=============================================================================
