---------------------------- MODULE FiniteLemmas ---------------------------
(***************************************************************************)
(* What the proofs need of numbers and finite sets: induction stated about *)
(* sets, greatest elements, and sums that are folded one chosen element    *)
(* after the other, as MapThenSumSet of FiniteSetsExt does.  And of        *)
(* sequences that differ by single edits: the table of distances that is   *)
(* filled cell by cell tells one edit and two edits apart from more.       *)
(***************************************************************************)
EXTENDS Integers, Sequences, FiniteSetTheorems, SequenceTheorems, WellFoundedInduction, TLAPS

LEMMA LeastNumber ==
    ASSUME NEW T, T \subseteq Nat, T # {}
    PROVE  \E x \in T : \A y \in T : x <= y
<1>1. PICK x \in T : \A y \in T : <<y, x>> \notin OpToRel(<, Nat)
  BY NatLessThanWellFounded, WFMin
<1>2. ASSUME NEW y \in T PROVE x <= y
  <2>1. <<y, x>> \in Nat \X Nat  OBVIOUS
  <2>2. ~(y < x)  BY <1>1, <2>1 DEF OpToRel
  <2> QED  BY <2>2
<1> QED  BY <1>2

LEMMA Induction ==
    ASSUME NEW N \in Nat, NEW G, 0 \in G, \A n \in 1..N : n - 1 \in G => n \in G
    PROVE  0..N \subseteq G
<1> SUFFICES ASSUME 0..N \ G # {} PROVE FALSE
  OBVIOUS
<1>1. PICK n \in 0..N \ G : \A k \in 0..N \ G : n <= k
  <2>1. 0..N \ G \subseteq Nat  OBVIOUS
  <2> QED  BY <2>1, LeastNumber
<1>2. n \in 1..N /\ n - 1 \in 0..N /\ ~(n <= n - 1)
  BY <1>1
<1> QED  BY <1>1, <1>2

(* What holds of a set when it holds of those with one element less.       *)
LEMMA SubsetInduction ==
    ASSUME NEW S, IsFiniteSet(S), NEW G,
           \A s \in SUBSET S : (\A x \in s : s \ {x} \in G) => s \in G
    PROVE  SUBSET S \subseteq G
<1> SUFFICES ASSUME (SUBSET S) \ G # {} PROVE FALSE
  OBVIOUS
<1> DEFINE T == (SUBSET S) \ G
<1>1. PICK s \in T : \A t \in T : <<t, s>> \notin StrictSubsetOrdering(S)
  <2>1. T \subseteq FiniteSubsetsOf(S) /\ T # {}
    <3>1. FiniteSubsetsOf(S) = SUBSET S  BY FS_FiniteSubsetsOfFinite
    <3> QED BY <3>1
  <2>2. IsWellFoundedOn(StrictSubsetOrdering(S), FiniteSubsetsOf(S))
    BY FS_StrictSubsetOrderingWellFounded
  <2> HIDE DEF T
  <2> QED BY <2>1, <2>2, WFMin
<1>2. PICK x \in s : s \ {x} \notin G
  <2>1. s \in T  BY <1>1
  <2> QED BY <2>1
<1>3. <<s \ {x}, s>> \in StrictSubsetOrdering(S) /\ s \ {x} \in T
  BY <1>1, <1>2 DEF StrictSubsetOrdering
<1> QED BY <1>1, <1>3

(* In a finite set with a strict partial order some element is below no    *)
(* other.                                                                  *)
LEMMA SomethingIsGreatest ==
    ASSUME NEW S, IsFiniteSet(S), S # {}, NEW R,
           \A x \in S : <<x, x>> \notin R,
           \A x, y, z \in S : <<x, y>> \in R /\ <<y, z>> \in R => <<x, z>> \in R
    PROVE  \E m \in S : \A y \in S : <<m, y>> \notin R
<1> DEFINE Above(x) == {y \in S : <<x, y>> \in R}
           T == {Above(x) : x \in S}
           O == StrictSubsetOrdering(S)
<1>1. T \subseteq FiniteSubsetsOf(S)
  <2>1. \A x \in S : Above(x) \in SUBSET S
    BY Zenon
  <2>2. FiniteSubsetsOf(S) = SUBSET S
    BY FS_FiniteSubsetsOfFinite
  <2> HIDE DEF Above
  <2> QED BY <2>1, <2>2
<1>2. \A x \in S : Above(x) \in T
  BY Zenon
<1>3. PICK a \in T : \A b \in T : <<b, a>> \notin O
  <2>0. T # {}
    <3> HIDE DEF T, Above
    <3> QED BY <1>2
  <2> HIDE DEF T, O
  <2>1. IsWellFoundedOn(O, FiniteSubsetsOf(S))
    BY FS_StrictSubsetOrderingWellFounded DEF O
  <2> QED BY <1>1, <2>0, <2>1, WFMin
<1>4. PICK m \in S : a = Above(m)
  BY <1>3
<1>5. ASSUME NEW y \in S, <<m, y>> \in R PROVE FALSE
  <2>1. Above(y) \subseteq Above(m)
    BY <1>5
  <2>2. y \in Above(m) /\ y \notin Above(y)
    BY <1>5
  <2>3. Above(y) \in SUBSET S /\ Above(m) \in SUBSET S
    OBVIOUS
  <2> HIDE DEF Above
  <2>4. <<Above(y), Above(m)>> \in O
    BY <2>1, <2>2, <2>3 DEF StrictSubsetOrdering
  <2> QED BY <1>2, <1>3, <1>4, <2>4
<1> QED BY <1>5

LEMMA SomethingIsLargest ==
    ASSUME NEW S, IsFiniteSet(S), S # {}, NEW f \in [S -> Int]
    PROVE  /\ \E m \in S : \A y \in S : f[y] <= f[m]
           /\ \E m \in S : \A y \in S : f[m] <= f[y]
<1> DEFINE R == {p \in S \X S : f[p[1]] < f[p[2]]}
           Q == {p \in S \X S : f[p[1]] > f[p[2]]}
<1>1. \A x, y \in S : /\ <<x, y>> \in R <=> f[x] < f[y]
                      /\ <<x, y>> \in Q <=> f[x] > f[y]
  OBVIOUS
<1> HIDE DEF R, Q
<1>2. \E m \in S : \A y \in S : <<m, y>> \notin R
  <2>1. \A x \in S : <<x, x>> \notin R
    BY <1>1
  <2>2. \A x, y, z \in S : <<x, y>> \in R /\ <<y, z>> \in R => <<x, z>> \in R
    BY <1>1
  <2> QED BY <2>1, <2>2, SomethingIsGreatest
<1>3. \E m \in S : \A y \in S : <<m, y>> \notin Q
  <2>1. \A x \in S : <<x, x>> \notin Q
    BY <1>1
  <2>2. \A x, y, z \in S : <<x, y>> \in Q /\ <<y, z>> \in Q => <<x, z>> \in Q
    BY <1>1
  <2> QED BY <2>1, <2>2, SomethingIsGreatest
<1>4. \A x, y \in S : f[x] \in Int /\ f[y] \in Int
  OBVIOUS
<1>5. \A x, y \in S : (~(f[x] < f[y]) => f[y] <= f[x]) /\ (~(f[x] > f[y]) => f[x] <= f[y])
  BY <1>4
<1>6. \E m \in S : \A y \in S : f[y] <= f[m]
  <2>1. PICK m \in S : \A y \in S : <<m, y>> \notin R  BY <1>2
  <2>2. \A y \in S : f[y] <= f[m]  BY <1>1, <1>5, <2>1
  <2> QED BY <2>2
<1>7. \E m \in S : \A y \in S : f[m] <= f[y]
  <2>1. PICK m \in S : \A y \in S : <<m, y>> \notin Q  BY <1>3
  <2>2. \A y \in S : f[m] <= f[y]  BY <1>1, <1>5, <2>1
  <2> QED BY <2>2
<1> QED BY <1>6, <1>7

----------------------------------------------------------------------------
Chosen(s) == CHOOSE x \in s : TRUE

(* The recursive function of MapThenSumSet. *)
Folding(sum, f, s) == IF s = {} THEN 0 ELSE f[Chosen(s)] + sum[s \ {Chosen(s)}]

Folded(sum, f, S) == sum = [s \in SUBSET S |-> Folding(sum, f, s)]

(* The sum whatever element is taken first. *)
SumsUp(sum, f, S) ==
    /\ sum \in [SUBSET S -> Int]
    /\ sum[{}] = 0
    /\ \A s \in SUBSET S : \A x \in s : sum[s] = f[x] + sum[s \ {x}]

LEMMA ChosenIn == \A s : s # {} => Chosen(s) \in s
BY DEF Chosen

LEMMA FoldExists ==
    ASSUME NEW S, IsFiniteSet(S), NEW f \in [S -> Int]
    PROVE  \E sum : Folded(sum, f, S)
<1> DEFINE N == Cardinality(S)
           Upto(sum, m) == \A s \in SUBSET S : Cardinality(s) <= m => sum[s] = Folding(sum, f, s)
           G == {m \in 0..N : \E sum \in [SUBSET S -> Int] : Upto(sum, m)}
<1>1. N \in Nat /\ \A s \in SUBSET S : IsFiniteSet(s) /\ Cardinality(s) \in Nat /\ Cardinality(s) <= N
  BY FS_Subset, FS_CardinalityType
<1>2. 0 \in G
  <2> DEFINE zero == [s \in SUBSET S |-> 0]
  <2>1. Upto(zero, 0)
    <3> SUFFICES ASSUME NEW s \in SUBSET S, Cardinality(s) <= 0 PROVE zero[s] = Folding(zero, f, s)
      OBVIOUS
    <3>1. s = {}  BY <1>1, FS_EmptySet
    <3> QED BY <3>1 DEF Folding
  <2>2. zero \in [SUBSET S -> Int]  OBVIOUS
  <2> HIDE DEF zero, Upto
  <2> QED BY <1>1, <2>1, <2>2
<1>3. ASSUME NEW m \in 1..N, m - 1 \in G PROVE m \in G
  <2>1. PICK sum \in [SUBSET S -> Int] : Upto(sum, m - 1)
    BY <1>3
  <2> DEFINE next == [s \in SUBSET S |-> IF Cardinality(s) <= m - 1 THEN sum[s] ELSE Folding(sum, f, s)]
  <2>2. \A s \in SUBSET S : s # {} => /\ Chosen(s) \in S /\ s \ {Chosen(s)} \in SUBSET S
                                      /\ Cardinality(s \ {Chosen(s)}) = Cardinality(s) - 1
    BY <1>1, ChosenIn, FS_RemoveElement
  <2>3. next \in [SUBSET S -> Int]
    BY <2>2 DEF Folding
  <2>4. Upto(next, m)
    <3> SUFFICES ASSUME NEW s \in SUBSET S, Cardinality(s) <= m PROVE next[s] = Folding(next, f, s)
      OBVIOUS
    <3>1. next[s] = Folding(sum, f, s)
      BY <2>1
    <3>2. s # {} => next[s \ {Chosen(s)}] = sum[s \ {Chosen(s)}]
      BY <1>1, <2>2
    <3> HIDE DEF next
    <3> QED BY <3>1, <3>2 DEF Folding
  <2> HIDE DEF next, Upto
  <2> QED BY <2>3, <2>4
<1>4. N \in G
  <2> HIDE DEF G, N
  <2>1. 0..N \subseteq G
    BY <1>1, <1>2, <1>3, Induction
  <2> QED BY <1>1, <2>1
<1>5. PICK sum \in [SUBSET S -> Int] : Upto(sum, N)
  BY <1>4
<1>6. \A s \in SUBSET S : sum[s] = Folding(sum, f, s)
  BY <1>1, <1>5
<1> QED BY <1>6 DEF Folded

LEMMA FoldSums ==
    ASSUME NEW S, IsFiniteSet(S), NEW f \in [S -> Int], NEW sum, Folded(sum, f, S)
    PROVE  SumsUp(sum, f, S)
<1> DEFINE Typed == {s \in SUBSET S : sum[s] \in Int}
           Any(s) == \A x \in s : sum[s] = f[x] + sum[s \ {x}]
           Free == {s \in SUBSET S : Any(s)}
<1>1. \A s \in SUBSET S : sum[s] = Folding(sum, f, s)
  BY DEF Folded
<1>2. \A s \in SUBSET S : s # {} => Chosen(s) \in s /\ sum[s] = f[Chosen(s)] + sum[s \ {Chosen(s)}]
  BY <1>1, ChosenIn DEF Folding
<1>3. sum[{}] = 0
  BY <1>1 DEF Folding
<1>4. SUBSET S \subseteq Typed
  <2>1. ASSUME NEW s \in SUBSET S, \A x \in s : s \ {x} \in Typed PROVE sum[s] \in Int
    <3>1. CASE s = {}  BY <1>3, <3>1
    <3>2. CASE s # {}
      <4>1. Chosen(s) \in s /\ sum[s] = f[Chosen(s)] + sum[s \ {Chosen(s)}]
        BY <1>2, <3>2
      <4>2. f[Chosen(s)] \in Int /\ sum[s \ {Chosen(s)}] \in Int
        BY <2>1, <4>1
      <4> QED BY <4>1, <4>2
    <3> QED BY <3>1, <3>2
  <2>2. \A s \in SUBSET S : (\A x \in s : s \ {x} \in Typed) => s \in Typed
    BY <2>1
  <2> HIDE DEF Typed
  <2> QED BY <2>2, SubsetInduction
<1>5. SUBSET S \subseteq Free
  <2>1. ASSUME NEW s \in SUBSET S, \A x \in s : s \ {x} \in Free, NEW x \in s
        PROVE  sum[s] = f[x] + sum[s \ {x}]
    <3> DEFINE c == Chosen(s)
    <3>1. c \in s /\ sum[s] = f[c] + sum[s \ {c}]
      BY <1>2
    <3> HIDE DEF c
    <3>2. CASE x = c  BY <3>1, <3>2
    <3>3. CASE x # c
      <4>1. sum[s \ {c}] = f[x] + sum[(s \ {c}) \ {x}]
        BY <2>1, <3>1, <3>3
      <4>2. sum[s \ {x}] = f[c] + sum[(s \ {x}) \ {c}]
        BY <2>1, <3>1, <3>3
      <4>3. (s \ {x}) \ {c} = (s \ {c}) \ {x}
        OBVIOUS
      <4> DEFINE rest == sum[(s \ {c}) \ {x}]
      <4>4. rest \in Int /\ f[x] \in Int /\ f[c] \in Int
        <5>1. (s \ {c}) \ {x} \in SUBSET S /\ c \in S /\ x \in S
          BY <3>1
        <5> QED BY <1>4, <5>1
      <4>5. sum[s \ {c}] = f[x] + rest /\ sum[s \ {x}] = f[c] + rest
        BY <4>1, <4>2, <4>3
      <4> HIDE DEF rest
      <4> QED BY <3>1, <4>4, <4>5
    <3> QED BY <3>2, <3>3
  <2>2. \A s \in SUBSET S : (\A x \in s : s \ {x} \in Free) => s \in Free
    BY <2>1
  <2> HIDE DEF Free
  <2> QED BY <2>2, SubsetInduction
<1>6. sum \in [SUBSET S -> Int]
  BY <1>4 DEF Folded
<1> QED BY <1>3, <1>5, <1>6 DEF SumsUp

(* The sum over two sets that share nothing. *)
LEMMA SumOfUnion ==
    ASSUME NEW S, IsFiniteSet(S), NEW f \in [S -> Int], NEW sum, SumsUp(sum, f, S),
           NEW a \in SUBSET S, NEW b \in SUBSET S, a \intersect b = {}
    PROVE  sum[a \union b] = sum[a] + sum[b]
<1> DEFINE G == {t \in SUBSET S : a \intersect t = {} => sum[a \union t] = sum[a] + sum[t]}
<1>1. ASSUME NEW t \in SUBSET S, \A x \in t : t \ {x} \in G, a \intersect t = {}
      PROVE  sum[a \union t] = sum[a] + sum[t]
  <2>1. CASE t = {}
    BY <2>1 DEF SumsUp
  <2>2. CASE t # {}
    <3>1. PICK x \in t : TRUE  BY <2>2
    <3>2. sum[t] = f[x] + sum[t \ {x}]
      BY DEF SumsUp
    <3>3. sum[a \union t] = f[x] + sum[(a \union t) \ {x}]
      BY DEF SumsUp
    <3>4. (a \union t) \ {x} = a \union (t \ {x})
      BY <1>1
    <3>5. sum[a \union (t \ {x})] = sum[a] + sum[t \ {x}]
      BY <1>1
    <3>6. sum[a] \in Int /\ sum[t \ {x}] \in Int /\ f[x] \in Int
      BY DEF SumsUp
    <3>7. sum[a \union t] = f[x] + (sum[a] + sum[t \ {x}])
      BY <3>3, <3>4, <3>5
    <3> QED BY <3>2, <3>6, <3>7
  <2> QED BY <2>1, <2>2
<1>2. \A t \in SUBSET S : (\A x \in t : t \ {x} \in G) => t \in G
  BY <1>1
<1>3. b \in G
  <2> HIDE DEF G
  <2> QED BY <1>2, SubsetInduction
<1> QED BY <1>3

(* A sum depends on nothing but what is added. *)
LEMMA SumsAgree ==
    ASSUME NEW S, IsFiniteSet(S), NEW f \in [S -> Int], NEW sum, SumsUp(sum, f, S),
           NEW T, NEW g \in [T -> Int], NEW other, SumsUp(other, g, T),
           S \subseteq T, \A x \in S : f[x] = g[x]
    PROVE  sum[S] = other[S]
<1> DEFINE G == {s \in SUBSET S : sum[s] = other[s]}
<1>1. \A s \in SUBSET S : (\A x \in s : s \ {x} \in G) => s \in G
  <2> SUFFICES ASSUME NEW s \in SUBSET S, \A x \in s : s \ {x} \in G PROVE sum[s] = other[s]
    OBVIOUS
  <2>1. CASE s = {}  BY <2>1 DEF SumsUp
  <2>2. CASE s # {}
    <3>1. PICK x \in s : TRUE  BY <2>2
    <3>2. sum[s] = f[x] + sum[s \ {x}]
      BY DEF SumsUp
    <3>3. other[s] = g[x] + other[s \ {x}]
      BY DEF SumsUp
    <3> QED BY <3>2, <3>3
  <2> QED BY <2>1, <2>2
<1>2. S \in G
  <2> HIDE DEF G
  <2> QED BY <1>1, SubsetInduction
<1> QED BY <1>2

(* Sums compare when what is added does.                                   *)
LEMMA SumsCompare ==
    ASSUME NEW S, IsFiniteSet(S),
           NEW f \in [S -> Int], NEW a, SumsUp(a, f, S),
           NEW g \in [S -> Int], NEW b, SumsUp(b, g, S),
           NEW h \in [S -> Int], NEW c, SumsUp(c, h, S),
           \A x \in S : f[x] >= g[x] - h[x]
    PROVE  /\ a[S] >= b[S] - c[S]
           /\ (\A x \in S : f[x] = g[x] - h[x]) => a[S] = b[S] - c[S]
<1> DEFINE Equal == \A x \in S : f[x] = g[x] - h[x]
           G == {s \in SUBSET S : a[s] >= b[s] - c[s] /\ (Equal => a[s] = b[s] - c[s])}
<1>1. ASSUME NEW s \in SUBSET S, \A x \in s : s \ {x} \in G
      PROVE  a[s] >= b[s] - c[s] /\ (Equal => a[s] = b[s] - c[s])
  <2>1. CASE s = {}  BY <2>1 DEF SumsUp
  <2>2. CASE s # {}
    <3>1. PICK x \in s : TRUE  BY <2>2
    <3> DEFINE r == s \ {x}
    <3>2. a[s] = f[x] + a[r] /\ b[s] = g[x] + b[r] /\ c[s] = h[x] + c[r]
      BY DEF SumsUp
    <3>3. a[r] >= b[r] - c[r] /\ (Equal => a[r] = b[r] - c[r])
      BY <1>1
    <3>4. a[r] \in Int /\ b[r] \in Int /\ c[r] \in Int /\ f[x] \in Int /\ g[x] \in Int /\ h[x] \in Int
      BY DEF SumsUp
    <3>5. f[x] >= g[x] - h[x] /\ (Equal => f[x] = g[x] - h[x])
      OBVIOUS
    <3> HIDE DEF r, Equal
    <3>6. \A i, j, k, m, n, o \in Int :
            /\ i >= j - k /\ m >= n - o => i + m >= (j + n) - (k + o)
            /\ i = j - k /\ m = n - o => i + m = (j + n) - (k + o)
      OBVIOUS
    <3>7. f[x] + a[r] >= (g[x] + b[r]) - (h[x] + c[r])
      BY <3>3, <3>4, <3>5, <3>6
    <3>8. Equal => f[x] + a[r] = (g[x] + b[r]) - (h[x] + c[r])
      BY <3>3, <3>4, <3>5, <3>6
    <3> QED BY <3>2, <3>7, <3>8
  <2> QED BY <2>1, <2>2
<1>2. \A s \in SUBSET S : (\A x \in s : s \ {x} \in G) => s \in G
  BY <1>1
<1>3. S \in G
  <2> HIDE DEF G
  <2> QED BY <1>2, SubsetInduction
<1> QED BY <1>3

(* Where nothing is added, nothing adds up.                                *)
LEMMA SumOfNothing ==
    ASSUME NEW D, IsFiniteSet(D), NEW f \in [D -> Int], NEW sum, SumsUp(sum, f, D),
           NEW T \in SUBSET D, \A x \in T : f[x] = 0
    PROVE  sum[T] = 0
<1> DEFINE Nil == {s \in SUBSET T : sum[s] = 0}
<1>1. ASSUME NEW s \in SUBSET T, \A x \in s : s \ {x} \in Nil PROVE sum[s] = 0
  <2>1. CASE s = {}  BY <2>1 DEF SumsUp
  <2>2. CASE s # {}
    <3>1. PICK x \in s : TRUE  BY <2>2
    <3>2. sum[s] = f[x] + sum[s \ {x}]  BY DEF SumsUp
    <3>3. f[x] = 0 /\ sum[s \ {x}] = 0  BY <1>1
    <3> QED BY <3>2, <3>3
  <2> QED BY <2>1, <2>2
<1>2. \A s \in SUBSET T : (\A x \in s : s \ {x} \in Nil) => s \in Nil
  BY <1>1
<1>3. IsFiniteSet(T)  BY FS_Subset
<1>4. T \in Nil
  <2> HIDE DEF Nil
  <2> QED BY <1>2, <1>3, SubsetInduction
<1> QED BY <1>4

(* The sum over sets that share nothing is the sum of their sums.          *)
Apart(piece, S)  == \A x, y \in S : x # y => piece[x] \intersect piece[y] = {}
Whole(piece, S)  == UNION {piece[x] : x \in S}
InPieces(sum, piece, S) == [x \in S |-> sum[piece[x]]]

LEMMA InWhole ==
    \A piece, X, p : p \in Whole(piece, X) <=> \E x \in X : p \in piece[x]
BY DEF Whole

LEMMA SumOfPieces ==
    ASSUME NEW D, IsFiniteSet(D), NEW f \in [D -> Int], NEW all, SumsUp(all, f, D),
           NEW S, IsFiniteSet(S), NEW piece \in [S -> SUBSET D],
           Apart(piece, S), NEW sum, SumsUp(sum, InPieces(all, piece, S), S)
    PROVE  sum[S] = all[Whole(piece, S)]
<1> DEFINE Of(s) == UNION {piece[x] : x \in s}
           G == {s \in SUBSET S : sum[s] = all[Of(s)]}
           g == InPieces(all, piece, S)
<1>0. \A a, b \in SUBSET D : a \intersect b = {} => all[a \union b] = all[a] + all[b]
  <2> HIDE DEF G, Of, g
  <2> QED BY SumOfUnion, SMTT(30)
<1>1. ASSUME NEW s \in SUBSET S, \A x \in s : s \ {x} \in G PROVE sum[s] = all[Of(s)]
  <2>1. CASE s = {}
    <3>1. Of(s) = {}  BY <2>1
    <3> QED BY <2>1, <3>1 DEF SumsUp
  <2>2. CASE s # {}
    <3>1. PICK x \in s : TRUE  BY <2>2
    <3>2. sum[s] = g[x] + sum[s \ {x}]
      BY DEF SumsUp
    <3>3. g[x] = all[piece[x]]
      BY DEF InPieces
    <3>4. sum[s \ {x}] = all[Of(s \ {x})]
      BY <1>1
    <3>5. Of(s) = piece[x] \union Of(s \ {x}) /\ piece[x] \intersect Of(s \ {x}) = {}
      BY DEF Apart
    <3>6. piece[x] \in SUBSET D /\ Of(s \ {x}) \in SUBSET D
      OBVIOUS
    <3> DEFINE one  == piece[x]
               rest == Of(s \ {x})
    <3>7. all[Of(s)] = all[one] + all[rest]
      <4>1. one \in SUBSET D /\ rest \in SUBSET D /\ one \intersect rest = {}
            /\ Of(s) = one \union rest
        BY <3>5, <3>6
      <4> HIDE DEF Of, g, one, rest
      <4>2. all[one \union rest] = all[one] + all[rest]
        BY <1>0, <4>1, Zenon
      <4> QED BY <4>1, <4>2
    <3> HIDE DEF Of, g
    <3> QED BY <3>2, <3>3, <3>4, <3>7
  <2> QED BY <2>1, <2>2
<1>2. \A s \in SUBSET S : (\A x \in s : s \ {x} \in G) => s \in G
  BY <1>1
<1>3. S \in G
  <2> HIDE DEF G
  <2> QED BY <1>2, SubsetInduction
<1> QED BY <1>3 DEF Whole

(* What a value rises from one of finitely many instants to the next, from *)
(* the first to the last.                                                  *)
NextTo(at, P) ==
    {s \in P \X P : at[s[1]] < at[s[2]]
                    /\ \A k \in P : ~(at[s[1]] < at[k] /\ at[k] < at[s[2]])}

Rises(value, steps) == [s \in steps |-> value[s[2]] - value[s[1]]]

LEMMA Telescope ==
    ASSUME NEW P, IsFiniteSet(P), NEW at \in [P -> Int], NEW value \in [P -> Int],
           \A p, q \in P : at[p] = at[q] => p = q,
           NEW steps, steps = NextTo(at, P), NEW sum, SumsUp(sum, Rises(value, steps), steps),
           NEW first \in P, NEW last \in P, \A k \in P : at[first] <= at[k] /\ at[k] <= at[last]
    PROVE  sum[steps] = value[last] - value[first]
<1> DEFINE Upto(p) == {s \in steps : at[s[2]] <= at[p]}
           Bad == {p \in P : sum[Upto(p)] # value[p] - value[first]}
           rise == Rises(value, steps)
<1>0. \A p \in P : at[p] \in Int /\ value[p] \in Int
  OBVIOUS
<1>1. \A s \in steps : /\ s[1] \in P /\ s[2] \in P /\ s = <<s[1], s[2]>> /\ at[s[1]] < at[s[2]]
                       /\ \A k \in P : ~(at[s[1]] < at[k] /\ at[k] < at[s[2]])
  BY DEF NextTo
<1>2. Bad = {}
  <2> SUFFICES ASSUME Bad # {} PROVE FALSE
    OBVIOUS
  <2>1. PICK p \in Bad : \A q \in Bad : at[p] <= at[q]
    <3> DEFINE f == [q \in Bad |-> at[q]]
    <3>1. IsFiniteSet(Bad) /\ f \in [Bad -> Int]
      BY FS_Subset
    <3>2. \E m \in Bad : \A y \in Bad : f[m] <= f[y]
      <4> HIDE DEF f, Bad
      <4> QED BY <3>1, SomethingIsLargest
    <3> HIDE DEF Bad
    <3> QED BY <3>2
  <2>2. p \in P /\ sum[Upto(p)] # value[p] - value[first]
    BY <2>1
  <2>3. p # first
    <3>1. Upto(first) = {}
      BY <1>0, <1>1
    <3> HIDE DEF Upto
    <3>2. sum[Upto(first)] = 0
      BY <3>1 DEF SumsUp
    <3> QED BY <1>0, <2>2, <3>2
  <2> DEFINE Before == {q \in P : at[q] < at[p]}
  <2>4. PICK q \in Before : \A k \in Before : at[k] <= at[q]
    <3> DEFINE f == [k \in Before |-> at[k]]
    <3>1. IsFiniteSet(Before) /\ f \in [Before -> Int]
      BY FS_Subset
    <3>2. first \in Before
      <4>1. at[first] # at[p] /\ at[first] <= at[p]  BY <2>2, <2>3
      <4> QED BY <1>0, <2>2, <4>1
    <3>3. \E m \in Before : \A y \in Before : f[y] <= f[m]
      <4> HIDE DEF f, Before
      <4> QED BY <3>1, <3>2, SomethingIsLargest
    <3> HIDE DEF Before
    <3> QED BY <3>3
  <2>5. q \in P /\ at[q] < at[p]
    BY <2>4
  <2> DEFINE last_step == <<q, p>>
  <2>6. last_step \in steps
    <3>1. \A k \in P : ~(at[q] < at[k] /\ at[k] < at[p])
      BY <1>0, <2>2, <2>4
    <3> QED BY <2>2, <2>5, <3>1 DEF NextTo
  <2>7. Upto(p) \ {last_step} = Upto(q)
    <3>1. ASSUME NEW s \in steps, at[s[2]] <= at[p], s # last_step
          PROVE  at[s[2]] <= at[q]
      <4>1. s[1] \in P /\ s[2] \in P /\ s = <<s[1], s[2]>> /\ at[s[1]] < at[s[2]]
            /\ ~(at[s[1]] < at[q] /\ at[q] < at[s[2]])
        BY <1>1, <2>5
      <4>2. CASE at[s[2]] = at[p]
        <5>1. s[2] = p  BY <2>2, <4>1, <4>2
        <5>2. s[1] \in Before  BY <4>1, <4>2
        <5>3. at[s[1]] <= at[q]  BY <2>4, <5>2
        <5>4. at[s[1]] = at[q]
          <6>1. at[s[1]] \in Int /\ at[q] \in Int /\ at[q] < at[s[2]] /\ ~(at[s[1]] < at[q])
            BY <1>0, <2>5, <4>1, <4>2
          <6>2. \A i, j \in Int : i <= j /\ ~(i < j) => i = j  OBVIOUS
          <6> QED BY <5>3, <6>1, <6>2, Zenon
        <5>5. s[1] = q  BY <2>5, <4>1, <5>4
        <5> QED BY <3>1, <4>1, <5>1, <5>5
      <4>3. CASE at[s[2]] # at[p]
        <5>1. s[2] \in Before
          <6>1. at[s[2]] \in Int /\ at[p] \in Int /\ s[2] \in P  BY <1>0, <2>2, <4>1
          <6>2. \A i, j \in Int : i <= j /\ i # j => i < j  OBVIOUS
          <6>3. at[s[2]] < at[p]  BY <3>1, <4>3, <6>1, <6>2, Zenon
          <6> QED BY <6>1, <6>3
        <5> QED BY <2>4, <5>1
      <4> QED BY <4>2, <4>3
    <3>2. ASSUME NEW s \in steps, at[s[2]] <= at[q] PROVE at[s[2]] <= at[p] /\ s # last_step
      <4>1. s[2] \in P  BY <1>1
      <4>2. at[s[2]] < at[p]  BY <1>0, <2>2, <2>5, <3>2, <4>1
      <4> QED BY <1>0, <2>2, <4>1, <4>2
    <3> HIDE DEF last_step
    <3> QED BY <3>1, <3>2
  <2>8. last_step \in Upto(p) /\ Upto(p) \in SUBSET steps
    BY <1>0, <2>2, <2>6
  <2>9. sum[Upto(q)] = value[q] - value[first]
    <3>1. q \notin Bad
      <4>1. q \in Bad => at[p] <= at[q]  BY <2>1
      <4>2. ~(at[p] <= at[q])  BY <1>0, <2>2, <2>5
      <4> HIDE DEF Bad
      <4> QED BY <4>1, <4>2
    <3> QED BY <2>5, <3>1
  <2>10. rise[last_step] = value[p] - value[q]
    BY <2>6 DEF Rises
  <2> HIDE DEF Upto, last_step, Bad, Before, rise
  <2>11. sum[Upto(p)] = rise[last_step] + sum[Upto(p) \ {last_step}]
    <3>1. \A s \in SUBSET steps : \A x \in s : sum[s] = rise[x] + sum[s \ {x}]
      BY DEF SumsUp, rise
    <3> QED BY <2>8, <3>1, Zenon
  <2>12. sum[Upto(p)] = (value[p] - value[q]) + (value[q] - value[first])
    BY <2>7, <2>9, <2>10, <2>11
  <2> QED BY <1>0, <2>2, <2>5, <2>12
<1>3. Upto(last) = steps
  BY <1>0, <1>1
<1>4. sum[Upto(last)] = value[last] - value[first]
  BY <1>2
<1> QED BY <1>3, <1>4

(* As many times the largest summand are not less than the sum.            *)
LEMMA SumBounded ==
    ASSUME NEW S, IsFiniteSet(S), NEW f \in [S -> Int], NEW sum, SumsUp(sum, f, S), NEW h \in Int
    PROVE  /\ (\A x \in S : f[x] <= h) => sum[S] <= Cardinality(S) * h
           /\ (\A x \in S : h <= f[x]) => Cardinality(S) * h <= sum[S]
<1> DEFINE Low == \A x \in S : f[x] <= h
           High == \A x \in S : h <= f[x]
           G == {s \in SUBSET S : /\ (Low => sum[s] <= Cardinality(s) * h)
                                  /\ (High => Cardinality(s) * h <= sum[s])}
<1>1. ASSUME NEW s \in SUBSET S, \A x \in s : s \ {x} \in G PROVE s \in G
  <2>1. CASE s = {}
    <3>1. Cardinality(s) = 0 /\ sum[s] = 0
      BY <2>1, FS_EmptySet DEF SumsUp
    <3>2. 0 * h = 0
      OBVIOUS
    <3> QED BY <3>1, <3>2
  <2>2. CASE s # {}
    <3>1. PICK x \in s : TRUE  BY <2>2
    <3> DEFINE n == Cardinality(s \ {x})
    <3>2. n \in Nat /\ Cardinality(s) = n + 1
      BY <3>1, FS_Subset, FS_RemoveElement, FS_CardinalityType
    <3>3. sum[s] = f[x] + sum[s \ {x}] /\ sum[s \ {x}] \in Int /\ sum[s] \in Int /\ f[x] \in Int
      BY <3>1 DEF SumsUp
    <3>4. s \ {x} \in G
      BY <1>1, <3>1
    <3>5. (n + 1) * h = n * h + h /\ n * h \in Int
      <4> HIDE DEF n, G, Low, High
      <4> QED BY <3>2
    <3>6. /\ Low => sum[s \ {x}] <= n * h /\ f[x] <= h
          /\ High => n * h <= sum[s \ {x}] /\ h <= f[x]
      BY <3>1, <3>4
    <3> HIDE DEF n, Low, High
    <3> QED BY <3>2, <3>3, <3>5, <3>6
  <2> QED BY <2>1, <2>2
<1> HIDE DEF G
<1>2. SUBSET S \subseteq G
  BY <1>1, SubsetInduction
<1>3. S \in G
  BY <1>2
<1> QED BY <1>3 DEF G

(* What a quantity grows by from one step to the next adds up.             *)
Grows(c, f, a, z) == c \in [a..(z + 1) -> Int] /\ \A k \in a..z : f[k] = c[k + 1] - c[k]

LEMMA SumOfSteps ==
    ASSUME NEW a \in Int, NEW z \in Int, a <= z + 1, NEW f \in [a..z -> Int], NEW c, Grows(c, f, a, z),
           NEW sum, SumsUp(sum, f, a..z)
    PROVE  sum[a..z] = c[z + 1] - c[a]
<1> DEFINE n == z + 1 - a
           steps == a..z
<1>4. n \in Nat /\ a + n = z + 1 /\ a + n - 1 = z
  OBVIOUS
<1>5. /\ \A k \in a..(a + n) : c[k] \in Int
      /\ \A k \in a..(a + n - 1) : f[k] = c[k + 1] - c[k]
      /\ a..(a + n - 1) = steps /\ SumsUp(sum, f, steps)
  BY <1>4 DEF Grows
<1> HIDE DEF n, steps
<1> DEFINE G == {m \in 0..n : sum[a..(a + m - 1)] = c[a + m] - c[a]}
<1>1. 0 \in G
  <2>1. a..(a + 0 - 1) = {}  OBVIOUS
  <2>2. sum[{}] = 0 /\ c[a + 0] - c[a] = 0
    <3>1. a \in a..(a + n) /\ a + 0 = a  BY <1>4
    <3> QED BY <1>5, <3>1 DEF SumsUp
  <2> QED BY <1>4, <2>1, <2>2
<1>2. ASSUME NEW m \in 1..n, m - 1 \in G PROVE m \in G
  <2> DEFINE s == a..(a + m - 1)
             k == a + m - 1
  <2>1. s \in SUBSET steps /\ k \in s /\ s \ {k} = a..(a + (m - 1) - 1)
    <3>1. m \in Nat /\ m >= 1 /\ m <= n  BY <1>4
    <3>2. a + m - 1 <= a + n - 1 /\ a <= a + m - 1  BY <1>4, <3>1
    <3>3. s \subseteq a..(a + n - 1) /\ k \in s  BY <1>4, <3>1, <3>2
    <3>4. \A x \in Int : x \in s \ {k} <=> x \in a..(a + (m - 1) - 1)  BY <3>1
    <3>5. s \ {k} \subseteq Int /\ a..(a + (m - 1) - 1) \subseteq Int  BY <3>1
    <3> HIDE DEF s, k
    <3>6. s \ {k} = a..(a + (m - 1) - 1)  BY <3>4, <3>5
    <3> QED BY <1>5, <3>3, <3>6
  <2>2. sum[s] = f[k] + sum[s \ {k}]
    BY <1>5, <2>1 DEF SumsUp
  <2>3. f[k] = c[a + m] - c[a + (m - 1)]
    <3>1. k \in a..(a + n - 1) /\ k + 1 = a + m /\ k = a + (m - 1)  BY <1>4
    <3> QED BY <1>5, <3>1
  <2>4. sum[s \ {k}] = c[a + (m - 1)] - c[a]
    BY <1>2, <2>1
  <2>5. c[a + m] \in Int /\ c[a + (m - 1)] \in Int /\ c[a] \in Int
    <3>1. a + m \in a..(a + n) /\ a + (m - 1) \in a..(a + n) /\ a \in a..(a + n)  BY <1>4
    <3> QED BY <1>5, <3>1
  <2> HIDE DEF s, k
  <2>6. sum[s] = c[a + m] - c[a]
    BY <2>2, <2>3, <2>4, <2>5
  <2> QED BY <2>6 DEF s
<1>3. n \in G
  <2> HIDE DEF G
  <2>1. \A m \in 1..n : m - 1 \in G => m \in G  BY <1>2
  <2>2. 0..n \subseteq G  BY <1>1, <1>4, <2>1, Induction
  <2> QED BY <1>4, <2>2
<1>6. sum[steps] = c[a + n] - c[a]
  BY <1>3, <1>5
<1> QED BY <1>4, <1>6 DEF steps

----------------------------------------------------------------------------
(* Division *)
LEMMA DivMod ==
    ASSUME NEW a \in Int, NEW b \in Nat \ {0}
    PROVE  /\ a \div b \in Int /\ a % b \in Int /\ a = b * (a \div b) + (a % b)
           /\ 0 <= a % b /\ a % b < b
OBVIOUS

(* A multiple divided is what was multiplied. *)
LEMMA DivExact ==
    ASSUME NEW x \in Int, NEW d \in Nat \ {0}
    PROVE  (x * d) \div d = x
<1> DEFINE q == (x * d) \div d  r == (x * d) % d
<1>1. x * d \in Int  OBVIOUS
<1>2. q \in Int /\ r \in Int /\ x * d = d * q + r /\ 0 <= r /\ r < d
  BY <1>1, DivMod
<1> HIDE DEF q, r
<1>3. \A i, j \in Int : i < j => d * i + d <= d * j
  <2> SUFFICES ASSUME NEW i \in Int, NEW j \in Int, i < j PROVE d * i + d <= d * j
    OBVIOUS
  <2>1. d * (i + 1) = d * i + d  OBVIOUS
  <2>2. \A m, n \in Int : m <= n => d * m <= d * n  OBVIOUS
  <2> QED BY <2>1, <2>2
<1>4. d * x = x * d /\ d * x \in Int /\ d * q \in Int
  BY <1>2
<1>5. CASE q < x  BY <1>2, <1>3, <1>4, <1>5
<1>6. CASE x < q  BY <1>2, <1>3, <1>4, <1>6
<1> QED BY <1>2, <1>5, <1>6 DEF q

LEMMA DivRises ==
    ASSUME NEW a \in Int, NEW c \in Int, a <= c, NEW b \in Nat \ {0}
    PROVE  a \div b <= c \div b
<1> DEFINE q == a \div b  r == a % b  p == c \div b  s == c % b
<1>1. q \in Int /\ r \in Int /\ a = b * q + r /\ 0 <= r /\ r < b
  BY DivMod
<1>2. p \in Int /\ s \in Int /\ c = b * p + s /\ 0 <= s /\ s < b
  BY DivMod
<1> HIDE DEF q, r, p, s
<1>3. SUFFICES ASSUME p < q PROVE FALSE
  BY <1>1, <1>2 DEF p, q
<1>4. b * q >= b * (p + 1)
  <2>1. \A x, y \in Int : x <= y => b * x <= b * y
    OBVIOUS
  <2>2. p + 1 <= q /\ p + 1 \in Int
    BY <1>1, <1>2, <1>3
  <2> QED BY <1>1, <2>1, <2>2
<1>5. b * (p + 1) = b * p + b
  BY <1>2
<1>6. b * p \in Int /\ b * q \in Int
  BY <1>1, <1>2
<1> QED BY <1>1, <1>2, <1>4, <1>5, <1>6

(* What is cut off to the last multiple within the hour keeps its order. *)
LEMMA CutRises ==
    ASSUME NEW a \in Int, NEW c \in Int, a <= c, NEW h \in Nat \ {0}, NEW b \in Nat \ {0}
    PROVE  /\ a - ((a % h) % b) \in Int
           /\ a - ((a % h) % b) <= c - ((c % h) % b)
<1> DEFINE q == a \div h  r == a % h  p == c \div h  s == c % h
           k == r \div b  x == r % b  l == s \div b  y == s % b
<1>1. q \in Int /\ r \in Int /\ a = h * q + r /\ 0 <= r /\ r < h
  BY DivMod
<1>2. p \in Int /\ s \in Int /\ c = h * p + s /\ 0 <= s /\ s < h
  BY DivMod
<1>3. q <= p
  BY DivRises
<1>4. k \in Int /\ x \in Int /\ r = b * k + x /\ 0 <= x /\ x < b
  BY <1>1, DivMod
<1>5. l \in Int /\ y \in Int /\ s = b * l + y /\ 0 <= y /\ y < b
  BY <1>2, DivMod
<1>6. h * q \in Int /\ h * p \in Int /\ b * k \in Int /\ b * l \in Int
  <2> HIDE DEF q, p, k, l
  <2> QED BY <1>1, <1>2, <1>4, <1>5
<1>7. r <= s => b * k <= b * l
  <2>1. r <= s => k <= l
    BY <1>1, <1>2, DivRises
  <2> HIDE DEF k, l
  <2> QED BY <1>4, <1>5, <2>1
<1>8. b * l >= 0
  <2>1. 0 \div b = 0
    OBVIOUS
  <2>2. l >= 0
    BY <1>2, <2>1, DivRises
  <2> HIDE DEF l
  <2> QED BY <1>5, <2>2
<1>9. q < p => h * p >= h * q + h
  <2> HIDE DEF q, p
  <2> SUFFICES ASSUME q < p PROVE h * p >= h * q + h
    OBVIOUS
  <2>1. h * (q + 1) = h * q + h
    BY <1>1
  <2>2. q + 1 <= p /\ q + 1 \in Int
    BY <1>1, <1>2
  <2>3. \A i, j \in Int : i <= j => h * i <= h * j
    OBVIOUS
  <2> QED BY <1>2, <2>1, <2>2, <2>3
<1>10. a - x <= c - y /\ a - x \in Int
  <2> DEFINE hq == h * q  hp == h * p  bk == b * k  bl == b * l
  <2>1. a = hq + r /\ c = hp + s /\ r = bk + x /\ s = bl + y
    BY <1>1, <1>2, <1>4, <1>5
  <2>2. hq \in Int /\ hp \in Int /\ bk \in Int /\ bl \in Int /\ (r <= s => bk <= bl) /\ bl >= 0
        /\ (q < p => hp >= hq + h) /\ (q = p => hq = hp)
    BY <1>6, <1>7, <1>8, <1>9
  <2> HIDE DEF hq, hp, bk, bl, q, p, r, s, x, y, k, l
  <2> QED BY <1>1, <1>2, <1>3, <1>4, <1>5, <2>1, <2>2
<1> QED BY <1>10

(* An average rounded half up stays between the bounds of its summands.    *)
LEMMA RoundedBetween ==
    ASSUME NEW n \in Nat \ {0}, NEW sum \in Int, NEW h \in Int
    PROVE  LET average == (2 * sum + n) \div (2 * n)
           IN  /\ average \in Int
               /\ sum <= n * h => average <= h
               /\ n * h <= sum => h <= average
<1> DEFINE d == 2 * n
           v == (2 * sum + n) \div d
           r == (2 * sum + n) % d
           nh == n * h
<1>1. d \in Nat \ {0} /\ 2 * sum + n \in Int /\ nh \in Int
  OBVIOUS
<1>2. v \in Int /\ r \in Int /\ 2 * sum + n = d * v + r /\ 0 <= r /\ r < d
  BY <1>1, DivMod
<1>3. d * h = 2 * nh
  OBVIOUS
<1> HIDE DEF v, r
<1>4. v >= h + 1 => d * v >= 2 * nh + d
  <2> SUFFICES ASSUME v >= h + 1 PROVE d * v >= 2 * nh + d
    OBVIOUS
  <2>1. d * (h + 1) = 2 * nh + d
    BY <1>3
  <2> HIDE DEF d, nh
  <2>2. \A i, j \in Int : i <= j => d * i <= d * j
    BY <1>1
  <2> QED BY <1>2, <2>1, <2>2
<1>5. v <= h - 1 => d * v <= 2 * nh - d
  <2> SUFFICES ASSUME v <= h - 1 PROVE d * v <= 2 * nh - d
    OBVIOUS
  <2>1. d * (h - 1) = 2 * nh - d
    BY <1>3
  <2> HIDE DEF d, nh
  <2>2. \A i, j \in Int : i <= j => d * i <= d * j
    BY <1>1
  <2> QED BY <1>2, <2>1, <2>2
<1> DEFINE dv == d * v
<1>6. dv \in Int /\ 2 * sum + n = dv + r
  BY <1>1, <1>2
<1>7. (sum <= nh => v <= h) /\ (nh <= sum => h <= v)
  <2>1. d = 2 * n  OBVIOUS
  <2> HIDE DEF d, dv, nh
  <2>2. (v >= h + 1 => dv >= 2 * nh + d) /\ (v <= h - 1 => dv <= 2 * nh - d)
    BY <1>4, <1>5 DEF dv
  <2> QED BY <1>1, <1>2, <1>6, <2>1, <2>2
<1> QED BY <1>2, <1>7 DEF v

----------------------------------------------------------------------------
(* Sequences that differ by edits *)

(* An element of a sequence is removed, put in, replaced. *)
Shortened(s, i)     == SubSeq(s, 1, i - 1) \o SubSeq(s, i + 1, Len(s))
Inserted(s, i, c) == SubSeq(s, 1, i - 1) \o <<c>> \o SubSeq(s, i, Len(s))
Replaced(s, i, c) == [s EXCEPT ![i] = c]

OneEdit(s, t, C) ==
    \/ \E i \in DOMAIN s : t = Shortened(s, i)
    \/ \E i \in 1..(Len(s) + 1), c \in C : t = Inserted(s, i, c)
    \/ \E i \in DOMAIN s, c \in C : t = Replaced(s, i, c)

(* What the sequence then is, of length n. *)
LacksAt(v, n, s, i) ==
    Len(v) = n /\ \A k \in 1..n : v[k] = IF k < i THEN s[k] ELSE s[k + 1]
HoldsAt(v, n, s, i, c) ==
    Len(v) = n /\ \A k \in 1..n : v[k] = IF k < i THEN s[k] ELSE IF k = i THEN c ELSE s[k - 1]
DiffersAt(v, n, s, i, c) ==
    Len(v) = n /\ \A k \in 1..n : v[k] = IF k = i THEN c ELSE s[k]

LEMMA ShortenedIs ==
    ASSUME NEW T, NEW s \in Seq(T), NEW i \in 1..Len(s), NEW n \in Nat, Len(s) = n + 1
    PROVE  Shortened(s, i) \in Seq(T) /\ LacksAt(Shortened(s, i), n, s, i)
<1> DEFINE a == SubSeq(s, 1, i - 1)
           b == SubSeq(s, i + 1, Len(s))
<1>1. Len(s) \in Nat /\ \A k \in 1..Len(s) : s[k] \in T
  OBVIOUS
<1>2. a \in Seq(T) /\ Len(a) = i - 1 /\ \A k \in 1..(i - 1) : a[k] = s[k]
  BY <1>1
<1>3. b \in Seq(T) /\ Len(b) = Len(s) - i /\ \A k \in 1..(Len(s) - i) : b[k] = s[i + k]
  BY <1>1
<1> HIDE DEF a, b
<1>4. Shortened(s, i) = a \o b  BY DEF Shortened, a, b
<1>5. a \o b \in Seq(T) /\ Len(a \o b) = Len(s) - 1
  <2>1. a \o b \in Seq(T) /\ Len(a \o b) = Len(a) + Len(b)
    BY <1>2, <1>3, ConcatProperties
  <2> QED BY <1>1, <1>2, <1>3, <2>1
<1>6. \A k \in 1..(Len(s) - 1) : (a \o b)[k] = IF k <= Len(a) THEN a[k] ELSE b[k - Len(a)]
  <2>1. Len(a) + Len(b) = Len(s) - 1  BY <1>1, <1>2, <1>3
  <2>2. \A k \in 1..(Len(a) + Len(b)) : (a \o b)[k] = IF k <= Len(a) THEN a[k] ELSE b[k - Len(a)]
    BY <1>2, <1>3, ConcatProperties
  <2> QED BY <2>1, <2>2
<1>7. \A k \in 1..(Len(s) - 1) : (a \o b)[k] = IF k < i THEN s[k] ELSE s[k + 1]
  <2> SUFFICES ASSUME NEW k \in 1..(Len(s) - 1) PROVE (a \o b)[k] = IF k < i THEN s[k] ELSE s[k + 1]
    OBVIOUS
  <2>1. CASE k < i
    <3>1. k <= Len(a) /\ k \in 1..(i - 1)  BY <1>1, <1>2, <2>1
    <3> QED BY <1>2, <1>6, <2>1, <3>1
  <2>2. CASE ~(k < i)
    <3>1. k - (i - 1) \in 1..(Len(s) - i) /\ i + (k - (i - 1)) = k + 1  BY <1>1, <2>2
    <3>2. b[k - (i - 1)] = s[k + 1]  BY <1>3, <3>1
    <3>3. Len(a) = i - 1 /\ ~(k <= Len(a))  BY <1>1, <1>2, <2>2
    <3> QED BY <1>6, <2>2, <3>2, <3>3
  <2> QED BY <2>1, <2>2
<1> QED BY <1>1, <1>4, <1>5, <1>7 DEF LacksAt

LEMMA InsertedIs ==
    ASSUME NEW T, NEW s \in Seq(T), NEW i \in 1..(Len(s) + 1), NEW c \in T, NEW n \in Nat, n = Len(s) + 1
    PROVE  Inserted(s, i, c) \in Seq(T) /\ HoldsAt(Inserted(s, i, c), n, s, i, c)
<1> DEFINE a == SubSeq(s, 1, i - 1)
           b == SubSeq(s, i, Len(s))
           d == Append(a, c)
<1>1. Len(s) \in Nat /\ \A k \in 1..Len(s) : s[k] \in T
  OBVIOUS
<1>2. a \in Seq(T) /\ Len(a) = i - 1 /\ \A k \in 1..(i - 1) : a[k] = s[k]
  BY <1>1
<1>3. b \in Seq(T) /\ Len(b) = Len(s) - i + 1 /\ \A k \in 1..(Len(s) - i + 1) : b[k] = s[(i + k) - 1]
  BY <1>1
<1> HIDE DEF a, b
<1>4. d \in Seq(T) /\ Len(d) = i /\ (\A k \in 1..(i - 1) : d[k] = s[k]) /\ d[i] = c
  BY <1>1, <1>2
<1>0. a \o <<c>> = d
  BY <1>2, AppendIsConcat
<1> HIDE DEF d
<1>5. Inserted(s, i, c) = d \o b  BY <1>0 DEF Inserted, a, b
<1>6. d \o b \in Seq(T) /\ Len(d \o b) = Len(s) + 1
  <2>1. d \o b \in Seq(T) /\ Len(d \o b) = Len(d) + Len(b)
    BY <1>3, <1>4, ConcatProperties
  <2> QED BY <1>1, <1>3, <1>4, <2>1
<1>7. \A k \in 1..(Len(s) + 1) : (d \o b)[k] = IF k <= i THEN d[k] ELSE b[k - i]
  <2>1. Len(d) + Len(b) = Len(s) + 1 /\ Len(d) = i  BY <1>1, <1>3, <1>4
  <2>2. \A k \in 1..(Len(d) + Len(b)) : (d \o b)[k] = IF k <= Len(d) THEN d[k] ELSE b[k - Len(d)]
    BY <1>3, <1>4, ConcatProperties
  <2> QED BY <2>1, <2>2
<1>8. ASSUME NEW k \in 1..(Len(s) + 1)
      PROVE  (d \o b)[k] = IF k < i THEN s[k] ELSE IF k = i THEN c ELSE s[k - 1]
  <2>1. CASE k <= i  BY <1>1, <1>4, <1>7, <2>1
  <2>2. CASE ~(k <= i)
    <3>1. k - i \in 1..(Len(s) - i + 1) /\ (i + (k - i)) - 1 = k - 1  BY <1>1, <2>2
    <3>2. b[k - i] = s[k - 1]  BY <1>3, <3>1
    <3>3. ~(k < i) /\ k # i  BY <1>1, <2>2
    <3> QED BY <1>7, <2>2, <3>2, <3>3
  <2> QED BY <2>1, <2>2
<1> QED BY <1>5, <1>6, <1>8 DEF HoldsAt

LEMMA ReplacedIs ==
    ASSUME NEW T, NEW s \in Seq(T), NEW i \in 1..Len(s), NEW c \in T, NEW n \in Nat, n = Len(s)
    PROVE  Replaced(s, i, c) \in Seq(T) /\ DiffersAt(Replaced(s, i, c), n, s, i, c)
BY DEF Replaced, DiffersAt

(* The last element stays where it was, unless it is what is edited. *)
LEMMA EditBeforeLast ==
    ASSUME NEW T, NEW p \in Seq(T), NEW x \in T
    PROVE  /\ Shortened(Append(p, x), Len(p) + 1) = p
           /\ \A i \in 1..Len(p) : Shortened(Append(p, x), i) = Append(Shortened(p, i), x)
           /\ \A c \in T :
                 /\ Inserted(Append(p, x), Len(p) + 2, c) = Append(Append(p, x), c)
                 /\ \A i \in 1..(Len(p) + 1) : Inserted(Append(p, x), i, c) = Append(Inserted(p, i, c), x)
                 /\ Replaced(Append(p, x), Len(p) + 1, c) = Append(p, c)
                 /\ \A i \in 1..Len(p) : Replaced(Append(p, x), i, c) = Append(Replaced(p, i, c), x)
<1> DEFINE n == Len(p)
           u == Append(p, x)
<1>1. n \in Nat /\ u \in Seq(T) /\ Len(u) = n + 1 /\ (\A k \in 1..n : u[k] = p[k] /\ p[k] \in T) /\ u[n + 1] = x
  OBVIOUS
<1>2. \A q \in Seq(T), c \in T : /\ Append(q, c) \in Seq(T) /\ Len(Append(q, c)) = Len(q) + 1 /\ Len(q) \in Nat
                                 /\ (\A k \in 1..Len(q) : Append(q, c)[k] = q[k]) /\ Append(q, c)[Len(q) + 1] = c
  OBVIOUS
<1> HIDE DEF u, n
<1>3. Shortened(u, n + 1) = p
  <2>1. n + 1 \in 1..Len(u) /\ p \in Seq(T) /\ Len(p) = n  BY <1>1 DEF n
  <2>2. Shortened(u, n + 1) \in Seq(T) /\ LacksAt(Shortened(u, n + 1), n, u, n + 1)
    BY <1>1, <2>1, ShortenedIs
  <2>3. Len(Shortened(u, n + 1)) = n /\ \A k \in 1..n : Shortened(u, n + 1)[k] = p[k]
    BY <1>1, <2>2 DEF LacksAt
  <2> QED BY <2>1, <2>2, <2>3, SeqEqual
<1>4. ASSUME NEW i \in 1..n PROVE Shortened(u, i) = Append(Shortened(p, i), x)
  <2>1. i \in 1..Len(u) /\ i \in 1..Len(p) /\ Len(p) = n  BY <1>1 DEF n
  <2> DEFINE r == Shortened(p, i)
             v == Shortened(u, i)
  <2>2. v \in Seq(T) /\ LacksAt(v, n, u, i)
    BY <1>1, <2>1, ShortenedIs
  <2>3. r \in Seq(T) /\ LacksAt(r, n - 1, p, i)
    <3>1. n - 1 \in Nat /\ Len(p) = (n - 1) + 1  BY <1>1, <2>1
    <3> QED BY <2>1, <3>1, ShortenedIs
  <2> HIDE DEF r, v
  <2>4. /\ Append(r, x) \in Seq(T) /\ Len(Append(r, x)) = n
        /\ (\A k \in 1..(n - 1) : Append(r, x)[k] = r[k]) /\ Append(r, x)[n] = x
    BY <1>1, <1>2, <2>3 DEF LacksAt
  <2>5. \A k \in 1..n : v[k] = Append(r, x)[k]
    <3> SUFFICES ASSUME NEW k \in 1..n PROVE v[k] = Append(r, x)[k]
      OBVIOUS
    <3>1. CASE k = n  BY <1>1, <2>2, <2>4, <3>1 DEF LacksAt
    <3>2. CASE k # n
      <4>1. k \in 1..(n - 1) /\ k + 1 \in 1..n  BY <1>1, <3>2
      <4> QED BY ZenonT(40), <1>1, <2>2, <2>3, <2>4, <4>1 DEF LacksAt
    <3> QED BY <3>1, <3>2
  <2>6. v = Append(r, x)  BY <2>2, <2>4, <2>5, SeqEqual DEF LacksAt
  <2> QED BY <2>6 DEF r, v
<1>5. ASSUME NEW c \in T PROVE Inserted(u, n + 2, c) = Append(u, c)
  <2>1. n + 2 \in 1..(Len(u) + 1)  BY <1>1
  <2>2. Inserted(u, n + 2, c) \in Seq(T) /\ HoldsAt(Inserted(u, n + 2, c), n + 2, u, n + 2, c)
    <3>1. n + 2 \in Nat /\ n + 2 = Len(u) + 1  BY <1>1
    <3> QED BY <1>1, <2>1, <3>1, InsertedIs
  <2>3. /\ Append(u, c) \in Seq(T) /\ Len(Append(u, c)) = n + 2
        /\ (\A k \in 1..(n + 1) : Append(u, c)[k] = u[k]) /\ Append(u, c)[n + 2] = c
    BY <1>1, <1>2
  <2>4. \A k \in 1..(n + 2) : Inserted(u, n + 2, c)[k] = Append(u, c)[k]
    BY <1>1, <2>2, <2>3 DEF HoldsAt
  <2> QED BY <2>2, <2>3, <2>4, SeqEqual DEF HoldsAt
<1>6. ASSUME NEW c \in T, NEW i \in 1..(n + 1) PROVE Inserted(u, i, c) = Append(Inserted(p, i, c), x)
  <2>1. i \in 1..(Len(u) + 1) /\ i \in 1..(Len(p) + 1) /\ Len(p) = n  BY <1>1 DEF n
  <2> DEFINE r == Inserted(p, i, c)
             v == Inserted(u, i, c)
  <2>2. v \in Seq(T) /\ HoldsAt(v, n + 2, u, i, c)
    <3>1. n + 2 \in Nat /\ n + 2 = Len(u) + 1  BY <1>1
    <3> QED BY <1>1, <2>1, <3>1, InsertedIs
  <2>3. r \in Seq(T) /\ HoldsAt(r, n + 1, p, i, c)
    <3>1. n + 1 \in Nat /\ n + 1 = Len(p) + 1  BY <1>1, <2>1
    <3> QED BY <2>1, <3>1, InsertedIs
  <2> HIDE DEF r, v
  <2>4. /\ Append(r, x) \in Seq(T) /\ Len(Append(r, x)) = n + 2
        /\ (\A k \in 1..(n + 1) : Append(r, x)[k] = r[k]) /\ Append(r, x)[n + 2] = x
    BY <1>1, <1>2, <2>3 DEF HoldsAt
  <2>5. \A k \in 1..(n + 2) : v[k] = Append(r, x)[k]
    <3> SUFFICES ASSUME NEW k \in 1..(n + 2) PROVE v[k] = Append(r, x)[k]
      OBVIOUS
    <3>1. CASE k = n + 2
      <4>1. ~(k < i) /\ k # i /\ k - 1 = n + 1  BY <1>1, <3>1
      <4> QED BY <1>1, <2>2, <2>4, <3>1, <4>1 DEF HoldsAt
    <3>2. CASE k # n + 2
      <4>1. k \in 1..(n + 1)  BY <1>1, <3>2
      <4>2. k < i => k \in 1..n  BY <1>1, <4>1
      <4>3. ~(k < i) /\ k # i => k - 1 \in 1..n  BY <1>1, <4>1
      <4> QED BY <1>1, <2>2, <2>3, <2>4, <4>1, <4>2, <4>3 DEF HoldsAt
    <3> QED BY <3>1, <3>2
  <2>6. v = Append(r, x)  BY <2>2, <2>4, <2>5, SeqEqual DEF HoldsAt
  <2> QED BY <2>6 DEF r, v
<1>7. ASSUME NEW c \in T PROVE Replaced(u, n + 1, c) = Append(p, c)
  <2>1. n + 1 \in 1..Len(u) /\ Len(p) = n  BY <1>1 DEF n
  <2>2. Replaced(u, n + 1, c) \in Seq(T) /\ DiffersAt(Replaced(u, n + 1, c), n + 1, u, n + 1, c)
    <3>1. n + 1 \in Nat /\ n + 1 = Len(u)  BY <1>1
    <3> QED BY <1>1, <2>1, <3>1, ReplacedIs
  <2>3. /\ Append(p, c) \in Seq(T) /\ Len(Append(p, c)) = n + 1
        /\ (\A k \in 1..n : Append(p, c)[k] = p[k]) /\ Append(p, c)[n + 1] = c
    BY <1>1, <1>2, <2>1
  <2>4. \A k \in 1..(n + 1) : Replaced(u, n + 1, c)[k] = Append(p, c)[k]
    <3> SUFFICES ASSUME NEW k \in 1..(n + 1) PROVE Replaced(u, n + 1, c)[k] = Append(p, c)[k]
      OBVIOUS
    <3>1. k = n + 1 \/ k \in 1..n  BY <1>1
    <3> QED BY <1>1, <2>2, <2>3, <3>1 DEF DiffersAt
  <2> QED BY <2>2, <2>3, <2>4, SeqEqual DEF DiffersAt
<1>8. ASSUME NEW c \in T, NEW i \in 1..n PROVE Replaced(u, i, c) = Append(Replaced(p, i, c), x)
  <2>1. i \in 1..Len(u) /\ i \in 1..Len(p) /\ Len(p) = n /\ i # n + 1  BY <1>1 DEF n
  <2> DEFINE r == Replaced(p, i, c)
             v == Replaced(u, i, c)
  <2>2. v \in Seq(T) /\ DiffersAt(v, n + 1, u, i, c)
    BY <1>1, <2>1, ReplacedIs
  <2>3. r \in Seq(T) /\ DiffersAt(r, n, p, i, c)
    BY <1>1, <2>1, ReplacedIs
  <2> HIDE DEF r, v
  <2>4. /\ Append(r, x) \in Seq(T) /\ Len(Append(r, x)) = n + 1
        /\ (\A k \in 1..n : Append(r, x)[k] = r[k]) /\ Append(r, x)[n + 1] = x
    BY <1>1, <1>2, <2>3 DEF DiffersAt
  <2>5. \A k \in 1..(n + 1) : v[k] = Append(r, x)[k]
    <3> SUFFICES ASSUME NEW k \in 1..(n + 1) PROVE v[k] = Append(r, x)[k]
      OBVIOUS
    <3>1. k = n + 1 \/ k \in 1..n  BY <1>1
    <3> QED BY <1>1, <2>1, <2>2, <2>3, <2>4, <3>1 DEF DiffersAt
  <2>6. v = Append(r, x)  BY <2>2, <2>4, <2>5, SeqEqual DEF DiffersAt
  <2> QED BY <2>6 DEF r, v
<1> QED BY <1>3, <1>4, <1>5, <1>6, <1>7, <1>8 DEF n, u

(* One edit longer. *)
LEMMA InsertedLast ==
    ASSUME NEW T, NEW s \in Seq(T), NEW c \in T
    PROVE  Inserted(s, Len(s) + 1, c) = Append(s, c)
<1> DEFINE n == Len(s)
           v == Inserted(s, n + 1, c)
<1>1. n \in Nat /\ n + 1 \in Nat /\ n + 1 \in 1..(n + 1) /\ Len(s) = n
  OBVIOUS
<1>2. v \in Seq(T) /\ HoldsAt(v, n + 1, s, n + 1, c)
  BY <1>1, InsertedIs
<1>3. /\ Append(s, c) \in Seq(T) /\ Len(Append(s, c)) = n + 1
      /\ (\A k \in 1..n : Append(s, c)[k] = s[k]) /\ Append(s, c)[n + 1] = c
  OBVIOUS
<1> HIDE DEF n, v
<1>4. \A k \in 1..(n + 1) : v[k] = Append(s, c)[k]
  <2> SUFFICES ASSUME NEW k \in 1..(n + 1) PROVE v[k] = Append(s, c)[k]
    OBVIOUS
  <2>1. CASE k = n + 1
    <3>1. ~(k < n + 1)  BY <1>1, <2>1
    <3> QED BY <1>2, <1>3, <2>1, <3>1 DEF HoldsAt
  <2>2. CASE k # n + 1
    <3>1. k \in 1..n /\ k < n + 1  BY <1>1, <2>2
    <3> QED BY <1>2, <1>3, <3>1 DEF HoldsAt
  <2> QED BY <2>1, <2>2
<1>5. v = Append(s, c)  BY <1>2, <1>3, <1>4, SeqEqual DEF HoldsAt
<1> QED BY <1>5 DEF v, n

LEMMA OneEditType ==
    ASSUME NEW T, NEW C \in SUBSET T, NEW s \in Seq(T), NEW t, OneEdit(s, t, C)
    PROVE  t \in Seq(T) /\ Len(t) >= Len(s) - 1 /\ Len(t) <= Len(s) + 1
<1>1. Len(s) \in Nat /\ DOMAIN s = 1..Len(s)
  OBVIOUS
<1>2. CASE \E i \in DOMAIN s : t = Shortened(s, i)
  <2>1. PICK i \in 1..Len(s) : t = Shortened(s, i)  BY <1>1, <1>2
  <2>2. Len(s) - 1 \in Nat /\ Len(s) = (Len(s) - 1) + 1  BY <1>1
  <2>3. t \in Seq(T) /\ LacksAt(t, Len(s) - 1, s, i)  BY <2>1, <2>2, ShortenedIs
  <2> QED BY <1>1, <2>3 DEF LacksAt
<1>3. CASE \E i \in 1..(Len(s) + 1), c \in C : t = Inserted(s, i, c)
  <2>1. PICK i \in 1..(Len(s) + 1), c \in T : t = Inserted(s, i, c)  BY <1>3
  <2>2. Len(s) + 1 \in Nat  BY <1>1
  <2>3. t \in Seq(T) /\ HoldsAt(t, Len(s) + 1, s, i, c)  BY <2>1, <2>2, InsertedIs
  <2> QED BY <1>1, <2>3 DEF HoldsAt
<1>4. CASE \E i \in DOMAIN s, c \in C : t = Replaced(s, i, c)
  <2>1. PICK i \in 1..Len(s), c \in T : t = Replaced(s, i, c)  BY <1>1, <1>4
  <2>3. t \in Seq(T) /\ DiffersAt(t, Len(s), s, i, c)  BY <1>1, <2>1, ReplacedIs
  <2> QED BY <1>1, <2>3 DEF DiffersAt
<1> QED BY <1>2, <1>3, <1>4 DEF OneEdit

(* What a single edit makes of a sequence with a last element. *)
FromAppend(T, C, p, x, w) ==
    \/ w = p
    \/ \E c \in C : w = Append(Append(p, x), c) \/ w = Append(p, c)
    \/ \E q \in Seq(T) : w = Append(q, x) /\ OneEdit(p, q, C)

LEMMA EditsOfAppend ==
    ASSUME NEW T, NEW C \in SUBSET T, NEW p \in Seq(T), NEW x \in T, NEW w, OneEdit(Append(p, x), w, C)
    PROVE  FromAppend(T, C, p, x, w)
<1> DEFINE u == Append(p, x)
           n == Len(p)
<1>1. n \in Nat /\ u \in Seq(T) /\ Len(u) = n + 1 /\ DOMAIN u = 1..(n + 1) /\ DOMAIN p = 1..n /\ p \in Seq(T)
  OBVIOUS
<1>2. /\ Shortened(u, n + 1) = p
      /\ \A i \in 1..n : Shortened(u, i) = Append(Shortened(p, i), x)
      /\ \A c \in T : /\ \A i \in 1..(n + 1) : Inserted(u, i, c) = Append(Inserted(p, i, c), x)
                      /\ Replaced(u, n + 1, c) = Append(p, c)
                      /\ \A i \in 1..n : Replaced(u, i, c) = Append(Replaced(p, i, c), x)
  BY EditBeforeLast
<1>11. \A c \in T : Inserted(u, Len(u) + 1, c) = Append(u, c)
  BY <1>1, InsertedLast
<1>3. \A q : OneEdit(p, q, C) => q \in Seq(T)
  BY OneEditType
<1>4. OneEdit(u, w, C)
  OBVIOUS
<1>5. n = Len(p)  OBVIOUS
<1> HIDE DEF u, n
<1>6. \A i : i \in 1..(n + 1) => i = n + 1 \/ i \in 1..n
  BY <1>1
<1>7. \A i : i \in 1..(Len(u) + 1) => i = n + 2 \/ i \in 1..(n + 1)
  BY <1>1
<1>8. CASE \E i \in DOMAIN u : w = Shortened(u, i)
  <2>1. PICK i \in 1..(n + 1) : w = Shortened(u, i)  BY <1>1, <1>8
  <2>2. CASE i = n + 1  BY <1>2, <2>1, <2>2 DEF FromAppend
  <2>3. CASE i \in 1..n
    <3>1. w = Append(Shortened(p, i), x)  BY <1>2, <2>1, <2>3
    <3>2. OneEdit(p, Shortened(p, i), C)  BY <1>1, <2>3 DEF OneEdit
    <3> QED BY <1>3, <3>1, <3>2 DEF FromAppend
  <2> QED BY <1>6, <2>2, <2>3
<1>9. CASE \E i \in 1..(Len(u) + 1), c \in C : w = Inserted(u, i, c)
  <2>1. PICK i \in 1..(Len(u) + 1), c \in C : w = Inserted(u, i, c)  BY <1>9
  <2>2. CASE i = n + 2
    <3>1. i = Len(u) + 1 /\ c \in T  BY <1>1, <2>2
    <3> QED BY <1>11, <2>1, <3>1 DEF FromAppend, u
  <2>3. CASE i \in 1..(n + 1)
    <3>1. w = Append(Inserted(p, i, c), x)  BY <1>2, <2>1, <2>3
    <3>2. OneEdit(p, Inserted(p, i, c), C)  BY <1>5, <2>3 DEF OneEdit
    <3> QED BY <1>3, <3>1, <3>2 DEF FromAppend
  <2> QED BY <1>7, <2>2, <2>3
<1>10. CASE \E i \in DOMAIN u, c \in C : w = Replaced(u, i, c)
  <2>1. PICK i \in 1..(n + 1), c \in C : w = Replaced(u, i, c)  BY <1>1, <1>10
  <2>2. CASE i = n + 1  BY <1>2, <2>1, <2>2 DEF FromAppend
  <2>3. CASE i \in 1..n
    <3>1. w = Append(Replaced(p, i, c), x)  BY <1>2, <2>1, <2>3
    <3>2. OneEdit(p, Replaced(p, i, c), C)  BY <1>1, <2>3 DEF OneEdit
    <3> QED BY <1>3, <3>1, <3>2 DEF FromAppend
  <2> QED BY <1>6, <2>2, <2>3
<1> QED BY <1>4, <1>8, <1>9, <1>10 DEF OneEdit

LEMMA AppendEdits ==
    ASSUME NEW T, NEW C \in SUBSET T, NEW p \in Seq(T), NEW x \in T
    PROVE  /\ OneEdit(Append(p, x), p, C)
           /\ \A c \in C : OneEdit(p, Append(p, c), C) /\ OneEdit(Append(p, x), Append(p, c), C)
           /\ \A q : OneEdit(p, q, C) => OneEdit(Append(p, x), Append(q, x), C)
<1> DEFINE u == Append(p, x)
           n == Len(p)
<1>1. n \in Nat /\ u \in Seq(T) /\ Len(u) = n + 1 /\ DOMAIN u = 1..(n + 1) /\ DOMAIN p = 1..n /\ p \in Seq(T)
  OBVIOUS
<1>2. /\ Shortened(u, n + 1) = p
      /\ \A i \in 1..n : Shortened(u, i) = Append(Shortened(p, i), x)
      /\ \A c \in T : /\ \A i \in 1..(n + 1) : Inserted(u, i, c) = Append(Inserted(p, i, c), x)
                      /\ Replaced(u, n + 1, c) = Append(p, c)
                      /\ \A i \in 1..n : Replaced(u, i, c) = Append(Replaced(p, i, c), x)
  BY EditBeforeLast
<1>3. \A c \in T : Inserted(p, n + 1, c) = Append(p, c)
  BY InsertedLast
<1>4. n = Len(p)  OBVIOUS
<1>5. u = Append(p, x)  OBVIOUS
<1> HIDE DEF u, n
<1>6. n + 1 \in 1..(n + 1) /\ \A i \in 1..n : i \in 1..(n + 1)
  BY <1>1
<1>7. \A i \in 1..(n + 1) : i \in 1..(Len(u) + 1)
  BY <1>1
<1>8. OneEdit(u, p, C)
  BY <1>1, <1>2, <1>6 DEF OneEdit
<1>9. ASSUME NEW c \in C PROVE OneEdit(p, Append(p, c), C) /\ OneEdit(u, Append(p, c), C)
  <2>1. OneEdit(p, Append(p, c), C)  BY <1>3, <1>4, <1>6 DEF OneEdit
  <2>2. OneEdit(u, Append(p, c), C)  BY <1>1, <1>2, <1>6 DEF OneEdit
  <2> QED BY <2>1, <2>2
<1>10. ASSUME NEW q, OneEdit(p, q, C) PROVE OneEdit(u, Append(q, x), C)
  <2>1. CASE \E i \in DOMAIN p : q = Shortened(p, i)
    <3>1. PICK i \in 1..n : q = Shortened(p, i)  BY <1>1, <2>1
    <3>2. Append(q, x) = Shortened(u, i) /\ i \in DOMAIN u  BY <1>1, <1>2, <1>6, <3>1
    <3> QED BY <3>2 DEF OneEdit
  <2>2. CASE \E i \in 1..(Len(p) + 1), c \in C : q = Inserted(p, i, c)
    <3>1. PICK i \in 1..(n + 1), c \in C : q = Inserted(p, i, c)  BY <1>4, <2>2
    <3>2. Append(q, x) = Inserted(u, i, c) /\ i \in 1..(Len(u) + 1)  BY <1>2, <1>7, <3>1
    <3> QED BY <3>2 DEF OneEdit
  <2>3. CASE \E i \in DOMAIN p, c \in C : q = Replaced(p, i, c)
    <3>1. PICK i \in 1..n, c \in C : q = Replaced(p, i, c)  BY <1>1, <2>3
    <3>2. Append(q, x) = Replaced(u, i, c) /\ i \in DOMAIN u  BY <1>1, <1>2, <1>6, <3>1
    <3> QED BY <3>2 DEF OneEdit
  <2> QED BY <1>10, <2>1, <2>2, <2>3 DEF OneEdit
<1> QED BY <1>5, <1>8, <1>9, <1>10

----------------------------------------------------------------------------
(* At most one edit, or two, make t of s. *)
Near(s, t, C)      == s = t \/ OneEdit(s, t, C)
NearTwice(s, t, C) == Near(s, t, C) \/ \E w : OneEdit(s, w, C) /\ OneEdit(w, t, C)

(* What it takes before the last elements. *)
NearBefore(p, x, q, y, C) ==
    p = Append(q, y) \/ Append(p, x) = q \/ p = q \/ (x = y /\ Near(p, q, C))
TwiceBefore(p, x, q, y, C) ==
    \/ Near(p, Append(q, y), C) \/ Near(Append(p, x), q, C) \/ Near(p, q, C)
    \/ x = y /\ NearTwice(p, q, C)

LEMMA NearStep ==
    ASSUME NEW T, NEW C \in SUBSET T, NEW p \in Seq(T), NEW x \in T, NEW q \in Seq(T), NEW y \in C
    PROVE  Near(Append(p, x), Append(q, y), C) <=> NearBefore(p, x, q, y, C)
<1>1. \A r, s \in Seq(T), c, d \in T : Append(r, c) = Append(s, d) <=> r = s /\ c = d
  BY AppendInjective
<1>2. Append(p, x) \in Seq(T) /\ Append(q, y) \in Seq(T) /\ y \in T
  OBVIOUS
<1>3. ASSUME OneEdit(Append(p, x), Append(q, y), C)
      PROVE  p = Append(q, y) \/ Append(p, x) = q \/ p = q \/ (x = y /\ OneEdit(p, q, C))
  <2>1. FromAppend(T, C, p, x, Append(q, y))
    BY <1>3, EditsOfAppend
  <2>2. ASSUME NEW c \in C, Append(q, y) = Append(Append(p, x), c) PROVE Append(p, x) = q
    BY <1>1, <1>2, <2>2
  <2>3. ASSUME NEW c \in C, Append(q, y) = Append(p, c) PROVE p = q
    BY <1>1, <1>2, <2>3
  <2>4. ASSUME NEW r \in Seq(T), Append(q, y) = Append(r, x) PROVE r = q /\ x = y
    BY <1>1, <1>2, <2>4
  <2> QED BY <2>1, <2>2, <2>3, <2>4 DEF FromAppend
<1>4. ASSUME p = Append(q, y) PROVE OneEdit(Append(p, x), Append(q, y), C)
  BY <1>4, AppendEdits
<1>5. ASSUME Append(p, x) = q PROVE OneEdit(Append(p, x), Append(q, y), C)
  BY <1>5, AppendEdits
<1>6. ASSUME p = q PROVE OneEdit(Append(p, x), Append(q, y), C)
  BY <1>6, AppendEdits
<1>7. ASSUME x = y, OneEdit(p, q, C) PROVE OneEdit(Append(p, x), Append(q, y), C)
  BY <1>7, AppendEdits
<1> QED BY <1>1, <1>2, <1>3, <1>4, <1>5, <1>6, <1>7 DEF Near, NearBefore

LEMMA TwiceStep ==
    ASSUME NEW T, NEW C \in SUBSET T, NEW p \in Seq(T), NEW x \in T, NEW q \in Seq(T), NEW y \in C
    PROVE  NearTwice(Append(p, x), Append(q, y), C) <=> TwiceBefore(p, x, q, y, C)
<1> DEFINE u == Append(p, x)
           v == Append(q, y)
           Reached == \/ Near(p, v, C) \/ Near(u, q, C) \/ Near(p, q, C)
                      \/ x = y /\ NearTwice(p, q, C)
<1>1. u \in Seq(T) /\ v \in Seq(T) /\ y \in T
  OBVIOUS
<1>2. ASSUME Near(u, v, C) PROVE Reached
  <2>1. NearBefore(p, x, q, y, C)  BY <1>2, NearStep
  <2> QED BY <2>1 DEF NearBefore, Near, NearTwice
<1>3. ASSUME NEW w, OneEdit(u, w, C), OneEdit(w, v, C) PROVE Reached
  <2>0. FromAppend(T, C, p, x, w)  BY <1>3, EditsOfAppend
  <2>1. \/ w = p
        \/ \E c \in C : w = Append(u, c) \/ w = Append(p, c)
        \/ \E r \in Seq(T) : w = Append(r, x) /\ OneEdit(p, r, C)
    BY <2>0 DEF FromAppend
  <2>2. Near(w, v, C)  BY <1>3 DEF Near
  <2>3. CASE w = p  BY <2>2, <2>3
  <2>4. ASSUME NEW c \in C, w = Append(u, c) PROVE Reached
    <3>1. u = v \/ Append(u, c) = q \/ u = q \/ (c = y /\ Near(u, q, C))
      <4> HIDE DEF u
      <4>1. Near(Append(u, c), Append(q, y), C) /\ c \in T  BY <2>2, <2>4
      <4>2. NearBefore(u, c, q, y, C)  BY <1>1, <4>1, NearStep
      <4> QED BY <4>2 DEF NearBefore
    <3>2. CASE u = v  BY <1>2, <3>2 DEF Near
    <3>3. CASE Append(u, c) = q
      <4>1. OneEdit(u, Append(u, c), C)  BY <1>1, AppendEdits
      <4> QED BY <3>3, <4>1 DEF Near
    <3>4. CASE u = q  BY <3>4 DEF Near
    <3> QED BY <3>1, <3>2, <3>3, <3>4
  <2>5. ASSUME NEW c \in C, w = Append(p, c) PROVE Reached
    <3>1. p = v \/ Append(p, c) = q \/ p = q \/ (c = y /\ Near(p, q, C))
      <4>1. Near(Append(p, c), Append(q, y), C) /\ c \in T  BY <2>2, <2>5
      <4>2. NearBefore(p, c, q, y, C)  BY <4>1, NearStep
      <4> QED BY <4>2 DEF NearBefore
    <3>2. CASE Append(p, c) = q
      <4>1. OneEdit(p, Append(p, c), C)  BY AppendEdits
      <4> QED BY <3>2, <4>1 DEF Near
    <3> QED BY <3>1, <3>2 DEF Near
  <2>6. ASSUME NEW r \in Seq(T), w = Append(r, x), OneEdit(p, r, C) PROVE Reached
    <3>1. r = v \/ Append(r, x) = q \/ r = q \/ (x = y /\ Near(r, q, C))
      <4>1. Near(Append(r, x), Append(q, y), C)  BY <2>2, <2>6
      <4>2. NearBefore(r, x, q, y, C)  BY <4>1, NearStep
      <4> QED BY <4>2 DEF NearBefore
    <3>2. CASE r = v  BY <2>6, <3>2 DEF Near
    <3>3. CASE Append(r, x) = q
      <4>1. OneEdit(u, Append(r, x), C)  BY <2>6, AppendEdits
      <4> QED BY <3>3, <4>1 DEF Near
    <3>4. CASE r = q  BY <2>6, <3>4 DEF Near
    <3>5. CASE x = y /\ Near(r, q, C)  BY <2>6, <3>5 DEF Near, NearTwice
    <3> QED BY <3>1, <3>2, <3>3, <3>4, <3>5
  <2> QED BY <2>1, <2>3, <2>4, <2>5, <2>6
<1>4. OneEdit(u, p, C) /\ OneEdit(u, Append(p, y), C) /\ OneEdit(q, v, C)
  BY AppendEdits
<1>5. ASSUME Near(p, v, C) PROVE NearTwice(u, v, C)
  <2> HIDE DEF u, v
  <2> QED BY <1>4, <1>5 DEF Near, NearTwice
<1>6. ASSUME Near(u, q, C) PROVE NearTwice(u, v, C)
  <2> HIDE DEF u, v
  <2> QED BY <1>4, <1>6 DEF Near, NearTwice
<1>7. ASSUME Near(p, q, C) PROVE NearTwice(u, v, C)
  <2>1. Near(Append(p, y), v, C)
    <3>1. OneEdit(p, q, C) => OneEdit(Append(p, y), v, C)  BY <1>1, AppendEdits
    <3> QED BY <1>7, <3>1 DEF Near
  <2> HIDE DEF u, v
  <2> QED BY <1>4, <2>1 DEF Near, NearTwice
<1>8. ASSUME x = y, NearTwice(p, q, C) PROVE NearTwice(u, v, C)
  <2>1. ASSUME NEW r \in Seq(T), NEW s, OneEdit(r, s, C) PROVE OneEdit(Append(r, x), Append(s, x), C)
    BY <2>1, AppendEdits
  <2>2. v = Append(q, x) /\ u = Append(p, x)  BY <1>8
  <2>3. \A w : OneEdit(p, w, C) => w \in Seq(T)  BY OneEditType
  <2> HIDE DEF u, v
  <2> QED BY <1>8, <2>1, <2>2, <2>3 DEF Near, NearTwice
<1> HIDE DEF u, v
<1>9. NearTwice(u, v, C) <=> Reached
  BY <1>2, <1>3, <1>5, <1>6, <1>7, <1>8 DEF NearTwice
<1> QED BY <1>9 DEF u, v, TwiceBefore

(* d tells how many edits, up to two, make t of s. *)
Measures(d, s, t, C) ==
    /\ d <= 0 <=> s = t
    /\ d <= 1 <=> Near(s, t, C)
    /\ d <= 2 <=> NearTwice(s, t, C)

(* d is the least of three. *)
LeastOf(d, a, b, c) ==
    d <= a /\ d <= b /\ d <= c /\ (d = a \/ d = b \/ d = c)

LEMMA CellStep ==
    ASSUME NEW T, NEW C \in SUBSET T, NEW p \in Seq(T), NEW x \in T, NEW q \in Seq(T), NEW y \in C,
           NEW a \in Nat, Measures(a, p, Append(q, y), C),
           NEW b \in Nat, Measures(b, Append(p, x), q, C),
           NEW c \in Nat, Measures(c, p, q, C),
           NEW e \in {0, 1}, e = 0 <=> x = y,
           NEW d \in Nat, LeastOf(d, a + 1, b + 1, c + e)
    PROVE  Measures(d, Append(p, x), Append(q, y), C)
<1>1. d <= 0 <=> c <= 0 /\ e = 0
  BY DEF LeastOf
<1>2. d <= 1 <=> a <= 0 \/ b <= 0 \/ c <= 0 \/ (e = 0 /\ c <= 1)
  BY DEF LeastOf
<1>3. d <= 2 <=> a <= 1 \/ b <= 1 \/ c <= 1 \/ (e = 0 /\ c <= 2)
  BY DEF LeastOf
<1>4. Append(p, x) = Append(q, y) <=> p = q /\ x = y
  <2>1. y \in T  OBVIOUS
  <2> QED BY <2>1, AppendInjective
<1>5. Near(Append(p, x), Append(q, y), C) <=> NearBefore(p, x, q, y, C)
  BY NearStep
<1>6. NearTwice(Append(p, x), Append(q, y), C) <=> TwiceBefore(p, x, q, y, C)
  BY TwiceStep
<1>7. d <= 0 <=> Append(p, x) = Append(q, y)
  BY <1>1, <1>4, Zenon DEF Measures
<1>8. d <= 1 <=> Near(Append(p, x), Append(q, y), C)
  BY <1>2, <1>5, Zenon DEF Measures, NearBefore
<1>9. d <= 2 <=> NearTwice(Append(p, x), Append(q, y), C)
  BY <1>3, <1>6, Zenon DEF Measures, TwiceBefore
<1> QED BY <1>7, <1>8, <1>9, Zenon DEF Measures

LEMMA SmallNumbers == \A n \in Nat : (n <= 1 => n = 0 \/ n = 1) /\ (n <= 2 => n <= 1 \/ n = 2)
OBVIOUS

(* From nothing, and to nothing, as many edits as there are elements. *)
LEMMA FromNothing ==
    ASSUME NEW T, NEW C \in SUBSET T, NEW t \in Seq(C)
    PROVE  Measures(Len(t), <<>>, t, C)
<1>1. <<>> \in Seq(T) /\ t \in Seq(T) /\ Len(t) \in Nat /\ Len(<<>>) = 0
  OBVIOUS
<1>2. ASSUME NEW w, OneEdit(<<>>, w, C) PROVE w \in Seq(T) /\ Len(w) <= 1
  <2>1. w \in Seq(T) /\ Len(w) <= Len(<<>>) + 1  BY <1>1, <1>2, OneEditType
  <2> QED BY <1>1, <2>1
<1>3. ASSUME NEW r \in Seq(T), NEW w, OneEdit(r, w, C) PROVE Len(w) <= Len(r) + 1
  BY <1>3, OneEditType
<1>4. \A r \in Seq(T), c \in C : OneEdit(r, Append(r, c), C)
  BY AppendEdits
<1>5. Len(t) <= 0 <=> <<>> = t
  BY <1>1
<1>6. Near(<<>>, t, C) => Len(t) <= 1
  BY <1>1, <1>2 DEF Near
<1>7. ASSUME NEW w, OneEdit(<<>>, w, C), OneEdit(w, t, C) PROVE Len(t) <= 2
  <2>1. w \in Seq(T) /\ Len(w) <= 1 /\ Len(w) \in Nat  BY <1>2, <1>7
  <2>2. Len(t) <= Len(w) + 1  BY <1>3, <1>7, <2>1
  <2> QED BY <1>1, <2>1, <2>2
<1>8. NearTwice(<<>>, t, C) => Len(t) <= 2
  <2>1. Near(<<>>, t, C) => Len(t) <= 2  BY <1>1, <1>6
  <2> QED BY <1>7, <2>1 DEF NearTwice
<1>9. ASSUME Len(t) = 1 PROVE OneEdit(<<>>, t, C)
  <2>1. t = Append(<<>>, t[1]) /\ t[1] \in C  BY <1>9
  <2> QED BY <1>1, <1>4, <2>1
<1>10. ASSUME Len(t) = 2 PROVE \E w : OneEdit(<<>>, w, C) /\ OneEdit(w, t, C)
  <2> DEFINE w == Append(<<>>, t[1])
  <2>1. t[1] \in C /\ t[2] \in C /\ t = Append(w, t[2]) /\ w \in Seq(T)
    <3>1. t[1] \in C /\ t[2] \in C /\ t[1] \in T  BY <1>10
    <3>2. w \in Seq(T) /\ w \in Seq(C) /\ Len(w) = 1 /\ w[1] = t[1]  BY <3>1
    <3> HIDE DEF w
    <3>3. /\ Append(w, t[2]) \in Seq(C) /\ Len(Append(w, t[2])) = 2
          /\ Append(w, t[2])[1] = t[1] /\ Append(w, t[2])[2] = t[2]
      <4>1. Len(w) + 1 = 2 /\ 1 \in 1..Len(w)  BY <3>2
      <4>2. \A r \in Seq(C), c \in C :
               /\ Append(r, c) \in Seq(C) /\ Len(Append(r, c)) = Len(r) + 1
               /\ (\A k \in 1..Len(r) : Append(r, c)[k] = r[k]) /\ Append(r, c)[Len(r) + 1] = c
        OBVIOUS
      <4>3. /\ Append(w, t[2]) \in Seq(C) /\ Len(Append(w, t[2])) = Len(w) + 1
            /\ Append(w, t[2])[1] = w[1] /\ Append(w, t[2])[Len(w) + 1] = t[2]
        BY <3>1, <3>2, <4>1, <4>2
      <4> QED BY <3>2, <4>1, <4>3
    <3>4. \A k \in 1..2 : k = 1 \/ k = 2  OBVIOUS
    <3>5. t = Append(w, t[2])  BY <1>10, <3>3, <3>4, SeqEqual
    <3> QED BY <3>1, <3>2, <3>5
  <2>2. OneEdit(<<>>, w, C) /\ OneEdit(w, Append(w, t[2]), C)  BY <1>1, <1>4, <2>1
  <2> QED BY <2>1, <2>2
<1>11. Len(t) <= 1 => Near(<<>>, t, C)
  <2>1. Len(t) <= 1 => Len(t) = 0 \/ Len(t) = 1  BY <1>1, SmallNumbers
  <2> QED BY <1>5, <1>9, <2>1 DEF Near
<1>12. Len(t) <= 2 => NearTwice(<<>>, t, C)
  <2>1. Len(t) <= 2 => Len(t) <= 1 \/ Len(t) = 2  BY <1>1, SmallNumbers
  <2> QED BY <1>10, <1>11, <2>1 DEF NearTwice
<1> QED BY <1>5, <1>6, <1>8, <1>11, <1>12, Zenon DEF Measures

LEMMA ToNothing ==
    ASSUME NEW T, NEW C \in SUBSET T, NEW s \in Seq(T)
    PROVE  Measures(Len(s), s, <<>>, C)
<1>1. <<>> \in Seq(T) /\ Len(s) \in Nat /\ Len(<<>>) = 0
  OBVIOUS
<1>2. ASSUME NEW r \in Seq(T), NEW w, OneEdit(r, w, C) PROVE w \in Seq(T) /\ Len(w) \in Nat /\ Len(r) <= Len(w) + 1
  <2>1. w \in Seq(T) /\ Len(w) >= Len(r) - 1  BY <1>2, OneEditType
  <2> QED BY <2>1
<1>3. \A r \in Seq(T), c \in T : OneEdit(Append(r, c), r, C)
  BY AppendEdits
<1>5. Len(s) <= 0 <=> s = <<>>
  BY <1>1
<1>6. Near(s, <<>>, C) => Len(s) <= 1
  BY <1>1, <1>2 DEF Near
<1>7. ASSUME NEW w, OneEdit(s, w, C), OneEdit(w, <<>>, C) PROVE Len(s) <= 2
  <2>1. w \in Seq(T) /\ Len(w) \in Nat /\ Len(s) <= Len(w) + 1  BY <1>2, <1>7
  <2>2. Len(w) <= Len(<<>>) + 1  BY <1>2, <1>7, <2>1
  <2> QED BY <1>1, <2>1, <2>2
<1>8. NearTwice(s, <<>>, C) => Len(s) <= 2
  <2>1. Near(s, <<>>, C) => Len(s) <= 2  BY <1>1, <1>6
  <2> QED BY <1>7, <2>1 DEF NearTwice
<1>9. ASSUME Len(s) = 1 PROVE OneEdit(s, <<>>, C)
  <2>1. s = Append(<<>>, s[1]) /\ s[1] \in T  BY <1>9
  <2> QED BY <1>1, <1>3, <2>1
<1>10. ASSUME Len(s) = 2 PROVE \E w : OneEdit(s, w, C) /\ OneEdit(w, <<>>, C)
  <2> DEFINE w == Append(<<>>, s[1])
  <2>1. s[1] \in T /\ s[2] \in T /\ s = Append(w, s[2]) /\ w \in Seq(T)  BY <1>10
  <2>2. OneEdit(Append(w, s[2]), w, C) /\ OneEdit(w, <<>>, C)  BY <1>1, <1>3, <2>1
  <2> QED BY <2>1, <2>2
<1>11. Len(s) <= 1 => Near(s, <<>>, C)
  <2>1. Len(s) <= 1 => Len(s) = 0 \/ Len(s) = 1  BY <1>1, SmallNumbers
  <2> QED BY <1>5, <1>9, <2>1 DEF Near
<1>12. Len(s) <= 2 => NearTwice(s, <<>>, C)
  <2>1. Len(s) <= 2 => Len(s) <= 1 \/ Len(s) = 2  BY <1>1, SmallNumbers
  <2> QED BY <1>10, <1>11, <2>1 DEF NearTwice
<1> QED BY <1>5, <1>6, <1>8, <1>11, <1>12, Zenon DEF Measures

(* A table of the distances of the beginnings of s and t. *)
Beginning(s, i) == SubSeq(s, 1, i)

IsTable(D, s, t) ==
    /\ \A i \in 0..Len(s), j \in 0..Len(t) : D[i][j] \in Nat
    /\ \A i \in 0..Len(s) : D[i][0] = i
    /\ \A j \in 0..Len(t) : D[0][j] = j
    /\ \A i \in 1..Len(s), j \in 1..Len(t) :
          LeastOf(D[i][j], D[i - 1][j] + 1, D[i][j - 1] + 1, D[i - 1][j - 1] + IF s[i] = t[j] THEN 0 ELSE 1)

LEMMA BeginningIs ==
    ASSUME NEW T, NEW s \in Seq(T), NEW i \in 0..Len(s)
    PROVE  /\ Beginning(s, i) \in Seq(T) /\ Len(Beginning(s, i)) = i
           /\ i = 0 => Beginning(s, i) = <<>>
           /\ i # 0 => Beginning(s, i) = Append(Beginning(s, i - 1), s[i]) /\ s[i] \in T
           /\ i = Len(s) => Beginning(s, i) = s
<1>1. Len(s) \in Nat /\ \A k \in 1..Len(s) : s[k] \in T
  OBVIOUS
<1>2. ASSUME NEW k \in 0..Len(s)
      PROVE  Beginning(s, k) \in Seq(T) /\ Len(Beginning(s, k)) = k /\ \A l \in 1..k : Beginning(s, k)[l] = s[l]
  BY <1>1 DEF Beginning
<1>3. i = 0 => Beginning(s, i) = <<>>
  BY <1>2
<1>4. ASSUME i # 0 PROVE Beginning(s, i) = Append(Beginning(s, i - 1), s[i]) /\ s[i] \in T
  <2>1. i - 1 \in 0..Len(s) /\ i \in 1..Len(s)  BY <1>1, <1>4
  <2> DEFINE p == Beginning(s, i - 1)
             u == Beginning(s, i)
  <2>2. p \in Seq(T) /\ Len(p) = i - 1 /\ \A l \in 1..(i - 1) : p[l] = s[l]  BY <1>2, <2>1
  <2>3. u \in Seq(T) /\ Len(u) = i /\ \A l \in 1..i : u[l] = s[l]  BY <1>2
  <2> HIDE DEF p, u
  <2>4. s[i] \in T  BY <1>1, <2>1
  <2>5. /\ Append(p, s[i]) \in Seq(T) /\ Len(Append(p, s[i])) = i
        /\ (\A l \in 1..(i - 1) : Append(p, s[i])[l] = p[l]) /\ Append(p, s[i])[i] = s[i]
    BY <1>1, <2>1, <2>2, <2>4
  <2>6. \A l \in 1..i : u[l] = Append(p, s[i])[l]
    <3> SUFFICES ASSUME NEW l \in 1..i PROVE u[l] = Append(p, s[i])[l]
      OBVIOUS
    <3>1. l = i \/ l \in 1..(i - 1)  BY <1>1, <2>1
    <3> QED BY <2>2, <2>3, <2>5, <3>1
  <2>7. u = Append(p, s[i])  BY <2>3, <2>5, <2>6, SeqEqual
  <2> QED BY <2>4, <2>7 DEF p, u
<1>5. i = Len(s) => Beginning(s, i) = s
  BY <1>1, <1>2, SeqEqual
<1> QED BY <1>2, <1>3, <1>4, <1>5

LEMMA TableMeasures ==
    ASSUME NEW T, NEW C \in SUBSET T, NEW s \in Seq(T), NEW t \in Seq(C), NEW D, IsTable(D, s, t)
    PROVE  Measures(D[Len(s)][Len(t)], s, t, C)
<1> DEFINE m == Len(s)
           n == Len(t)
           Right(i, j) == Measures(D[i][j], Beginning(s, i), Beginning(t, j), C)
<1>1. m \in Nat /\ n \in Nat /\ t \in Seq(T)
  OBVIOUS
<1>2. \A i \in 0..m : /\ Beginning(s, i) \in Seq(T) /\ Len(Beginning(s, i)) = i
                      /\ i = 0 => Beginning(s, i) = <<>>
                      /\ i # 0 => Beginning(s, i) = Append(Beginning(s, i - 1), s[i]) /\ s[i] \in T
                      /\ i = m => Beginning(s, i) = s
  BY BeginningIs
<1>3. \A j \in 0..n : /\ Beginning(t, j) \in Seq(C) /\ Len(Beginning(t, j)) = j
                      /\ j = 0 => Beginning(t, j) = <<>>
                      /\ j # 0 => Beginning(t, j) = Append(Beginning(t, j - 1), t[j]) /\ t[j] \in C
                      /\ j = n => Beginning(t, j) = t
  BY BeginningIs
<1>4. /\ \A i \in 0..m, j \in 0..n : D[i][j] \in Nat
      /\ \A i \in 0..m : D[i][0] = i
      /\ \A j \in 0..n : D[0][j] = j
      /\ \A i \in 1..m, j \in 1..n :
            LeastOf(D[i][j], D[i - 1][j] + 1, D[i][j - 1] + 1, D[i - 1][j - 1] + IF s[i] = t[j] THEN 0 ELSE 1)
  BY DEF IsTable
<1> HIDE DEF m, n
<1>5. ASSUME NEW j \in 0..n PROVE Right(0, j)
  <2>1. Beginning(s, 0) = <<>> /\ D[0][j] = j  BY <1>1, <1>2, <1>4
  <2>2. Measures(Len(Beginning(t, j)), <<>>, Beginning(t, j), C)  BY <1>3, FromNothing
  <2> QED BY <1>3, <2>1, <2>2
<1>6. ASSUME NEW i \in 0..m PROVE Right(i, 0)
  <2>1. Beginning(t, 0) = <<>> /\ D[i][0] = i  BY SMTT(30), <1>1, <1>3, <1>4
  <2>2. Measures(Len(Beginning(s, i)), Beginning(s, i), <<>>, C)  BY <1>2, ToNothing
  <2> QED BY <1>2, <2>1, <2>2
<1>7. ASSUME NEW i \in 1..m, NEW j \in 1..n, Right(i - 1, j), Right(i, j - 1), Right(i - 1, j - 1)
      PROVE  Right(i, j)
  <2> DEFINE p == Beginning(s, i - 1)
             q == Beginning(t, j - 1)
             x == s[i]
             y == t[j]
             e == IF x = y THEN 0 ELSE 1
  <2>1. i - 1 \in 0..m /\ i \in 0..m /\ i # 0 /\ j - 1 \in 0..n /\ j \in 0..n /\ j # 0  BY <1>1
  <2>2. p \in Seq(T) /\ x \in T /\ Beginning(s, i) = Append(p, x)  BY <1>2, <2>1
  <2>3. q \in Seq(C) /\ y \in C /\ Beginning(t, j) = Append(q, y)  BY <1>3, <2>1
  <2>4. q \in Seq(T)  BY <2>3
  <2>5. e \in {0, 1} /\ (e = 0 <=> x = y)  OBVIOUS
  <2>6. LeastOf(D[i][j], D[i - 1][j] + 1, D[i][j - 1] + 1, D[i - 1][j - 1] + e)  BY <1>4
  <2>7. D[i][j] \in Nat /\ D[i - 1][j] \in Nat /\ D[i][j - 1] \in Nat /\ D[i - 1][j - 1] \in Nat
    BY <1>4, <2>1
  <2>8. /\ Measures(D[i - 1][j], p, Append(q, y), C)
        /\ Measures(D[i][j - 1], Append(p, x), q, C)
        /\ Measures(D[i - 1][j - 1], p, q, C)
    BY <1>7, <2>2, <2>3
  <2> HIDE DEF p, q, x, y, e
  <2>9. Measures(D[i][j], Append(p, x), Append(q, y), C)
    BY <2>2, <2>3, <2>4, <2>5, <2>6, <2>7, <2>8, CellStep
  <2> QED BY <2>2, <2>3, <2>9
<1> HIDE DEF Right
<1> DEFINE G == {i \in 0..m : \A j \in 0..n : Right(i, j)}
<1>8. 0 \in G  BY <1>1, <1>5
<1>9. ASSUME NEW i \in 1..m, i - 1 \in G PROVE i \in G
  <2> DEFINE H == {j \in 0..n : Right(i, j)}
  <2>1. \A j \in 0..n : Right(i - 1, j)  BY <1>9
  <2>2. 0 \in H
    <3>1. i \in 0..m /\ 0 \in 0..n  BY <1>1
    <3> QED BY <1>6, <3>1
  <2>3. ASSUME NEW j \in 1..n, j - 1 \in H PROVE j \in H
    <3>1. j \in 0..n /\ j - 1 \in 0..n  BY <1>1
    <3>2. Right(i, j - 1)  BY <2>3
    <3> QED BY <1>7, <2>1, <3>1, <3>2
  <2> HIDE DEF H
  <2>4. 0..n \subseteq H  BY <1>1, <2>2, <2>3, Induction
  <2>5. \A j \in 0..n : Right(i, j)  BY <2>4 DEF H
  <2>6. i \in 0..m  BY <1>1
  <2> QED BY <2>5, <2>6
<1> HIDE DEF G
<1>10. 0..m \subseteq G  BY <1>1, <1>8, <1>9, Induction
<1>11. Right(m, n)
  <2>1. m \in 0..m /\ n \in 0..n  BY <1>1
  <2> QED BY <1>10, <2>1 DEF G
<1>12. Beginning(s, m) = s /\ Beginning(t, n) = t
  BY <1>1, <1>2, <1>3
<1> QED BY <1>11, <1>12 DEF Right, m, n
=============================================================================
