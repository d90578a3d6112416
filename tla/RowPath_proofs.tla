---------------------------- MODULE RowPath_proofs ----------------------------
(***************************************************************************)
(* What becomes of a log, for every answer, setting and bound: nothing of  *)
(* an answer is left out of raw, gold holds the exact number and sum of    *)
(* the treasury's transfers, and a build stops only for cause.             *)
(*                                                                         *)
(* The arithmetic comes first: powers of ten, decimal texts and sums are   *)
(* defined by recursion, so that a fact about all of them needs induction. *)
(* Induction is used in the form of a least counterexample (LeastNat), and *)
(* a recursive definition is shown to have a value by NatRecursion and     *)
(* SetRecursion. Then the invariant IInv says of every table what it holds *)
(* in terms of the answers received, without the code's way there.         *)
(***************************************************************************)
EXTENDS RowPath, FiniteSetTheorems, SequenceTheorems, WellFoundedInduction, TLAPS

-------------------------------------------------------------------------------
(* Induction, as the existence of a least counterexample. *)

LEMMA LeastNat ==
  ASSUME NEW T \in SUBSET Nat, T # {}
  PROVE  \E n \in T : \A m \in T : n <= m
<1>1. PICK n \in T : \A m \in T : ~(<<m, n>> \in OpToRel(<, Nat))
  BY WFMin, NatLessThanWellFounded
<1>2. \A m \in T : ~(m < n)
  BY <1>1 DEF OpToRel
<1> QED
  BY <1>2

NatRec(f, stop, prev, base, step) ==
  f = [n \in Nat |-> IF n \in stop THEN base[n] ELSE step[n][f[prev[n]]]]

(* A function is defined by recursion on the natural numbers: base says what it is *)
(* at the numbers in stop, step what it is elsewhere, given its value at prev.     *)
LEMMA NatRecursion ==
  ASSUME NEW V, NEW stop \in SUBSET Nat, NEW prev, NEW base, NEW step,
         \A n \in stop : base[n] \in V,
         \A n \in Nat \ stop : prev[n] \in Nat /\ prev[n] < n,
         \A n \in Nat \ stop : \A v \in V : step[n][v] \in V
  PROVE  \E f \in [Nat -> V] : NatRec(f, stop, prev, base, step)
<1> DEFINE IsRec(g, k) ==
      /\ g \in [0..k -> V]
      /\ \A n \in 0..k : g[n] = IF n \in stop THEN base[n] ELSE step[n][g[prev[n]]]
<1>1. ASSUME NEW k \in Nat, NEW l \in Nat, NEW g, NEW h, IsRec(g, k), IsRec(h, l),
             NEW i \in 0..k, i <= l
      PROVE  g[i] = h[i]
  <2> DEFINE T == {n \in Nat : n <= k /\ n <= l /\ g[n] # h[n]}
  <2> SUFFICES ASSUME T # {} PROVE FALSE
    BY <1>1
  <2>1. PICK n \in T : \A m \in T : n <= m
    BY LeastNat
  <2>2. n \in 0..k /\ n \in 0..l
    OBVIOUS
  <2>3. n \notin stop
    BY <1>1, <2>2
  <2>4. prev[n] \in Nat /\ prev[n] < n
    BY <2>3
  <2>5. g[prev[n]] = h[prev[n]]
    BY <2>1, <2>2, <2>4
  <2> QED
    BY <1>1, <2>2, <2>3, <2>5
<1>2. ASSUME NEW k \in Nat PROVE \E g : IsRec(g, k)
  <2> DEFINE Good == {n \in Nat : \E g : IsRec(g, n)}
             T == Nat \ Good
  <2> SUFFICES ASSUME T # {} PROVE FALSE
    OBVIOUS
  <2> HIDE DEF Good
  <2>1. PICK n \in T : \A m \in T : n <= m
    BY LeastNat
  <2>2. CASE n = 0
    <3> DEFINE g == [i \in 0..0 |-> base[0]]
    <3>1. 0 \in stop
      OBVIOUS
    <3>2. IsRec(g, 0)
      BY <3>1
    <3> QED
      BY <2>2, <3>2 DEF Good
  <2>3. CASE n # 0
    <3>1. n - 1 \in Good
      BY <2>1, <2>3
    <3>2. PICK h : IsRec(h, n - 1)
      BY <3>1 DEF Good
    <3> DEFINE g == [i \in 0..n |-> IF i # n THEN h[i]
                                    ELSE IF n \in stop THEN base[n] ELSE step[n][h[prev[n]]]]
    <3>3. \A i \in 0..n : i # n => i \in 0..(n - 1)
      OBVIOUS
    <3>4. n \notin stop => prev[n] \in 0..(n - 1)
      OBVIOUS
    <3>5. g[n] \in V
      BY <3>2, <3>4
    <3>6. g \in [0..n -> V]
      BY <3>2, <3>3, <3>5
    <3>7. g[n] = IF n \in stop THEN base[n] ELSE step[n][g[prev[n]]]
      BY <3>4
    <3>8. ASSUME NEW i \in 0..n, i # n
          PROVE  g[i] = IF i \in stop THEN base[i] ELSE step[i][g[prev[i]]]
      <4>1. i \in 0..(n - 1) /\ i \in Nat /\ g[i] = h[i]
        BY <3>3, <3>8
      <4>2. i \notin stop => prev[i] \in 0..n /\ prev[i] # n
        BY <4>1
      <4> QED
        BY <3>2, <4>1, <4>2
    <3>9. IsRec(g, n)
      BY <3>6, <3>7, <3>8
    <3> QED
      BY <3>9 DEF Good
  <2> QED
    BY <2>2, <2>3
<1> DEFINE part(k) == CHOOSE g : IsRec(g, k)
           f == [n \in Nat |-> part(n)[n]]
<1>3. \A k \in Nat : IsRec(part(k), k)
  BY <1>2
<1> HIDE DEF part
<1>4. \A k \in Nat : f[k] = part(k)[k] /\ f[k] \in V
  BY <1>3
<1>5. ASSUME NEW n \in Nat
      PROVE  f[n] = IF n \in stop THEN base[n] ELSE step[n][f[prev[n]]]
  <2>1. part(n)[n] = IF n \in stop THEN base[n] ELSE step[n][part(n)[prev[n]]]
    BY <1>3
  <2>2. CASE n \notin stop
    <3>1. prev[n] \in Nat /\ prev[n] < n
      BY <2>2
    <3>2. IsRec(part(n), n) /\ IsRec(part(prev[n]), prev[n]) /\ prev[n] \in 0..n
      BY <1>3, <3>1
    <3> HIDE DEF IsRec
    <3>3. part(n)[prev[n]] = part(prev[n])[prev[n]]
      BY <1>1, <3>1, <3>2
    <3> QED
      BY <1>4, <2>1, <2>2, <3>1, <3>3
  <2> QED
    BY <1>4, <2>1, <2>2
<1> HIDE DEF f
<1>6. f \in [Nat -> V]
  BY <1>4 DEF f
<1>7. NatRec(f, stop, prev, base, step)
  BY <1>5, <1>6 DEF NatRec
<1> QED
  BY <1>6, <1>7

SetRec(f, S, base, pick, step) ==
  f = [s \in SUBSET S |-> IF s = {} THEN base ELSE step[pick[s]][f[s \ {pick[s]}]]]

(* And one on the subsets of a finite set, which takes an element at a time. *)
LEMMA SetRecursion ==
  ASSUME NEW S, IsFiniteSet(S), NEW V, NEW base \in V, NEW pick, NEW step,
         \A s \in SUBSET S : s # {} => pick[s] \in s,
         \A x \in S : \A v \in V : step[x][v] \in V
  PROVE  \E f \in [SUBSET S -> V] : SetRec(f, S, base, pick, step)
<1> DEFINE Upto(k) == {s \in SUBSET S : Cardinality(s) <= k}
           IsRec(g, k) ==
             /\ g \in [Upto(k) -> V]
             /\ \A s \in Upto(k) : g[s] = IF s = {} THEN base
                                          ELSE step[pick[s]][g[s \ {pick[s]}]]
<1>1. \A s \in SUBSET S : IsFiniteSet(s) /\ Cardinality(s) \in Nat
  BY FS_Subset, FS_CardinalityType
<1>2. ASSUME NEW s \in SUBSET S, s # {}
      PROVE  /\ s \ {pick[s]} \in SUBSET S /\ pick[s] \in S
             /\ Cardinality(s \ {pick[s]}) = Cardinality(s) - 1
  <2>1. pick[s] \in s /\ IsFiniteSet(s)
    BY <1>1, <1>2
  <2> QED
    BY <2>1, FS_RemoveElement
<1>3. ASSUME NEW k \in Nat PROVE \E g : IsRec(g, k)
  <2> DEFINE Good == {n \in Nat : \E g : IsRec(g, n)}
             T == Nat \ Good
  <2> SUFFICES ASSUME T # {} PROVE FALSE
    OBVIOUS
  <2> HIDE DEF Good
  <2>1. PICK n \in T : \A m \in T : n <= m
    BY LeastNat
  <2>2. CASE n = 0
    <3> DEFINE g == [s \in Upto(0) |-> base]
    <3>1. \A s \in Upto(0) : s = {}
      BY <1>1, FS_EmptySet
    <3>2. IsRec(g, 0)
      BY <3>1
    <3> QED
      BY <2>2, <3>2 DEF Good
  <2>3. CASE n # 0
    <3>1. n - 1 \in Good
      BY <2>1, <2>3
    <3>2. PICK h : IsRec(h, n - 1)
      BY <3>1 DEF Good
    <3> DEFINE g == [s \in Upto(n) |-> IF s = {} THEN base
                                       ELSE step[pick[s]][h[s \ {pick[s]}]]]
    <3>3. ASSUME NEW s \in Upto(n), s # {}
          PROVE  /\ s \ {pick[s]} \in Upto(n - 1) /\ s \ {pick[s]} \in Upto(n)
                 /\ pick[s] \in S
      BY <1>1, <1>2, <3>3
    <3>4. g \in [Upto(n) -> V]
      BY <3>2, <3>3
    <3>5. ASSUME NEW s \in Upto(n - 1)
          PROVE  s \in Upto(n) /\ g[s] = h[s]
      <4>1. s \in Upto(n)
        BY <1>1
      <4>2. h[s] = IF s = {} THEN base ELSE step[pick[s]][h[s \ {pick[s]}]]
        BY <3>2
      <4> QED
        BY <4>1, <4>2
    <3>6. IsRec(g, n)
      BY <3>3, <3>4, <3>5
    <3> QED
      BY <3>6 DEF Good
  <2> QED
    BY <2>2, <2>3
<1>4. PICK f : IsRec(f, Cardinality(S))
  BY <1>3, FS_CardinalityType
<1>5. Upto(Cardinality(S)) = SUBSET S
  BY FS_Subset
<1>6. f \in [SUBSET S -> V]
  BY <1>4, <1>5
<1>7. \A s \in SUBSET S : f[s] = IF s = {} THEN base ELSE step[pick[s]][f[s \ {pick[s]}]]
  BY <1>4, <1>5
<1>8. SetRec(f, S, base, pick, step)
  BY <1>6, <1>7 DEF SetRec
<1> QED
  BY <1>6, <1>8

-------------------------------------------------------------------------------
(* Powers of ten, and decimal texts. *)

LEMMA TenToFacts ==
  /\ TenTo \in [Nat -> Nat] /\ TenTo[0] = 1
  /\ \A n \in Nat : TenTo[n + 1] = 10 * TenTo[n]
<1> DEFINE stop == {0}
           prev == [n \in Nat |-> n - 1]
           base == [n \in Nat |-> 1]
           step == [n \in Nat |-> [v \in Nat |-> 10 * v]]
           P(f) == f = [n \in Nat |-> IF n = 0 THEN 1 ELSE 10 * f[n - 1]]
           Q(f) == NatRec(f, stop, prev, base, step)
<1>1. /\ stop \in SUBSET Nat
      /\ \A n \in stop : base[n] \in Nat
      /\ \A n \in Nat \ stop : prev[n] \in Nat /\ prev[n] < n
      /\ \A n \in Nat \ stop : \A v \in Nat : step[n][v] \in Nat
  OBVIOUS
<1> HIDE DEF stop, prev, base, step
<1>2. \E f \in [Nat -> Nat] : Q(f)
  BY <1>1, NatRecursion
<1>3. ASSUME NEW f \in [Nat -> Nat], Q(f) PROVE P(f)
  <2>2. ASSUME NEW n \in Nat PROVE f[n] = IF n = 0 THEN 1 ELSE 10 * f[n - 1]
    <3>1. f[n] = IF n \in stop THEN base[n] ELSE step[n][f[prev[n]]]
      BY <1>3 DEF NatRec
    <3> QED
      BY <3>1 DEF stop, base, step, prev
  <2> QED
    BY <1>3, <2>2 DEF NatRec
<1>4. \E f : P(f)
  BY <1>2, <1>3
<1>5. P(TenTo)
  <2>1. TenTo = CHOOSE f : P(f)
    BY DEF TenTo
  <2> HIDE DEF P
  <2> QED
    BY <1>4, <2>1
<1>6. \A n \in Nat : TenTo[n] = IF n = 0 THEN 1 ELSE 10 * TenTo[n - 1]
  BY <1>5
<1>7. TenTo \in [Nat -> Nat]
  <2> DEFINE T == {n \in Nat : TenTo[n] \notin Nat}
  <2> SUFFICES ASSUME T # {} PROVE FALSE
    BY <1>5
  <2>1. PICK n \in T : \A m \in T : n <= m
    BY LeastNat
  <2>2. n # 0 => TenTo[n - 1] \in Nat
    BY <2>1
  <2> QED
    BY <1>6, <2>1, <2>2
<1> QED
  BY <1>6, <1>7

LEMMA TenToGrows ==
  ASSUME NEW m \in Nat, NEW n \in Nat, m <= n
  PROVE  TenTo[m] \in Nat /\ TenTo[n] \in Nat /\ 1 <= TenTo[m] /\ TenTo[m] <= TenTo[n]
<1>1. ASSUME NEW j \in Nat, NEW k \in Nat
      PROVE  TenTo[j] <= TenTo[j + k]
  <2> DEFINE T == {i \in Nat : ~(TenTo[j] <= TenTo[j + i])}
  <2> SUFFICES ASSUME T # {} PROVE FALSE
    OBVIOUS
  <2>1. PICK i \in T : \A l \in T : i <= l
    BY LeastNat
  <2>2. i # 0
    BY TenToFacts
  <2>3. i - 1 \in Nat /\ TenTo[j] <= TenTo[j + (i - 1)]
    BY <2>1, <2>2
  <2>4. TenTo[(j + (i - 1)) + 1] = 10 * TenTo[j + (i - 1)]
    BY <2>3, TenToFacts
  <2>5. TenTo[j + (i - 1)] \in Nat /\ (j + (i - 1)) + 1 = j + i
    BY <2>3, TenToFacts
  <2> QED
    BY <2>3, <2>4, <2>5, TenToFacts
<1>2. n - m \in Nat /\ m + (n - m) = n /\ 0 + m = m
  OBVIOUS
<1>3. TenTo[0] <= TenTo[0 + m] /\ TenTo[m] <= TenTo[m + (n - m)]
  BY <1>1, <1>2
<1> QED
  BY <1>2, <1>3, TenToFacts

LEMMA DecimalTextFacts ==
  /\ DecimalText \in [Nat -> Seq(0..9)]
  /\ \A n \in Nat : DecimalText[n] = IF n < 10 THEN <<n>>
                                     ELSE Append(DecimalText[n \div 10], n % 10)
<1> DEFINE stop == 0..9
           prev == [n \in Nat |-> n \div 10]
           base == [n \in Nat |-> <<n>>]
           step == [n \in Nat |-> [t \in Seq(0..9) |-> Append(t, n % 10)]]
           P(f) == f = [n \in Nat |-> IF n < 10 THEN <<n>> ELSE Append(f[n \div 10], n % 10)]
<1>1. ASSUME NEW n \in Nat \ stop
      PROVE  n \div 10 \in Nat /\ n \div 10 < n /\ n % 10 \in 0..9
  OBVIOUS
<1>2. /\ stop \in SUBSET Nat
      /\ \A n \in stop : base[n] \in Seq(0..9)
      /\ \A n \in Nat \ stop : prev[n] \in Nat /\ prev[n] < n
      /\ \A n \in Nat \ stop : \A t \in Seq(0..9) : step[n][t] \in Seq(0..9)
  BY <1>1
<1> HIDE DEF stop, prev, base, step
<1>3. \E f \in [Nat -> Seq(0..9)] : NatRec(f, stop, prev, base, step)
  BY <1>2, NatRecursion
<1>4. ASSUME NEW f \in [Nat -> Seq(0..9)], NatRec(f, stop, prev, base, step) PROVE P(f)
  <2>1. ASSUME NEW n \in Nat
        PROVE  f[n] = IF n < 10 THEN <<n>> ELSE Append(f[n \div 10], n % 10)
    <3>1. f[n] = IF n \in stop THEN base[n] ELSE step[n][f[prev[n]]]
      BY <1>4 DEF NatRec
    <3>2. prev[n] = n \div 10 /\ n \div 10 \in Nat /\ (n \in stop <=> n < 10)
      BY DEF prev, stop
    <3> QED
      BY <3>1, <3>2 DEF base, step
  <2> QED
    BY <1>4, <2>1 DEF NatRec
<1>5. \E f : P(f)
  BY <1>3, <1>4
<1>6. P(DecimalText)
  <2>1. DecimalText = CHOOSE f : P(f)
    BY DEF DecimalText
  <2> HIDE DEF P
  <2> QED
    BY <1>5, <2>1
<1>7. \A n \in Nat : DecimalText[n] = IF n < 10 THEN <<n>>
                                       ELSE Append(DecimalText[n \div 10], n % 10)
  BY <1>6
<1>8. DecimalText \in [Nat -> Seq(0..9)]
  <2> DEFINE T == {n \in Nat : DecimalText[n] \notin Seq(0..9)}
  <2> SUFFICES ASSUME T # {} PROVE FALSE
    BY <1>6
  <2>1. PICK n \in T : \A m \in T : n <= m
    BY LeastNat
  <2>a. n \in Nat
    OBVIOUS
  <2> HIDE DEF T
  <2>2. CASE n < 10
    <3>1. DecimalText[n] = <<n>>
      BY <1>7, <2>2, <2>a, Zenon
    <3>2. n \in 0..9
      BY <2>2, <2>a
    <3>3. <<n>> \in Seq(0..9)
      BY <3>2
    <3>4. DecimalText[n] \in Seq(0..9)
      BY <3>1, <3>3
    <3> QED
      BY <3>4 DEF T
  <2>3. CASE n >= 10
    <3>1. n \div 10 \in Nat /\ n \div 10 < n /\ n % 10 \in 0..9
      BY <2>3, <2>a
    <3>2. DecimalText[n \div 10] \in Seq(0..9)
      BY <2>1, <2>a, <3>1 DEF T
    <3>3. DecimalText[n] = Append(DecimalText[n \div 10], n % 10)
      <4>1. ~(n < 10)
        BY <2>3, <2>a
      <4> QED
        BY <1>7, <4>1, <2>a, Zenon
    <3>4. DecimalText[n] \in Seq(0..9)
      BY <3>1, <3>2, <3>3, AppendProperties
    <3> QED
      BY <3>4 DEF T
  <2> QED
    BY <2>2, <2>3, <2>a
<1> QED
  BY <1>7, <1>8

(* What Denoted computes, one index after the other from the last. *)
DenotedRec(text, g) ==
  g = [s \in SUBSET (1..Len(text)) |->
         IF s = {} THEN 0 ELSE 10 * g[s \ {Max(s)}] + text[Max(s)]]

LEMMA MaxInside ==
  ASSUME NEW n \in Nat, NEW s \in SUBSET (1..n), s # {}
  PROVE  Max(s) \in s
<1> DEFINE T == {k \in Nat : n - k \in s}
<1>1. PICK x \in s : TRUE
  OBVIOUS
<1>2. n - x \in T
  BY <1>1
<1>3. PICK k \in T : \A l \in T : k <= l
  BY <1>2, LeastNat
<1>4. \A y \in s : n - y \in T /\ n - k >= y
  BY <1>3
<1> QED
  BY <1>3, <1>4 DEF Max

LEMMA DenotedIsRec ==
  ASSUME NEW text \in Seq(Nat)
  PROVE  \E g : DenotedRec(text, g) /\ Denoted(text) = g[1..Len(text)]
<1> DEFINE D == 1..Len(text)
           iter[s \in SUBSET (DOMAIN text)] ==
             IF s = {} THEN 0
             ELSE LET x == Max(s) IN 10 * iter[s \ {x}] + text[x]
           pick == [s \in SUBSET D |-> Max(s)]
           step == [x \in D |-> [v \in Nat |-> 10 * v + text[x]]]
<1>1. Denoted(text) = iter[DOMAIN text]
  BY DEF Denoted, FoldLeft, MapThenFoldSet
<1>2. DOMAIN text = D /\ Len(text) \in Nat
  BY LenProperties
<1>3. /\ IsFiniteSet(D)
      /\ \A s \in SUBSET D : s # {} => pick[s] \in s
      /\ \A x \in D : \A v \in Nat : step[x][v] \in Nat
  <2>1. IsFiniteSet(D)
    BY <1>2, FS_Interval
  <2>2. \A x \in D : text[x] \in Nat
    BY ElementOfSeq
  <2>3. \A x \in D : \A v \in Nat : step[x][v] \in Nat
    BY <2>2
  <2> QED
    BY <1>2, <2>1, <2>3, MaxInside
<1> HIDE DEF pick, step
<1>4. PICK g \in [SUBSET D -> Nat] : SetRec(g, D, 0, pick, step)
  BY <1>3, SetRecursion
<1>5. DenotedRec(text, g)
  <2>1. ASSUME NEW s \in SUBSET D
        PROVE  g[s] = IF s = {} THEN 0 ELSE 10 * g[s \ {Max(s)}] + text[Max(s)]
    <3>1. g[s] = IF s = {} THEN 0 ELSE step[pick[s]][g[s \ {pick[s]}]]
      BY <1>4 DEF SetRec
    <3>2. s # {} => Max(s) \in D
      BY <1>2, MaxInside
    <3> QED
      BY <3>1, <3>2 DEF pick, step
  <2> QED
    BY <1>4, <2>1 DEF SetRec, DenotedRec
<1>6. iter = CHOOSE f : DenotedRec(text, f)
  BY <1>2 DEF DenotedRec
<1>7. DenotedRec(text, iter)
  BY <1>5, <1>6
<1> QED
  BY <1>1, <1>2, <1>7

(* The functions for the prefixes of one text agree. *)
LEMMA DenotedAppend ==
  ASSUME NEW text \in Seq(Nat), NEW d \in Nat
  PROVE  /\ Append(text, d) \in Seq(Nat) /\ Denoted(text) \in Nat
         /\ Denoted(Append(text, d)) = 10 * Denoted(text) + d
<1> DEFINE n == Len(text)
           more == Append(text, d)
<1>1. PICK g : DenotedRec(text, g) /\ Denoted(text) = g[1..n]
  BY DenotedIsRec
<1>2. /\ more \in Seq(Nat) /\ n \in Nat /\ Len(more) = n + 1
      /\ \A i \in 1..n : more[i] = text[i] /\ text[i] \in Nat
      /\ more[n + 1] = d
  BY AppendProperties, LenProperties, ElementOfSeq
<1>3. PICK h : DenotedRec(more, h) /\ Denoted(more) = h[1..(n + 1)]
  BY <1>2, DenotedIsRec
<1>4. ASSUME NEW k \in Nat, k # 0
      PROVE  /\ 1..k # {} /\ Max(1..k) = k /\ (1..k) \ {k} = 1..(k - 1)
             /\ 1..k \in SUBSET (1..k)
  <2>1. Max(1..k) \in 1..k /\ \A y \in 1..k : Max(1..k) >= y
    <3>1. k \in 1..k /\ \A y \in 1..k : k >= y
      BY <1>4
    <3> QED
      BY <3>1 DEF Max
  <2> QED
    BY <1>4, <2>1
<1>5. ASSUME NEW k \in Nat, k # 0, k <= n
      PROVE  /\ g[1..k] = 10 * g[1..(k - 1)] + text[k]
             /\ h[1..k] = 10 * h[1..(k - 1)] + text[k]
  <2>1. 1..k \in SUBSET (1..n) /\ 1..k \in SUBSET (1..(n + 1)) /\ more[k] = text[k]
    BY <1>2, <1>5
  <2>2. g[1..k] = 10 * g[(1..k) \ {Max(1..k)}] + text[Max(1..k)]
    BY <1>1, <1>4, <1>5, <2>1 DEF DenotedRec
  <2>3. h[1..k] = 10 * h[(1..k) \ {Max(1..k)}] + more[Max(1..k)]
    BY <1>2, <1>3, <1>4, <1>5, <2>1 DEF DenotedRec
  <2> QED
    BY <1>4, <1>5, <2>1, <2>2, <2>3
<1>6. g[1..0] = 0 /\ h[1..0] = 0
  <2>1. 1..0 = {} /\ 1..0 \in SUBSET (1..n) /\ 1..0 \in SUBSET (1..(n + 1))
    OBVIOUS
  <2> QED
    BY <1>1, <1>2, <1>3, <2>1 DEF DenotedRec
<1>7. ASSUME NEW k \in Nat, k <= n
      PROVE  g[1..k] \in Nat /\ h[1..k] = g[1..k]
  <2> DEFINE T == {i \in Nat : i <= n /\ ~(g[1..i] \in Nat /\ h[1..i] = g[1..i])}
  <2> SUFFICES ASSUME T # {} PROVE FALSE
    BY <1>7
  <2>1. PICK i \in T : \A j \in T : i <= j
    BY LeastNat
  <2>2. i \in Nat /\ i # 0 /\ i <= n
    BY <1>6
  <2>3. g[1..(i - 1)] \in Nat /\ h[1..(i - 1)] = g[1..(i - 1)]
    BY <1>2, <2>1, <2>2
  <2>4. text[i] \in Nat
    BY <1>2, <2>2
  <2>5. /\ g[1..i] = 10 * g[1..(i - 1)] + text[i]
        /\ h[1..i] = 10 * h[1..(i - 1)] + text[i]
    BY <1>5, <2>2
  <2> QED
    BY <2>3, <2>4, <2>5
<1>8. h[1..(n + 1)] = 10 * h[1..n] + d
  <2>1. n + 1 \in Nat /\ n + 1 # 0 /\ (n + 1) - 1 = n
    BY <1>2
  <2>2. 1..(n + 1) # {} /\ Max(1..(n + 1)) = n + 1 /\ (1..(n + 1)) \ {n + 1} = 1..n
    BY <1>4, <2>1
  <2>3. 1..(n + 1) \in SUBSET (1..Len(more))
    BY <1>2
  <2>4. h[1..(n + 1)] = 10 * h[(1..(n + 1)) \ {Max(1..(n + 1))}] + more[Max(1..(n + 1))]
    BY <1>3, <2>2, <2>3 DEF DenotedRec
  <2> QED
    BY <1>2, <2>2, <2>4
<1>9. g[1..n] \in Nat /\ h[1..n] = g[1..n]
  BY <1>2, <1>7
<1> QED
  BY <1>1, <1>2, <1>3, <1>8, <1>9

LEMMA DenotedEmpty == Denoted(<<>>) = 0
<1>1. <<>> \in Seq(Nat) /\ Len(<<>>) = 0 /\ 1..0 = {}
  OBVIOUS
<1>2. PICK g : DenotedRec(<<>>, g) /\ Denoted(<<>>) = g[1..0]
  BY <1>1, DenotedIsRec
<1> QED
  BY <1>1, <1>2 DEF DenotedRec

LEMMA ConcatAppend ==
  ASSUME NEW a \in Seq(Nat), NEW f \in Seq(Nat), NEW e \in Nat
  PROVE  a \o f \in Seq(Nat) /\ a \o Append(f, e) = Append(a \o f, e)
OBVIOUS

LEMMA DenotedConcat ==
  ASSUME NEW a \in Seq(Nat), NEW b \in Seq(Nat)
  PROVE  Denoted(a \o b) = Denoted(a) * TenTo[Len(b)] + Denoted(b)
<1> DEFINE Law(s) == Denoted(a \o s) = Denoted(a) * TenTo[Len(s)] + Denoted(s)
           T == {k \in Nat : \E s \in Seq(Nat) : Len(s) = k /\ ~Law(s)}
<1> HIDE DEF Law
<1> SUFFICES ASSUME T # {} PROVE FALSE
  BY LenProperties DEF Law
<1>1. PICK k \in T : \A j \in T : k <= j
  BY LeastNat
<1>2. PICK s \in Seq(Nat) : Len(s) = k /\ ~Law(s)
  OBVIOUS
<1>3. Denoted(a) \in Nat /\ Denoted(s) \in Nat
  BY DenotedAppend
<1>4. CASE s = <<>>
  <2>1. a \o s = a /\ Len(s) = 0
    BY <1>4
  <2> QED
    BY <1>2, <1>3, <1>4, <2>1, TenToFacts, DenotedEmpty DEF Law
<1>5. CASE s # <<>>
  <2>1. PICK f \in Seq(Nat), e \in Nat : s = Append(f, e)
    BY <1>5, SequenceEmptyOrAppend
  <2>2. Len(s) = Len(f) + 1 /\ Len(f) \in Nat
    BY <2>1, AppendProperties, LenProperties
  <2>3. Law(f)
    <3>1. k \in Nat /\ Len(f) \in Nat /\ ~(k <= Len(f))
      BY <1>2, <2>2
    <3>2. Len(f) \notin T
      BY <1>1, <3>1
    <3> QED
      BY <3>1, <3>2
  <2>4. a \o f \in Seq(Nat) /\ a \o s = Append(a \o f, e)
    BY <2>1, ConcatAppend
  <2>5. /\ Denoted(a \o s) = 10 * Denoted(a \o f) + e
        /\ Denoted(s) = 10 * Denoted(f) + e
        /\ Denoted(f) \in Nat
    BY <2>1, <2>4, DenotedAppend
  <2>6. TenTo[Len(s)] = 10 * TenTo[Len(f)] /\ TenTo[Len(f)] \in Nat
    BY <2>2, TenToFacts
  <2> DEFINE A == Denoted(a)
             t == TenTo[Len(f)]
             x == Denoted(f)
  <2>7. Denoted(a \o f) = A * t + x
    BY <2>3 DEF Law
  <2>8. A \in Nat /\ t \in Nat /\ x \in Nat /\ A * t \in Nat
    BY <1>3, <2>5, <2>6
  <2> HIDE DEF A, t, x
  <2>9. 10 * (A * t + x) + e = A * (10 * t) + (10 * x + e)
    BY <2>8
  <2>10. Law(s)
    BY <2>5, <2>6, <2>7, <2>9 DEF Law, A, t, x
  <2> QED
    BY <1>2, <2>10
<1> QED
  BY <1>4, <1>5

LEMMA DenotedZeros ==
  ASSUME NEW k \in Nat
  PROVE  Zeros(k) \in Seq(Nat) /\ Len(Zeros(k)) = k /\ Denoted(Zeros(k)) = 0
<1>1. ASSUME NEW i \in Nat PROVE Zeros(i) \in Seq(Nat) /\ Len(Zeros(i)) = i
  BY DEF Zeros
<1> DEFINE T == {i \in Nat : Denoted(Zeros(i)) # 0}
<1> SUFFICES ASSUME T # {} PROVE FALSE
  BY <1>1
<1>2. PICK i \in T : \A j \in T : i <= j
  BY LeastNat
<1>3. i \in Nat /\ Denoted(Zeros(i)) # 0
  OBVIOUS
<1>4. i # 0
  <2>1. Zeros(0) = <<>>
    BY DEF Zeros
  <2> QED
    BY <1>3, <2>1, DenotedEmpty
<1>5. i - 1 \in Nat /\ Denoted(Zeros(i - 1)) = 0
  BY <1>2, <1>3, <1>4
<1>6. Zeros(i) = Append(Zeros(i - 1), 0)
  <2> DEFINE s == Append(Zeros(i - 1), 0)
  <2>1. /\ Zeros(i - 1) \in Seq(Nat) /\ Len(Zeros(i - 1)) = i - 1
        /\ Zeros(i) \in Seq(Nat) /\ Len(Zeros(i)) = i
    BY <1>1, <1>3, <1>5
  <2>2. /\ s \in Seq(Nat) /\ Len(s) = i
        /\ \A j \in 1..(i - 1) : s[j] = Zeros(i - 1)[j]
        /\ s[i] = 0
    BY <1>3, <2>1, AppendProperties
  <2>3. \A j \in 1..i : Zeros(i)[j] = 0 /\ (j # i => Zeros(i - 1)[j] = 0)
    BY <1>3 DEF Zeros
  <2>4. \A j \in 1..i : s[j] = Zeros(i)[j]
    BY <1>3, <2>2, <2>3
  <2> QED
    BY <2>1, <2>2, <2>4, SeqEqual
<1> QED
  BY <1>1, <1>3, <1>5, <1>6, DenotedAppend

(* str() and int() of a number are inverse, the text has no leading zero, and as    *)
(* many digits as the number needs.                                                 *)
LEMMA DecimalTextMeans ==
  ASSUME NEW n \in Nat
  PROVE  LET t == DecimalText[n]
         IN  /\ t \in Seq(Nat) /\ t # <<>> /\ Len(t) \in Nat \ {0}
             /\ Denoted(t) = n
             /\ n < TenTo[Len(t)]
             /\ Len(t) # 1 => Head(t) # 0 /\ TenTo[Len(t) - 1] <= n
             /\ n # 0 => Head(t) # 0
<1> DEFINE Means(m, t) ==
      /\ t \in Seq(Nat) /\ t # <<>> /\ Len(t) \in Nat \ {0}
      /\ Denoted(t) = m
      /\ m < TenTo[Len(t)]
      /\ Len(t) # 1 => Head(t) # 0 /\ TenTo[Len(t) - 1] <= m
      /\ m # 0 => Head(t) # 0
    T == {m \in Nat : ~Means(m, DecimalText[m])}
<1> HIDE DEF Means
<1> SUFFICES ASSUME T # {} PROVE FALSE
  BY DEF Means
<1>1. PICK m \in T : \A j \in T : m <= j
  BY LeastNat
<1>2. m \in Nat /\ ~Means(m, DecimalText[m])
  OBVIOUS
<1> HIDE DEF T
<1>3. TenTo[1] = 10 /\ TenTo[0] = 1
  <2>1. TenTo[0 + 1] = 10 * TenTo[0] /\ TenTo[0] = 1
    BY TenToFacts
  <2> QED
    BY <2>1
<1>4. CASE m < 10
  <2>1. DecimalText[m] = <<m>>
    BY <1>2, <1>4, DecimalTextFacts, Zenon
  <2>2. <<m>> \in Seq(Nat) /\ <<m>> # <<>> /\ Len(<<m>>) = 1 /\ Head(<<m>>) = m
    BY <1>2
  <2>3. Denoted(<<m>>) = m
    <3>1. <<m>> = Append(<<>>, m) /\ <<>> \in Seq(Nat)
      BY <1>2
    <3> DEFINE none == <<>>
               one == <<m>>
    <3> HIDE DEF none, one
    <3>2. none \in Seq(Nat) /\ Denoted(none) = 0 /\ one = Append(none, m)
      BY <3>1, DenotedEmpty DEF none, one
    <3>3. Denoted(Append(none, m)) = 10 * Denoted(none) + m
      BY <1>2, <3>2, DenotedAppend
    <3>4. Denoted(one) = m
      BY <1>2, <3>2, <3>3
    <3> QED
      BY <3>4 DEF one
  <2> QED
    BY <1>2, <1>3, <1>4, <2>1, <2>2, <2>3 DEF Means
<1>5. CASE m >= 10
  <2> DEFINE q == m \div 10
             e == m % 10
             t == DecimalText[q]
             k == Len(t)
  <2>1. q \in Nat /\ q < m /\ q # 0 /\ e \in 0..9 /\ m = 10 * q + e
    BY <1>2, <1>5
  <2>2. DecimalText[m] = Append(t, e)
    <3>1. ~(m < 10)
      BY <1>2, <1>5
    <3> QED
      BY <1>2, <3>1, DecimalTextFacts, Zenon
  <2>3. Means(q, t)
    BY <1>1, <1>2, <2>1 DEF T
  <2>4. /\ t \in Seq(Nat) /\ t # <<>> /\ k \in Nat \ {0} /\ Denoted(t) = q /\ Head(t) # 0
        /\ q < TenTo[k] /\ (k # 1 => TenTo[k - 1] <= q)
    BY <2>1, <2>3 DEF Means
  <2> DEFINE u == Append(t, e)
  <2>5. /\ u \in Seq(Nat) /\ u # <<>> /\ Len(u) = k + 1 /\ Head(u) # 0
        /\ Denoted(u) = m
    <3>1. e \in Nat
      BY <2>1
    <3>2. u \in Seq(Nat) /\ u # <<>> /\ Len(u) = k + 1 /\ Head(u) # 0
      BY <2>4, <3>1, AppendProperties, HeadTailAppend
    <3>3. Denoted(u) = 10 * Denoted(t) + e
      BY <2>4, <3>1, DenotedAppend
    <3> QED
      BY <2>1, <2>4, <3>2, <3>3
  <2>6. TenTo[k] \in Nat /\ TenTo[k + 1] = 10 * TenTo[k]
    BY <2>4, TenToFacts
  <2>7. TenTo[k] <= m
    <3>1. k = 1 => TenTo[k] = 10
      BY <1>3
    <3>2. k # 1 => TenTo[k] = 10 * TenTo[k - 1] /\ TenTo[k - 1] \in Nat
      <4>1. k - 1 \in Nat /\ (k - 1) + 1 = k
        BY <2>4
      <4> QED
        BY <4>1, TenToFacts
    <3> HIDE DEF q, e, t, k
    <3>3. CASE k = 1
      BY <1>5, <3>1, <3>3
    <3>4. CASE k # 1
      BY <2>1, <2>4, <3>2, <3>4
    <3> QED
      BY <3>3, <3>4
  <2> HIDE DEF q, e, t, k, u
  <2>8. m < TenTo[k + 1]
    BY <2>1, <2>4, <2>6
  <2>9. (k + 1) - 1 = k /\ k + 1 \in Nat \ {0} /\ k + 1 # 1
    BY <2>4
  <2>10. DecimalText[m] = u
    BY <2>2 DEF u
  <2>11. Means(m, u)
    BY <2>5, <2>7, <2>8, <2>9 DEF Means
  <2> QED
    BY <1>2, <2>10, <2>11
<1> QED
  BY <1>2, <1>4, <1>5

(* A text has no more digits than k if its number is below the k-th power of ten. *)
LEMMA DigitsNeeded ==
  ASSUME NEW n \in Nat, NEW k \in Nat \ {0}
  PROVE  (Len(DecimalText[n]) <= k) <=> (n < TenTo[k])
<1> DEFINE l == Len(DecimalText[n])
<1>1. l \in Nat \ {0} /\ n < TenTo[l] /\ (l # 1 => TenTo[l - 1] <= n)
  BY DecimalTextMeans
<1> HIDE DEF l
<1>2. CASE l <= k
  <2>1. TenTo[l] <= TenTo[k] /\ TenTo[l] \in Nat /\ TenTo[k] \in Nat
    BY <1>1, <1>2, TenToGrows
  <2> QED
    BY <1>1, <1>2, <2>1 DEF l
<1>3. CASE ~(l <= k)
  <2>1. l # 1 /\ l - 1 \in Nat /\ k <= l - 1
    BY <1>1, <1>3
  <2>2. TenTo[k] <= TenTo[l - 1] /\ TenTo[l - 1] \in Nat /\ TenTo[k] \in Nat
    BY <2>1, TenToGrows
  <2> QED
    BY <1>1, <1>3, <2>1, <2>2 DEF l
<1> QED
  BY <1>2, <1>3

LEMMA DenotedZero == Denoted(<<0>>) = 0
<1>1. <<0>> = Zeros(1)
  BY DEF Zeros
<1> QED
  BY <1>1, DenotedZeros

(* Moving the decimal point and casting back loses nothing, for texts the type holds. *)
LEMMA CastShift ==
  ASSUME NEW t \in Seq(Nat), NEW d \in 0..Digits
  PROVE  /\ Cast(Shift(t, d), d) \in {Null, Denoted(t)}
         /\ Len(t) <= Digits => Cast(Shift(t, d), d) = Denoted(t)
<1>1. Digits \in Nat /\ d \in Nat /\ Len(t) \in Nat /\ Denoted(t) \in Nat
  BY NormalizerAssumption, LenProperties, DenotedAppend
<1>2. TenTo[0] = 1 /\ TenTo[d] \in Nat
  BY <1>1, TenToFacts
<1>3. CASE Len(t) <= d
  <2> DEFINE k == d - Len(t)
             z == Zeros(k)
             w == <<0>>
  <2>1. k \in Nat
    BY <1>1, <1>3
  <2>2. z \in Seq(Nat) /\ Len(z) = k /\ Denoted(z) = 0
    BY <2>1, DenotedZeros
  <2>3. Shift(t, d) = [whole |-> w, frac |-> z \o t]
    BY <1>3 DEF Shift
  <2>4. Denoted(w) = 0 /\ w = <<0>>
    BY DenotedZero
  <2> HIDE DEF z, w, k
  <2>5. z \o t \in Seq(Nat) /\ Len(z \o t) = d
    BY <1>1, <2>1, <2>2, ConcatProperties DEF k
  <2>6. Denoted(z \o t) = Denoted(z) * TenTo[Len(t)] + Denoted(t)
    BY <2>2, DenotedConcat
  <2>7. TenTo[Len(t)] \in Nat
    BY <1>1, TenToFacts
  <2>8. Denoted(z \o t) = Denoted(t)
    BY <1>1, <2>2, <2>6, <2>7
  <2>9. Cast([whole |-> w, frac |-> z \o t], d)
          = Denoted(w) * TenTo[d] + Denoted(z \o t) * TenTo[d - Len(z \o t)]
    BY <2>4 DEF Cast
  <2>10. d - Len(z \o t) = 0
    BY <1>1, <2>5
  <2>11. Cast([whole |-> w, frac |-> z \o t], d) = Denoted(t)
    BY <1>1, <1>2, <2>4, <2>8, <2>9, <2>10
  <2> QED
    BY <2>3, <2>11
<1>4. CASE ~(Len(t) <= d)
  <2> DEFINE m == Len(t) - d
             a == SubSeq(t, 1, m)
             b == SubSeq(t, m + 1, Len(t))
  <2>1. m \in Nat /\ 1 <= m /\ m < Len(t) + 1 /\ m \in Int
    BY <1>1, <1>4
  <2>2. Shift(t, d) = [whole |-> a, frac |-> b]
    BY <1>4 DEF Shift
  <2>3. a \in Seq(Nat) /\ b \in Seq(Nat) /\ Len(a) = m /\ Len(b) = d /\ a \o b = t
    <3>1. a \in Seq(Nat) /\ Len(a) = m
      BY <1>1, <2>1
    <3>2. b \in Seq(Nat) /\ Len(b) = d
      BY <1>1, <2>1
    <3>3. a \o b = SubSeq(t, 1, Len(t))
      BY <1>1, <2>1, ConcatAdjacentSubSeq
    <3>4. SubSeq(t, 1, Len(t)) = t
      BY SubSeqFull
    <3> QED
      BY <3>1, <3>2, <3>3, <3>4
  <2> HIDE DEF a, b
  <2>4. Denoted(t) = Denoted(a) * TenTo[d] + Denoted(b)
    BY <2>3, DenotedConcat
  <2>5. Denoted(b) \in Nat /\ d - Len(b) = 0
    BY <1>1, <2>3, DenotedAppend
  <2>6. Cast([whole |-> a, frac |-> b], d) =
          IF Len(a) > Digits - d /\ a # <<0>> THEN Null
          ELSE Denoted(a) * TenTo[d] + Denoted(b) * TenTo[d - Len(b)]
    BY DEF Cast
  <2>7. Denoted(b) * TenTo[d - Len(b)] = Denoted(b)
    BY <1>2, <2>5
  <2>8. Len(t) <= Digits => ~(Len(a) > Digits - d)
    BY <1>1, <2>1, <2>3 DEF m
  <2> QED
    BY <2>2, <2>4, <2>6, <2>7, <2>8
<1> QED
  BY <1>3, <1>4

-------------------------------------------------------------------------------
(* Sums over finite sets. *)

SumRec(F, S, g) ==
  g = [s \in SUBSET S |-> IF s = {} THEN 0
                          ELSE F[CHOOSE x \in s : TRUE] + g[s \ {CHOOSE x \in s : TRUE}]]

IsSum(F, S, n) == \E g : SumRec(F, S, g) /\ n = g[S]

LEMMA SetRecursionNat ==
  ASSUME NEW S, IsFiniteSet(S), NEW pick, NEW step,
         \A s \in SUBSET S : s # {} => pick[s] \in s,
         \A x \in S : \A v \in Nat : step[x][v] \in Nat
  PROVE  \E g \in [SUBSET S -> Nat] : SetRec(g, S, 0, pick, step)
BY SetRecursion

LEMMA SumExists ==
  ASSUME NEW S, IsFiniteSet(S), NEW F \in [S -> Nat]
  PROVE  \E g : SumRec(F, S, g)
<1> DEFINE pick == [s \in SUBSET S |-> CHOOSE x \in s : TRUE]
           step == [x \in S |-> [v \in Nat |-> F[x] + v]]
<1>1. /\ IsFiniteSet(S) /\ 0 \in Nat
      /\ \A s \in SUBSET S : s # {} => pick[s] \in s
  OBVIOUS
<1>2. \A x \in S : \A v \in Nat : step[x][v] \in Nat
  OBVIOUS
<1> HIDE DEF pick, step
<1>3. PICK g \in [SUBSET S -> Nat] : SetRec(g, S, 0, pick, step)
  BY <1>1, <1>2, SetRecursionNat, Zenon
<1>4. ASSUME NEW s \in SUBSET S
      PROVE  g[s] = IF s = {} THEN 0
                    ELSE F[CHOOSE x \in s : TRUE] + g[s \ {CHOOSE x \in s : TRUE}]
  <2>1. g[s] = IF s = {} THEN 0 ELSE step[pick[s]][g[s \ {pick[s]}]]
    BY <1>3 DEF SetRec
  <2>2. pick[s] = CHOOSE x \in s : TRUE
    BY DEF pick
  <2>3. s # {} => pick[s] \in S /\ g[s \ {pick[s]}] \in Nat
    BY <1>1
  <2>4. s # {} => step[pick[s]][g[s \ {pick[s]}]] = F[pick[s]] + g[s \ {pick[s]}]
    BY <2>3 DEF step
  <2> QED
    BY <2>1, <2>2, <2>4
<1>5. SumRec(F, S, g)
  BY <1>3, <1>4 DEF SetRec, SumRec
<1> QED
  BY <1>5

(* The order in which the elements are added does not matter. *)
LEMMA SumTakesAny ==
  ASSUME NEW S, IsFiniteSet(S), NEW F \in [S -> Nat], NEW g, SumRec(F, S, g)
  PROVE  /\ g[{}] = 0
         /\ \A s \in SUBSET S : g[s] \in Nat /\ \A x \in s : g[s] = F[x] + g[s \ {x}]
<1> DEFINE Law(s) == g[s] \in Nat /\ \A x \in s : g[s] = F[x] + g[s \ {x}]
           T == {k \in Nat : \E s \in SUBSET S : Cardinality(s) = k /\ ~Law(s)}
<1>1. ASSUME NEW s \in SUBSET S
      PROVE  /\ IsFiniteSet(s) /\ Cardinality(s) \in Nat
             /\ \A x \in s : s \ {x} \in SUBSET S /\ Cardinality(s \ {x}) = Cardinality(s) - 1
  <2>1. IsFiniteSet(s)
    BY FS_Subset
  <2> QED
    BY <2>1, FS_CardinalityType, FS_RemoveElement
<1>2. \A s \in SUBSET S : g[s] = IF s = {} THEN 0
                          ELSE F[CHOOSE x \in s : TRUE] + g[s \ {CHOOSE x \in s : TRUE}]
  BY DEF SumRec
<1>3. g[{}] = 0
  BY <1>2
<1> HIDE DEF Law
<1>4. SUFFICES ASSUME T # {} PROVE FALSE
  BY <1>1, <1>3 DEF Law
<1>5. PICK k \in T : \A j \in T : k <= j
  BY <1>4, LeastNat
<1>6. PICK s \in SUBSET S : Cardinality(s) = k /\ ~Law(s)
  OBVIOUS
<1>7. s # {}
  BY <1>3, <1>6 DEF Law
<1>8. PICK c \in s : g[s] = F[c] + g[s \ {c}]
  BY <1>2, <1>7
<1>9. \A x \in s : Law(s \ {x})
  BY <1>1, <1>5, <1>6
<1>10. g[s] \in Nat
  <2>1. g[s \ {c}] \in Nat
    BY <1>9 DEF Law
  <2>2. F[c] \in Nat
    OBVIOUS
  <2> QED
    BY <1>8, <2>1, <2>2
<1>11. ASSUME NEW x \in s PROVE g[s] = F[x] + g[s \ {x}]
  <2>1. CASE x # c
    <3>1. g[s \ {c}] = F[x] + g[(s \ {c}) \ {x}] /\ g[s \ {x}] = F[c] + g[(s \ {x}) \ {c}]
      BY <1>9, <2>1 DEF Law
    <3>2. (s \ {c}) \ {x} = (s \ {x}) \ {c}
      OBVIOUS
    <3>3. g[(s \ {c}) \ {x}] \in Nat /\ F[x] \in Nat /\ F[c] \in Nat
      <4>1. ASSUME NEW t \in SUBSET s, t # s PROVE g[t] \in Nat
        <5>1. t \in SUBSET S /\ IsFiniteSet(s)
          BY <1>1
        <5>2. Cardinality(t) \in Nat /\ Cardinality(t) < Cardinality(s)
          BY <1>1, <4>1, <5>1, FS_Subset
        <5>3. Law(t)
          BY <1>1, <1>5, <1>6, <5>1, <5>2
        <5> QED
          BY <5>3 DEF Law
      <4> QED
        BY <4>1
    <3>4. /\ g[s] = F[c] + (F[x] + g[(s \ {c}) \ {x}])
          /\ g[s \ {x}] = F[c] + g[(s \ {c}) \ {x}]
      BY <1>8, <3>1, <3>2
    <3> QED
      BY <3>3, <3>4
  <2> QED
    BY <1>8, <2>1
<1> QED
  BY <1>6, <1>10, <1>11 DEF Law

(* Two sets with as many elements, of the same amounts, have the same sum. *)
LEMMA SumsMatch ==
  ASSUME NEW S, IsFiniteSet(S), NEW F \in [S -> Nat], NEW m, IsSum(F, S, m),
         NEW T, NEW G \in [T -> Nat], NEW n, IsSum(G, T, n),
         NEW p \in Bijection(S, T), \A x \in S : F[x] = G[p[x]]
  PROVE  m = n
<1>1. PICK g : SumRec(F, S, g) /\ m = g[S]
  BY DEF IsSum
<1>2. PICK h : SumRec(G, T, h) /\ n = h[T]
  BY DEF IsSum
<1>3. IsFiniteSet(T)
  <2>1. IsFiniteSet(S) /\ ExistsBijection(S, T)
    BY DEF ExistsBijection
  <2> QED
    BY <2>1, FS_Bijection, Zenon
<1>9. /\ h[{}] = 0
      /\ \A t \in SUBSET T : h[t] \in Nat /\ \A y \in t : h[t] = G[y] + h[t \ {y}]
  <2>1. IsFiniteSet(T) /\ G \in [T -> Nat] /\ SumRec(G, T, h)
    BY <1>2, <1>3
  <2> QED
    BY <2>1, SumTakesAny
<1> DEFINE Image(s) == {p[x] : x \in s}
           D == {k \in Nat : \E s \in SUBSET S : Cardinality(s) = k /\ g[s] # h[Image(s)]}
<1>4. \A s \in SUBSET S : Image(s) \in SUBSET T
  BY DEF Bijection, Injection, Surjection
<1>5. Image(S) = T
  BY DEF Bijection, Injection, Surjection
<1>6. ASSUME NEW s \in SUBSET S, NEW x \in s
      PROVE  p[x] \in Image(s) /\ Image(s) \ {p[x]} = Image(s \ {x})
  BY DEF Bijection, Injection, IsInjective
<1>7. \A s \in SUBSET S : IsFiniteSet(s) /\ Cardinality(s) \in Nat
  BY FS_Subset, FS_CardinalityType
<1>8. D = {}
  <2> SUFFICES ASSUME D # {} PROVE FALSE
    OBVIOUS
  <2>1. PICK k \in D : \A j \in D : k <= j
    BY LeastNat
  <2>2. PICK s \in SUBSET S : Cardinality(s) = k /\ g[s] # h[Image(s)]
    OBVIOUS
  <2> HIDE DEF Image
  <2>3. s # {}
    <3>1. Image({}) = {}
      BY DEF Image
    <3>2. g[{}] = 0
      BY <1>1, SumTakesAny
    <3> QED
      BY <1>9, <2>2, <3>1, <3>2
  <2>4. PICK x \in s : TRUE
    BY <2>3
  <2>5. s \ {x} \in SUBSET S /\ Cardinality(s \ {x}) = k - 1
    BY <1>7, <2>2, FS_RemoveElement
  <2>6. g[s \ {x}] = h[Image(s \ {x})]
    <3>1. k \in Nat /\ Cardinality(s \ {x}) \in Nat
      BY <1>7, <2>5
    <3>2. Cardinality(s \ {x}) \notin D
      <4> HIDE DEF D
      <4> QED
        BY <2>1, <2>5, <3>1
    <3> QED
      BY <2>5, <3>1, <3>2
  <2>7. g[s] = F[x] + g[s \ {x}]
    BY <1>1, SumTakesAny
  <2>8. h[Image(s)] = G[p[x]] + h[Image(s) \ {p[x]}]
    BY <1>4, <1>6, <1>9
  <2> QED
    BY <1>6, <2>2, <2>6, <2>7, <2>8
<1> QED
  BY <1>1, <1>2, <1>5, <1>7, <1>8

(* And the sums of the model are these. *)
LEMMA SumFunctionIsSum ==
  ASSUME NEW S, IsFiniteSet(S), NEW F \in [S -> Nat]
  PROVE  IsSum(F, S, SumFunction(F))
<1> DEFINE iter[s \in SUBSET S] ==
             IF s = {} THEN 0
             ELSE LET x == CHOOSE x \in s : TRUE IN F[x] + iter[s \ {x}]
           P(f) == SumRec(F, S, f)
<1>1. SumFunction(F) = iter[S]
  <2>1. DOMAIN F = S
    OBVIOUS
  <2> QED
    BY <2>1 DEF SumFunction, SumFunctionOnSet, FoldFunctionOnSet, MapThenFoldSet
<1>2. \E f : P(f)
  BY SumExists
<1>3. P(iter)
  <2>1. iter = CHOOSE f : P(f)
    BY DEF SumRec
  <2> HIDE DEF P
  <2> QED
    BY <1>2, <2>1
<1> QED
  BY <1>1, <1>3 DEF IsSum

-------------------------------------------------------------------------------
(* The fields of elements, of rows and of what silver makes of them. *)

LEMMA TransferExists == \E x \in Transfers : x.from # x.to
<1>1. PICK t \in Tokens, v \in Values, f \in Addresses : f # TETHER_TREASURY_ADDRESS
  BY RowPathAssumption
<1>2. Transfer(t, f, TETHER_TREASURY_ADDRESS, v) \in Transfers
  BY RowPathAssumption DEF Transfers
<1> QED
  BY <1>1, <1>2 DEF Transfer

ElementType ==
  [key : Nat, window : Nat, isObject : BOOLEAN, blockNumber : BlockNumbers,
   fields : {"hex", "bad"}, topics : TopicForms, data : [form : DataForms, value : Nat],
   removed : BOOLEAN, token : Tokens, from : Addresses, to : Addresses]

LEMMA ElementsTyped ==
  ASSUME NEW x \in Elements
  PROVE  x \in ElementType
<1>1. ASSUME NEW y \in Transfers
      PROVE  y \in ElementType
  <2>1. PICK t \in Tokens, f \in Addresses, o \in Addresses, v \in Values : y = Transfer(t, f, o, v)
    BY <1>1 DEF Transfers
  <2>2. [form |-> "word", value |-> v] \in [form : DataForms, value : Nat]
    BY RowPathAssumption DEF DataForms
  <2> QED
    BY <2>1, <2>2 DEF Transfer, ElementType, BlockNumbers, TopicForms
<1>2. ASSUME NEW y \in ElementType, NEW z \in Odd(y)
      PROVE  z \in ElementType
  <2>1. CASE z \in {[y EXCEPT !.isObject = FALSE], [y EXCEPT !.fields = "bad"],
                    [y EXCEPT !.removed = TRUE]}
    BY <2>1 DEF ElementType
  <2>2. ASSUME NEW b \in BlockNumbers, z = [y EXCEPT !.blockNumber = b]
        PROVE  z \in ElementType
    BY <2>2 DEF ElementType
  <2>3. ASSUME NEW t \in TopicForms, z = [y EXCEPT !.topics = t]
        PROVE  z \in ElementType
    BY <2>3 DEF ElementType
  <2>4. ASSUME NEW d \in DataForms, z = [y EXCEPT !.data.form = d]
        PROVE  z \in ElementType
    <3>1. [y.data EXCEPT !.form = d] \in [form : DataForms, value : Nat]
      BY DEF ElementType
    <3> QED
      BY <2>4, <3>1 DEF ElementType
  <2> QED
    BY <1>2, <2>1, <2>2, <2>3, <2>4 DEF Odd
<1> QED
  BY <1>1, <1>2, TransferExists DEF Elements

LEMMA RowFields ==
  ASSUME NEW e
  PROVE  LET r == normalize_log(e)
         IN  /\ r.window = e.window /\ r.key = e.key
             /\ r.token = e.token /\ r.from = e.from /\ r.to = e.to
             /\ r.topics = e.topics /\ r.data = e.data /\ r.removed = (e.removed = TRUE)
             /\ r.text = decode_uint256_data_raw(e.data).text
             /\ r.status = decode_uint256_data_raw(e.data).status
BY DEF normalize_log

-------------------------------------------------------------------------------
(* The inductive invariant: what every run has left in the tables, in terms of  *)
(* what it received.                                                            *)

All == UNION Range(received)
Directions == {"INFLOW", "OUTFLOW"}
Tested == {"gold", "goldTests"}

(* Silver's row for a log, and gold's for a window, without the code's way there. *)
SilverRow(e) ==
  LET fits == e.data.value <= DECIMAL38_MAX
  IN  [key |-> e.key, window |-> e.window, token |-> e.token, from |-> e.from, to |-> e.to,
       clean |-> e.data.form = "word", text |-> DecimalText[e.data.value],
       status |-> IF fits THEN "DECIMAL38_AVAILABLE" ELSE "OUTSIDE_DECIMAL38_RANGE",
       raw_amount_decimal |-> IF fits THEN e.data.value ELSE Null,
       amount_usdt |-> IF fits /\ e.token = configs[e.window].token THEN e.data.value ELSE Null]

ExactFlow(w, dir) ==
  LET es == Counted(w, dir)
      sum == SumFunction([e \in es |-> e.data.value])
  IN  [window |-> w, token |-> configs[w].token, treasury |-> configs[w].treasury,
       direction |-> dir, transfer_count |-> Cardinality(es),
       total_amount_raw |-> sum, total_amount_usdt |-> sum]

StageInv ==
  /\ config \in Configs
  /\ stage \in {"idle", "timestamps", "normalize", "write", "silver", "silverTests"} \cup Tested
  /\ stage # "idle" => Window > 0 /\ failure = "none" /\ sample = Null

HistoryInv ==
  /\ received \in Seq(SUBSET ElementType) /\ configs \in Seq(Configs)
  /\ Len(configs) = Len(received)
  /\ IsFiniteSet(All)
  /\ \A w \in 1..Window : \A e \in received[w] : e.window = w
  /\ \A e \in All : e.key <= Used
  /\ \A e \in All, o \in All : e.key = o.key => e = o

RawInv ==
  /\ \A r \in raw : \E e \in All : WellFormed(e) /\ r = normalize_log(e)
  /\ \A r \in raw : \A e \in Logs(r.window) : ~malformed(e) /\ normalize_log(e) \in raw
  /\ stage = "write" =>
       rows = {normalize_log(e) : e \in Logs(Window)} /\ \A e \in Logs(Window) : ~malformed(e)
  /\ stage \in {"silver", "silverTests"} \cup Tested =>
       \A e \in Logs(Window) : ~malformed(e) /\ normalize_log(e) \in raw

SilverInv ==
  /\ \A r \in silver : \E e \in All :
       WellFormed(e) /\ IsAmount(e) /\ normalize_log(e) \in raw /\ r = SilverRow(e)
  /\ stage \in {"silverTests"} \cup Tested =>
       \A e \in Logs(Window) : IsAmount(e) => SilverRow(e) \in silver
  /\ stage \in Tested => SilverTestsHold

GoldInv ==
  /\ \A f \in gold : \E w \in 1..Window, dir \in Directions :
       Counted(w, dir) # {} /\ f = ExactFlow(w, dir)
  /\ stage = "goldTests" \/ (stage = "idle" /\ Window > 0 /\ failure = "none") =>
       \A dir \in Directions : Counted(Window, dir) # {} => ExactFlow(Window, dir) \in gold

SampleInv ==
  sample # Null =>
    /\ Window > 0
    /\ \A a \in sample.amounts : \E e \in Logs(Window) :
         /\ is_uint256_word(e.data)
         /\ a.key = e.key /\ a.raw = e.data.value
         /\ a.amount \in {Null, amount_with_decimals(e.data.value)}
    /\ sample.treasury \in {Null, count_treasury_samples}

IInv ==
  StageInv /\ HistoryInv /\ RawInv /\ SilverInv /\ GoldInv /\ DbtFailsForCause /\ SampleInv

-------------------------------------------------------------------------------
(* One log, from the answer to silver. *)

LEMMA DecodedFacts ==
  ASSUME NEW e \in ElementType
  PROVE  LET r == normalize_log(e)
         IN  /\ is_uint256_word(e.data) =>
                  /\ r.text = DecimalText[e.data.value] /\ r.text \in Seq(Nat)
                  /\ canonical(r.text)
                  /\ Denoted(r.text) = e.data.value
                  /\ (Len(r.text) <= Digits) <=> (e.data.value <= DECIMAL38_MAX)
                  /\ r.status = IF e.data.value <= DECIMAL38_MAX THEN "DECIMAL38_AVAILABLE"
                                ELSE "OUTSIDE_DECIMAL38_RANGE"
             /\ ~is_uint256_word(e.data) => r.text = <<>> /\ r.status = "NOT_UINT256_WORD"
<1> DEFINE n == e.data.value
           t == DecimalText[n]
           r == normalize_log(e)
<1>1. n \in Nat
  BY DEF ElementType
<1>2. /\ t \in Seq(Nat) /\ t # <<>> /\ Denoted(t) = n
      /\ Len(t) # 1 => Head(t) # 0
  BY <1>1, DecimalTextMeans
<1>3. (Len(t) <= Digits) <=> (n <= DECIMAL38_MAX)
  <2>1. Digits \in Nat \ {0} /\ TenTo[Digits] \in Nat
    BY NormalizerAssumption, TenToFacts
  <2>2. (Len(t) <= Digits) <=> (n < TenTo[Digits])
    BY <1>1, <2>1, DigitsNeeded
  <2> HIDE DEF n, t
  <2> QED
    BY <1>1, <2>1, <2>2 DEF DECIMAL38_MAX
<1>4. canonical(t)
  BY <1>2 DEF canonical
<1>5. CASE is_uint256_word(e.data)
  <2>1. r.text = t /\ r.status = IF n <= DECIMAL38_MAX THEN "DECIMAL38_AVAILABLE"
                                 ELSE "OUTSIDE_DECIMAL38_RANGE"
    BY <1>5 DEF normalize_log, decode_uint256_data_raw
  <2> HIDE DEF t, n, r
  <2> QED
    BY <1>2, <1>3, <1>4, <1>5, <2>1 DEF t, n, r
<1>6. CASE ~is_uint256_word(e.data)
  BY <1>6 DEF normalize_log, decode_uint256_data_raw
<1> QED
  BY <1>5, <1>6

LEMMA TransferIsAmount ==
  ASSUME NEW e \in ElementType
  PROVE  /\ IsTransfer(normalize_log(e)) <=> IsAmount(e)
         /\ IsAmount(e) => is_uint256_word(e.data)
<1>1. normalize_log(e).status # "NOT_UINT256_WORD" <=> is_uint256_word(e.data)
  BY DecodedFacts
<1>2. normalize_log(e).topics = e.topics /\ normalize_log(e).removed = (e.removed = TRUE)
  BY RowFields
<1>3. e.removed \in BOOLEAN
  BY DEF ElementType
<1> QED
  BY <1>1, <1>2, <1>3 DEF IsTransfer, IsAmount, is_uint256_word

LEMMA HistoryFacts ==
  ASSUME HistoryInv
  PROVE  /\ Window \in Nat
         /\ \A w \in 1..Window :
              /\ received[w] \subseteq All /\ IsFiniteSet(received[w])
              /\ configs[w] \in Configs /\ configs[w].decimals \in 0..Digits
         /\ \A e \in All : e \in ElementType /\ e.window \in 1..Window /\ e \in received[e.window]
<1>1. /\ Window \in Nat /\ DOMAIN received = 1..Window
      /\ \A w \in 1..Window : received[w] \in SUBSET ElementType /\ configs[w] \in Configs
  BY DEF HistoryInv, Window
<1>2. \A w \in 1..Window : received[w] \subseteq All
  BY <1>1 DEF All, Range
<1>3. \A w \in 1..Window : IsFiniteSet(received[w])
  BY <1>2, FS_Subset DEF HistoryInv
<1>4. \A c \in Configs : c.decimals \in 0..Digits
  BY RowPathAssumption DEF Configs
<1>5. ASSUME NEW e \in All
      PROVE  e \in ElementType /\ e.window \in 1..Window /\ e \in received[e.window]
  <2>1. PICK w \in 1..Window : e \in received[w]
    BY <1>1 DEF All, Range
  <2> QED
    BY <1>1, <2>1 DEF HistoryInv
<1> QED
  BY <1>1, <1>2, <1>3, <1>4, <1>5

LEMMA TypedIsSilverRow ==
  ASSUME HistoryInv, NEW e \in All, e.window = Window, IsAmount(e)
  PROVE  Typed(normalize_log(e)) = SilverRow(e)
<1> DEFINE r == normalize_log(e)
           n == e.data.value
           d == Settings.decimals
<1>1. e \in ElementType /\ d \in 0..Digits /\ Settings = configs[e.window]
  BY HistoryFacts DEF Settings
<1>2. /\ r.window = e.window /\ r.key = e.key
      /\ r.token = e.token /\ r.from = e.from /\ r.to = e.to /\ r.data = e.data
  BY RowFields
<1>3. /\ r.text = DecimalText[n] /\ r.text \in Seq(Nat) /\ Denoted(r.text) = n
      /\ (Len(r.text) <= Digits) <=> (n <= DECIMAL38_MAX)
      /\ r.status = IF n <= DECIMAL38_MAX THEN "DECIMAL38_AVAILABLE"
                    ELSE "OUTSIDE_DECIMAL38_RANGE"
  <2>1. is_uint256_word(e.data)
    BY <1>1, TransferIsAmount
  <2> QED
    BY <1>1, <2>1, DecodedFacts
<1>4. n <= DECIMAL38_MAX => Cast(Shift(r.text, d), d) = n
  BY <1>1, <1>3, CastShift
<1> HIDE DEF r, d
<1>5. Typed(r) = SilverRow(e)
  BY <1>1, <1>2, <1>3, <1>4 DEF Typed, SilverRow, d
<1> QED
  BY <1>5 DEF r

-------------------------------------------------------------------------------
(* What a step that leaves the history alone leaves alone. *)

LEMMA HistoryKept ==
  ASSUME HistoryInv, UNCHANGED <<received, configs>>
  PROVE  /\ HistoryInv'
         /\ Window' = Window /\ Settings' = Settings /\ All' = All
         /\ \A w : Logs(w)' = Logs(w)
         /\ \A e : SilverRow(e)' = SilverRow(e)
         /\ \A w, dir : Counted(w, dir)' = Counted(w, dir) /\ ExactFlow(w, dir)' = ExactFlow(w, dir)
<1>1. Window' = Window /\ Settings' = Settings /\ All' = All /\ Used' = Used
  BY DEF Window, Settings, All, Used
<1>2. HistoryInv'
  BY <1>1 DEF HistoryInv
<1>3. \A w : Logs(w)' = Logs(w)
  BY DEF Logs
<1>4. \A e : SilverRow(e)' = SilverRow(e)
  BY DEF SilverRow
<1>5. \A w, dir : Counted(w, dir)' = Counted(w, dir)
  BY DEF Counted
<1>6. \A w, dir : ExactFlow(w, dir)' = ExactFlow(w, dir)
  BY <1>5 DEF ExactFlow
<1> QED
  BY <1>1, <1>2, <1>3, <1>4, <1>5, <1>6

AfterWrite  == {"silver", "silverTests"} \cup Tested
AfterSilver == {"silverTests"} \cup Tested

LEMMA RawKept ==
  ASSUME HistoryInv, RawInv, UNCHANGED <<received, configs, raw>>,
         stage' = "write" => stage = "write" /\ rows' = rows,
         stage' \in AfterWrite => stage \in AfterWrite
  PROVE  RawInv'
BY HistoryKept DEF RawInv, AfterWrite

LEMMA SilverKept ==
  ASSUME HistoryInv, SilverInv, UNCHANGED <<received, configs, silver>>, raw \subseteq raw',
         stage' \in AfterSilver => stage \in AfterSilver,
         stage' \in Tested => stage \in Tested /\ raw' = raw
  PROVE  SilverInv'
<1>1. \A r \in silver' : \E e \in All' :
        WellFormed(e) /\ IsAmount(e) /\ normalize_log(e) \in raw' /\ r = SilverRow(e)'
  BY HistoryKept DEF SilverInv
<1>2. stage' \in AfterSilver =>
        \A e \in Logs(Window)' : IsAmount(e) => SilverRow(e)' \in silver'
  BY HistoryKept DEF SilverInv, AfterSilver
<1>3. stage' \in Tested => SilverTestsHold'
  <2>1. ASSUME raw' = raw, SilverTestsHold PROVE SilverTestsHold'
    BY <2>1, HistoryKept
       DEF SilverTestsHold, ethereum_logs_uint256_contract, erc20_transfer_integrity,
           erc20_amount_numeric_status_integrity, usdt_amount_numeric_not_null,
           non_usdt_amount_usdt_null
  <2> QED
    BY <2>1 DEF SilverInv
<1> QED
  BY <1>1, <1>2, <1>3 DEF SilverInv, AfterSilver

LEMMA GoldKept ==
  ASSUME HistoryInv, GoldInv, UNCHANGED <<received, configs, gold>>,
         stage' = "goldTests" => stage = "goldTests",
         stage' = "idle" /\ failure' = "none" => stage = "goldTests" \/ (stage = "idle" /\ failure = "none")
  PROVE  GoldInv'
<1>1. \A f \in gold' : \E w \in 1..Window', dir \in Directions :
        Counted(w, dir)' # {} /\ f = ExactFlow(w, dir)'
  BY HistoryKept DEF GoldInv
<1>2. stage' = "goldTests" \/ (stage' = "idle" /\ Window' > 0 /\ failure' = "none") =>
        \A dir \in Directions : Counted(Window, dir)' # {} => ExactFlow(Window, dir)' \in gold'
  BY HistoryKept DEF GoldInv
<1> QED
  BY <1>1, <1>2, HistoryKept DEF GoldInv

LEMMA FailureKept ==
  ASSUME HistoryInv, DbtFailsForCause,
         \/ failure' # "DbtBuildError"
         \/ UNCHANGED <<received, configs, raw, silver, failure>>
  PROVE  DbtFailsForCause'
<1>1. CASE failure' # "DbtBuildError"
  BY <1>1 DEF DbtFailsForCause
<1>2. CASE UNCHANGED <<received, configs, raw, silver, failure>>
  <2>1. Window' = Window /\ Settings' = Settings
    BY <1>2, HistoryKept
  <2>2. TreasuryTransfers' = TreasuryTransfers
    BY <1>2, <2>1 DEF TreasuryTransfers
  <2>3. \A dir : Flow(dir)' = Flow(dir)
    BY <2>1, <2>2 DEF Flow, Direction
  <2>4. Flows' = Flows
    BY <2>3 DEF Flows
  <2> QED
    BY <1>2, <2>1, <2>4 DEF DbtFailsForCause
<1> QED
  BY <1>1, <1>2

LEMMA SampleKept ==
  ASSUME HistoryInv, SampleInv,
         sample' = Null \/ UNCHANGED <<received, configs, sample>>
  PROVE  SampleInv'
<1>1. CASE sample' = Null
  BY <1>1 DEF SampleInv
<1>2. CASE UNCHANGED <<received, configs, sample>>
  <2>1. Window' = Window /\ Logs(Window)' = Logs(Window)
    BY <1>2, HistoryKept
  <2>2. count_treasury_samples' = count_treasury_samples
    BY <1>2, <2>1 DEF count_treasury_samples, TransferLogs
  <2> QED
    BY <1>2, <2>1, <2>2 DEF SampleInv
<1> QED
  BY <1>1, <1>2

-------------------------------------------------------------------------------
(* Each action preserves the invariant. *)

USE DEF IInv

LEMMA ChangeConfigStep == IInv /\ ChangeConfig => IInv'
<1> SUFFICES ASSUME IInv, ChangeConfig PROVE IInv'
  OBVIOUS
<1>1. /\ stage = "idle" /\ config' \in Configs
      /\ UNCHANGED <<stage, received, configs, sample, rows, raw, silver, gold, failure>>
  BY DEF ChangeConfig, history, tables
<1>2. HistoryInv' /\ Window' = Window
  BY <1>1, HistoryKept
<1>3. StageInv'
  BY <1>1, <1>2 DEF StageInv
<1>4. RawInv' /\ SilverInv' /\ GoldInv'
  BY <1>1, RawKept, SilverKept, GoldKept
<1>5. DbtFailsForCause' /\ SampleInv'
  BY <1>1, FailureKept, SampleKept
<1> QED
  BY <1>2, <1>3, <1>4, <1>5

LEMMA LoadTimestampsStep == IInv /\ LoadTimestamps => IInv'
<1> SUFFICES ASSUME IInv, LoadTimestamps PROVE IInv'
  OBVIOUS
<1>1. /\ stage = "timestamps"
      /\ UNCHANGED <<config, received, configs, sample, rows, raw, silver, gold>>
      /\ \/ stage' = "idle" /\ failure' = "ValueError"
         \/ stage' = "normalize" /\ failure' = failure
  BY DEF LoadTimestamps, Fails, GoesOn, history, tables
<1>2. HistoryInv' /\ Window' = Window
  BY <1>1, HistoryKept
<1>3. StageInv' /\ failure = "none"
  BY <1>1, <1>2 DEF StageInv
<1>4. RawInv'
  BY <1>1, RawKept DEF AfterWrite, Tested
<1>5. SilverInv'
  BY <1>1, SilverKept DEF AfterSilver, Tested
<1>6. GoldInv'
  BY <1>1, GoldKept
<1>7. DbtFailsForCause' /\ SampleInv'
  BY <1>1, <1>3, FailureKept, SampleKept
<1> QED
  BY <1>2, <1>3, <1>4, <1>5, <1>6, <1>7

(* All or nothing: the stage goes on only if no log was malformed. *)
LEMMA NormalizeStep == IInv /\ Normalize => IInv'
<1> SUFFICES ASSUME IInv, Normalize PROVE IInv'
  OBVIOUS
<1>1. /\ stage = "normalize"
      /\ UNCHANGED <<config, received, configs, sample, raw, silver, gold>>
      /\ rows' = {normalize_log(e) : e \in {l \in Logs(Window) : ~malformed(l)}}
      /\ \/ stage' = "idle" /\ failure' = "NormalizationError"
         \/ /\ stage' = "write" /\ failure' = failure
            /\ \A e \in Logs(Window) : ~malformed(e)
  BY DEF Normalize, normalize_logs, Fails, GoesOn, history, tables
<1>2. HistoryInv' /\ Window' = Window /\ Logs(Window)' = Logs(Window) /\ All' = All
  BY <1>1, HistoryKept
<1>3. StageInv' /\ failure = "none"
  BY <1>1, <1>2 DEF StageInv
<1>4. RawInv'
  <2>1. stage' = "write" =>
          rows' = {normalize_log(e) : e \in Logs(Window)} /\ \A e \in Logs(Window) : ~malformed(e)
    BY <1>1
  <2>2. stage' \notin AfterWrite
    BY <1>1 DEF AfterWrite, Tested
  <2>3. \A r \in raw : Logs(r.window)' = Logs(r.window)
    BY <1>1, HistoryKept
  <2> QED
    BY <1>1, <1>2, <2>1, <2>2, <2>3 DEF RawInv, AfterWrite
<1>5. SilverInv'
  BY <1>1, SilverKept DEF AfterSilver, Tested
<1>6. GoldInv'
  BY <1>1, GoldKept
<1>7. DbtFailsForCause' /\ SampleInv'
  BY <1>1, <1>3, FailureKept, SampleKept
<1> QED
  BY <1>2, <1>3, <1>4, <1>5, <1>6, <1>7

LEMMA WriteStep == IInv /\ Write => IInv'
<1> SUFFICES ASSUME IInv, Write PROVE IInv'
  OBVIOUS
<1>1. /\ stage = "write"
      /\ UNCHANGED <<config, received, configs, sample, rows, silver, gold>>
      /\ \/ stage' = "idle" /\ failure' = "DeltaWriteError" /\ raw' = raw
         \/ stage' = "silver" /\ failure' = failure /\ raw' = raw \cup rows
  BY DEF Write, Fails, GoesOn, history
<1>2. HistoryInv' /\ Window' = Window /\ Logs(Window)' = Logs(Window) /\ All' = All
  BY <1>1, HistoryKept
<1>3. StageInv' /\ failure = "none"
  BY <1>1, <1>2 DEF StageInv
<1>4. RawInv'
  <2>1. CASE raw' = raw /\ stage' = "idle"
    BY <1>1, <2>1, RawKept DEF AfterWrite, Tested
  <2>2. CASE raw' = raw \cup rows /\ stage' = "silver"
    <3>1. /\ rows = {normalize_log(e) : e \in Logs(Window)}
          /\ \A e \in Logs(Window) : ~malformed(e)
      BY <1>1 DEF RawInv
    <3>2. Window \in 1..Window
      BY <1>1, HistoryFacts DEF StageInv
    <3>3. ASSUME NEW e \in Logs(Window)
          PROVE  e \in All /\ WellFormed(e) /\ normalize_log(e).window = Window
      <4>1. e \in received[Window] /\ e.isObject
        BY DEF Logs
      <4>2. e \in All /\ e.window = Window
        BY <3>2, <4>1, HistoryFacts DEF HistoryInv
      <4> QED
        BY <3>1, <4>1, <4>2, RowFields DEF WellFormed
    <3>4. \A r \in raw' : \E e \in All : WellFormed(e) /\ r = normalize_log(e)
      BY <2>2, <3>1, <3>3 DEF RawInv
    <3>5. \A r \in raw' : \A e \in Logs(r.window) : ~malformed(e) /\ normalize_log(e) \in raw'
      BY <2>2, <3>1, <3>3 DEF RawInv
    <3>6. \A r \in raw' : Logs(r.window)' = Logs(r.window)
      BY <1>1, HistoryKept
    <3> QED
      BY <1>2, <2>2, <3>1, <3>4, <3>5, <3>6 DEF RawInv
  <2> QED
    BY <1>1, <2>1, <2>2
<1>5. SilverInv'
  BY <1>1, SilverKept DEF AfterSilver, Tested
<1>6. GoldInv'
  BY <1>1, <1>3, GoldKept
<1>7. DbtFailsForCause' /\ SampleInv'
  BY <1>1, <1>3, FailureKept, SampleKept
<1> QED
  BY <1>2, <1>3, <1>4, <1>5, <1>6, <1>7

LEMMA BuildSilverStep == IInv /\ BuildSilver => IInv'
<1> SUFFICES ASSUME IInv, BuildSilver PROVE IInv'
  OBVIOUS
<1>1. /\ stage = "silver" /\ stage' = "silverTests" /\ failure' = failure
      /\ UNCHANGED <<config, received, configs, sample, rows, raw, gold>>
      /\ silver' = silver \cup {Typed(r) : r \in {q \in raw : q.window = Window /\ IsTransfer(q)}}
  BY DEF BuildSilver, GoesOn, history
<1>2. /\ HistoryInv' /\ Window' = Window /\ All' = All /\ Logs(Window)' = Logs(Window)
      /\ \A e : SilverRow(e)' = SilverRow(e)
  BY <1>1, HistoryKept
<1>3. StageInv' /\ failure = "none"
  BY <1>1, <1>2 DEF StageInv
<1>4. RawInv'
  BY <1>1, RawKept DEF AfterWrite, Tested
<1>5. SilverInv'
  <2>1. ASSUME NEW r \in raw, r.window = Window, IsTransfer(r)
        PROVE  \E e \in All : /\ WellFormed(e) /\ IsAmount(e) /\ normalize_log(e) \in raw
                              /\ Typed(r) = SilverRow(e)
    <3>1. PICK e \in All : WellFormed(e) /\ r = normalize_log(e)
      BY DEF RawInv
    <3>2. e \in ElementType /\ e.window = Window
      BY <2>1, <3>1, HistoryFacts, RowFields
    <3>3. IsAmount(e)
      BY <2>1, <3>1, <3>2, TransferIsAmount
    <3>4. Typed(r) = SilverRow(e)
      BY <3>1, <3>2, <3>3, TypedIsSilverRow
    <3> QED
      BY <3>1, <3>3, <3>4
  <2>2. ASSUME NEW e \in Logs(Window), IsAmount(e)
        PROVE  SilverRow(e) \in silver'
    <3>1. Window \in 1..Window
      BY <1>1, HistoryFacts DEF StageInv
    <3>2. e \in All /\ e \in ElementType /\ e.window = Window
      BY <3>1, HistoryFacts DEF Logs, HistoryInv
    <3>3. normalize_log(e) \in raw
      BY <1>1 DEF RawInv
    <3>4. normalize_log(e).window = Window /\ IsTransfer(normalize_log(e))
      BY <2>2, <3>2, RowFields, TransferIsAmount
    <3>5. Typed(normalize_log(e)) = SilverRow(e)
      BY <2>2, <3>2, TypedIsSilverRow
    <3> QED
      BY <1>1, <3>3, <3>4, <3>5
  <2>3. \A r \in silver' : \E e \in All :
          WellFormed(e) /\ IsAmount(e) /\ normalize_log(e) \in raw /\ r = SilverRow(e)
    BY <1>1, <2>1 DEF SilverInv
  <2> QED
    BY <1>1, <1>2, <2>2, <2>3 DEF SilverInv, Tested
<1>6. GoldInv'
  BY <1>1, GoldKept
<1>7. DbtFailsForCause' /\ SampleInv'
  BY <1>1, <1>3, FailureKept, SampleKept
<1> QED
  BY <1>2, <1>3, <1>4, <1>5, <1>6, <1>7

(* The tests pass unless something is wrong with the tables. *)
LEMMA TestSilverStep == IInv /\ TestSilver => IInv'
<1> SUFFICES ASSUME IInv, TestSilver PROVE IInv'
  OBVIOUS
<1>1. /\ stage = "silverTests"
      /\ UNCHANGED <<config, received, configs, sample, rows, raw, silver, gold>>
      /\ \/ stage' = "gold" /\ failure' = failure /\ SilverTestsHold
         \/ stage' = "idle" /\ failure' = "DbtBuildError" /\ ~SilverTestsHold
  BY DEF TestSilver, Fails, GoesOn, history, tables
<1>2. /\ HistoryInv' /\ Window' = Window /\ All' = All /\ Logs(Window)' = Logs(Window)
      /\ Settings' = Settings
      /\ \A e : SilverRow(e)' = SilverRow(e)
  BY <1>1, HistoryKept
<1>3. StageInv' /\ failure = "none"
  BY <1>1, <1>2 DEF StageInv, Tested
<1>4. RawInv'
  BY <1>1, RawKept DEF AfterWrite, Tested
<1>5. SilverInv'
  <2>1. CASE stage' = "idle"
    BY <1>1, <2>1, SilverKept DEF AfterSilver, Tested
  <2>2. CASE stage' = "gold" /\ SilverTestsHold
    <3>1. SilverTestsHold'
      BY <1>1, <1>2, <2>2
         DEF SilverTestsHold, ethereum_logs_uint256_contract, erc20_transfer_integrity,
             erc20_amount_numeric_status_integrity, usdt_amount_numeric_not_null,
             non_usdt_amount_usdt_null
    <3> QED
      BY <1>1, <1>2, <2>2, <3>1 DEF SilverInv
  <2> QED
    BY <1>1, <2>1, <2>2
<1>6. GoldInv'
  BY <1>1, GoldKept
<1>7. DbtFailsForCause'
  <2> SUFFICES ASSUME failure' = "DbtBuildError",
                      ~ \E r \in raw : r.token = Settings.token /\ IsTransfer(r)
                                       /\ r.data.value > DECIMAL38_MAX,
                      ~ \E r \in raw : r.data.form = "lenient",
                      \A w \in 1..Window : configs[w] = Settings
               PROVE  FALSE
    BY <1>1, <1>2 DEF DbtFailsForCause
  <2>1. ethereum_logs_uint256_contract
    <3>1. ASSUME NEW r \in raw
          PROVE  IF r.status = "NOT_UINT256_WORD" THEN r.text = <<>>
                 ELSE canonical(r.text) /\ (Len(r.text) <= Digits) = (r.status = "DECIMAL38_AVAILABLE")
      <4>1. PICK e \in All : WellFormed(e) /\ r = normalize_log(e)
        BY DEF RawInv
      <4>2. e \in ElementType
        BY <4>1, HistoryFacts
      <4> QED
        BY <4>1, <4>2, DecodedFacts
    <3> QED
      BY <3>1 DEF ethereum_logs_uint256_contract
  <2>2. ASSUME NEW r \in silver
        PROVE  /\ r.clean /\ canonical(r.text)
               /\ (r.status = "DECIMAL38_AVAILABLE") = (r.raw_amount_decimal # Null)
               /\ (r.status = "DECIMAL38_AVAILABLE") = (Len(r.text) <= Digits)
               /\ r.token = Settings.token => r.raw_amount_decimal # Null /\ r.amount_usdt # Null
               /\ r.token # Settings.token => r.amount_usdt = Null
    <3>1. PICK e \in All : WellFormed(e) /\ IsAmount(e) /\ normalize_log(e) \in raw /\ r = SilverRow(e)
      BY DEF SilverInv
    <3>2. e \in ElementType /\ e.window \in 1..Window
      BY <3>1, HistoryFacts
    <3>3. configs[e.window] = Settings
      BY <3>2
    <3>4. IsTransfer(normalize_log(e)) /\ is_uint256_word(e.data)
      BY <3>1, <3>2, TransferIsAmount
    <3>5. normalize_log(e).data = e.data /\ normalize_log(e).token = e.token
      BY RowFields
    <3>6. e.data.form = "word"
      BY <3>1, <3>4, <3>5 DEF is_uint256_word
    <3>7. e.token = Settings.token => ~(e.data.value > DECIMAL38_MAX)
      BY <3>1, <3>4, <3>5
    <3>8. /\ normalize_log(e).text = DecimalText[e.data.value]
          /\ canonical(DecimalText[e.data.value])
          /\ (Len(DecimalText[e.data.value]) <= Digits) <=> (e.data.value <= DECIMAL38_MAX)
      BY <3>2, <3>4, DecodedFacts
    <3>9. e.data.value \in Nat /\ e.data.value # Null /\ DECIMAL38_MAX \in Int
      BY <3>2, RowPathAssumption, NormalizerAssumption, TenToFacts DEF ElementType, DECIMAL38_MAX
    <3>10. /\ r.clean = (e.data.form = "word") /\ r.text = DecimalText[e.data.value]
           /\ r.token = e.token
           /\ r.status = IF e.data.value <= DECIMAL38_MAX THEN "DECIMAL38_AVAILABLE"
                         ELSE "OUTSIDE_DECIMAL38_RANGE"
           /\ r.raw_amount_decimal = IF e.data.value <= DECIMAL38_MAX THEN e.data.value ELSE Null
           /\ r.amount_usdt = IF e.data.value <= DECIMAL38_MAX /\ e.token = Settings.token
                              THEN e.data.value ELSE Null
      BY <3>1, <3>3 DEF SilverRow
    <3>11. CASE e.data.value <= DECIMAL38_MAX
      BY <3>6, <3>8, <3>9, <3>10, <3>11
    <3>12. CASE ~(e.data.value <= DECIMAL38_MAX)
      <4>1. r.status # "DECIMAL38_AVAILABLE" /\ r.raw_amount_decimal = Null /\ r.amount_usdt = Null
        BY <3>10, <3>12
      <4>2. r.token # Settings.token /\ ~(Len(r.text) <= Digits)
        <5>1. e.data.value > DECIMAL38_MAX
          BY <3>9, <3>12
        <5> QED
          BY <3>7, <3>8, <3>10, <3>12, <5>1
      <4>3. r.clean /\ canonical(r.text)
        BY <3>6, <3>8, <3>10
      <4>4. /\ (r.status = "DECIMAL38_AVAILABLE") = (r.raw_amount_decimal # Null)
            /\ (r.status = "DECIMAL38_AVAILABLE") = (Len(r.text) <= Digits)
        BY <4>1, <4>2
      <4> QED
        BY <4>1, <4>2, <4>3, <4>4
    <3> QED
      BY <3>11, <3>12
  <2>3. SilverTestsHold
    BY <2>1, <2>2
       DEF SilverTestsHold, erc20_transfer_integrity, erc20_amount_numeric_status_integrity,
           usdt_amount_numeric_not_null, non_usdt_amount_usdt_null
  <2> QED
    BY <1>1, <1>3, <2>3
<1>8. SampleInv'
  BY <1>1, SampleKept
<1> QED
  BY <1>2, <1>3, <1>4, <1>5, <1>6, <1>7, <1>8

-------------------------------------------------------------------------------
(* Gold adds up exactly what the window received. *)

LEMMA TreasuryTransfersAre ==
  ASSUME IInv, stage = "gold", NEW dir \in Directions
  PROVE  {r \in TreasuryTransfers : Direction(r) = dir}
           = {SilverRow(e) : e \in Counted(Window, dir)}
<1> DEFINE rs == {r \in TreasuryTransfers : Direction(r) = dir}
           es == Counted(Window, dir)
<1>1. Window \in 1..Window
  BY HistoryFacts DEF StageInv
<1>2. Settings = configs[Window]
  BY DEF Settings
<1>3. SilverTestsHold
  BY DEF SilverInv, Tested
<1>4. ASSUME NEW r \in rs
      PROVE  \E e \in es : r = SilverRow(e)
  <2>1. /\ r \in silver /\ r.window = Window /\ r.token = Settings.token
        /\ Settings.treasury \in {r.from, r.to} /\ r.from # r.to
        /\ dir = IF r.to = Settings.treasury THEN "INFLOW" ELSE "OUTFLOW"
    BY DEF TreasuryTransfers, Direction
  <2>2. PICK e \in All : WellFormed(e) /\ IsAmount(e) /\ r = SilverRow(e)
    BY <2>1 DEF SilverInv
  <2>3. e.window = Window /\ e.token = Settings.token /\ r.from = e.from /\ r.to = e.to
    BY <2>1, <2>2 DEF SilverRow
  <2>4. e \in received[Window]
    BY <2>3, HistoryFacts
  <2>5. e \in es
    BY <1>2, <2>1, <2>2, <2>3, <2>4 DEF Counted
  <2> QED
    BY <2>2, <2>5
<1>5. ASSUME NEW e \in es
      PROVE  SilverRow(e) \in rs
  <2>1. /\ e \in received[Window] /\ WellFormed(e) /\ IsAmount(e)
        /\ e.token = Settings.token /\ e.from # e.to
        /\ IF dir = "INFLOW" THEN e.to = Settings.treasury ELSE e.from = Settings.treasury
    BY <1>2 DEF Counted
  <2>2. e \in Logs(Window) /\ e.window = Window
    BY <1>1, <2>1 DEF Logs, WellFormed, HistoryInv
  <2> DEFINE r == SilverRow(e)
  <2>3. r \in silver
    BY <2>1, <2>2 DEF SilverInv, Tested
  <2>4. /\ r.window = Window /\ r.token = Settings.token /\ r.from = e.from /\ r.to = e.to
    BY <2>1, <2>2 DEF SilverRow
  <2> HIDE DEF r
  <2>5. /\ r.raw_amount_decimal # Null /\ r.amount_usdt # Null
        /\ r.status = "DECIMAL38_AVAILABLE"
    BY <1>3, <2>3, <2>4
       DEF SilverTestsHold, usdt_amount_numeric_not_null, erc20_amount_numeric_status_integrity
  <2>6. r \in TreasuryTransfers
    BY <2>1, <2>3, <2>4, <2>5 DEF TreasuryTransfers
  <2>7. Direction(r) = dir
    BY <2>1, <2>4 DEF Direction, Directions
  <2> QED
    BY <2>6, <2>7 DEF r
<1> QED
  BY <1>4, <1>5

LEMMA CountedFacts ==
  ASSUME HistoryInv, NEW w \in 1..Window, NEW dir
  PROVE  /\ IsFiniteSet(Counted(w, dir)) /\ Counted(w, dir) \subseteq received[w]
         /\ Cardinality(Counted(w, dir)) \in Nat
         /\ Cardinality(Counted(w, dir)) = 0 <=> Counted(w, dir) = {}
         /\ [e \in Counted(w, dir) |-> e.data.value] \in [Counted(w, dir) -> Nat]
<1>1. Counted(w, dir) \subseteq received[w]
  BY DEF Counted
<1>2. IsFiniteSet(Counted(w, dir))
  BY <1>1, HistoryFacts, FS_Subset
<1>3. \A e \in Counted(w, dir) : e.data.value \in Nat
  BY <1>1, HistoryFacts DEF ElementType
<1> QED
  BY <1>1, <1>2, <1>3, FS_CardinalityType, FS_EmptySet

LEMMA FlowIsExact ==
  ASSUME IInv, stage = "gold", NEW dir \in Directions
  PROVE  Flow(dir) = ExactFlow(Window, dir)
<1> DEFINE rs == {r \in TreasuryTransfers : Direction(r) = dir}
           es == Counted(Window, dir)
           p == [e \in es |-> SilverRow(e)]
           values == [e \in es |-> e.data.value]
           raws == [r \in rs |-> r.raw_amount_decimal]
           usdts == [r \in rs |-> r.amount_usdt]
<1>1. Window \in 1..Window /\ Settings = configs[Window]
  BY HistoryFacts DEF StageInv, Settings
<1>2. rs = {SilverRow(e) : e \in es}
  BY TreasuryTransfersAre
<1>3. IsFiniteSet(es) /\ es \subseteq received[Window] /\ values \in [es -> Nat]
  BY <1>1, CountedFacts
<1>4. p \in Bijection(es, rs)
  <2>1. \A e \in es, o \in es : SilverRow(e) = SilverRow(o) => e = o
    <3>1. \A e \in es : e \in All /\ SilverRow(e).key = e.key
      BY <1>1, <1>3, HistoryFacts DEF SilverRow
    <3> QED
      BY <3>1 DEF HistoryInv
  <2> HIDE DEF rs, es
  <2>2. p \in [es -> rs]
    BY <1>2
  <2>3. \A r \in rs : \E e \in es : p[e] = r
    BY <1>2
  <2> QED
    BY <2>1, <2>2, <2>3 DEF Bijection, Injection, IsInjective, Surjection
<1>5. ASSUME NEW e \in es
      PROVE  /\ raws[p[e]] = values[e] /\ usdts[p[e]] = values[e]
             /\ values[e] \in Nat
  <2> DEFINE r == SilverRow(e)
  <2>1. r \in rs /\ p[e] = r
    BY <1>2
  <2>2. r.raw_amount_decimal # Null /\ r.amount_usdt # Null
    BY <2>1 DEF TreasuryTransfers
  <2>3. r.raw_amount_decimal = e.data.value /\ r.amount_usdt = e.data.value
    BY <2>2 DEF SilverRow
  <2> HIDE DEF r, rs, es, p
  <2> QED
    BY <1>3, <2>1, <2>3
<1>6. raws \in [rs -> Nat] /\ usdts \in [rs -> Nat]
  <2>1. \A r \in rs : \E e \in es : r = p[e]
    BY <1>2
  <2> HIDE DEF rs, es, p, values
  <2>2. \A r \in rs : raws[r] \in Nat /\ usdts[r] \in Nat
    BY <1>5, <2>1
  <2> QED
    BY <2>2
<1>7. IsFiniteSet(rs) /\ Cardinality(rs) = Cardinality(es)
  <2> HIDE DEF rs, es, p
  <2>1. ExistsBijection(es, rs)
    BY <1>4 DEF ExistsBijection
  <2> QED
    BY <1>3, <2>1, FS_Bijection
<1> HIDE DEF rs, es, p, values, raws, usdts
<1>8. /\ IsSum(values, es, SumFunction(values))
      /\ IsSum(raws, rs, SumFunction(raws)) /\ IsSum(usdts, rs, SumFunction(usdts))
  <2>1. IsSum(values, es, SumFunction(values))
    BY <1>3, SumFunctionIsSum
  <2>2. IsSum(raws, rs, SumFunction(raws))
    BY <1>6, <1>7, SumFunctionIsSum
  <2>3. IsSum(usdts, rs, SumFunction(usdts))
    BY <1>6, <1>7, SumFunctionIsSum
  <2> QED
    BY <2>1, <2>2, <2>3
<1>9. SumFunction(values) = SumFunction(raws)
  <2>1. \A e \in es : values[e] = raws[p[e]]
    BY <1>5
  <2> QED
    BY <1>3, <1>4, <1>6, <1>8, <2>1, SumsMatch
<1>10. SumFunction(values) = SumFunction(usdts)
  <2>1. \A e \in es : values[e] = usdts[p[e]]
    BY <1>5
  <2> QED
    BY <1>3, <1>4, <1>6, <1>8, <2>1, SumsMatch
<1> QED
  BY <1>1, <1>7, <1>9, <1>10 DEF Flow, ExactFlow, rs, es, values, raws, usdts

LEMMA FlowsAre ==
  ASSUME IInv, stage = "gold"
  PROVE  Flows = {ExactFlow(Window, dir) : dir \in {d \in Directions : Counted(Window, d) # {}}}
<1>1. Window \in 1..Window
  BY HistoryFacts DEF StageInv
<1>2. \A dir \in Directions : Flow(dir) = ExactFlow(Window, dir)
  BY FlowIsExact
<1>3. \A dir \in Directions :
        ExactFlow(Window, dir).transfer_count > 0 <=> Counted(Window, dir) # {}
  BY <1>1, CountedFacts DEF ExactFlow
<1> QED
  BY <1>2, <1>3 DEF Flows, Directions

LEMMA BuildGoldStep == IInv /\ BuildGold => IInv'
<1> SUFFICES ASSUME IInv, BuildGold PROVE IInv'
  OBVIOUS
<1>1. /\ stage = "gold"
      /\ UNCHANGED <<config, received, configs, sample, rows, raw, silver>>
      /\ \/ stage' = "goldTests" /\ failure' = failure /\ gold' = gold \cup Flows
         \/ /\ stage' = "idle" /\ failure' = "DbtBuildError" /\ gold' = gold
            /\ \E f \in Flows : f.total_amount_raw > DECIMAL38_MAX
  BY DEF BuildGold, Fails, GoesOn, history
<1>2. /\ HistoryInv' /\ Window' = Window /\ Settings' = Settings
      /\ \A w, dir : Counted(w, dir)' = Counted(w, dir) /\ ExactFlow(w, dir)' = ExactFlow(w, dir)
  BY <1>1, HistoryKept
<1>3. StageInv' /\ failure = "none" /\ Window \in 1..Window
  BY <1>1, <1>2, HistoryFacts DEF StageInv, Tested
<1>4. RawInv'
  BY <1>1, RawKept DEF AfterWrite, Tested
<1>5. SilverInv'
  BY <1>1, SilverKept DEF AfterSilver, Tested
<1>6. GoldInv'
  <2>1. CASE stage' = "idle" /\ failure' = "DbtBuildError" /\ gold' = gold
    BY <2>1, <1>1, GoldKept
  <2>2. CASE stage' = "goldTests" /\ gold' = gold \cup Flows
    <3>1. \A dir \in Directions : Counted(Window, dir) # {} => ExactFlow(Window, dir) \in gold'
      BY <1>1, <2>2, FlowsAre
    <3>2. \A f \in gold' : \E w \in 1..Window, dir \in Directions :
            Counted(w, dir) # {} /\ f = ExactFlow(w, dir)
      <4>1. \A f \in Flows : \E dir \in Directions :
              Counted(Window, dir) # {} /\ f = ExactFlow(Window, dir)
        BY <1>1, FlowsAre
      <4> QED
        BY <1>3, <2>2, <4>1 DEF GoldInv
    <3> QED
      BY <1>2, <2>2, <3>1, <3>2 DEF GoldInv
  <2> QED
    BY <1>1, <2>1, <2>2
<1>7. DbtFailsForCause'
  <2>1. CASE failure' = failure
    BY <1>3, <2>1, FailureKept
  <2>2. CASE \E f \in Flows : f.total_amount_raw > DECIMAL38_MAX
    <3>1. TreasuryTransfers' = TreasuryTransfers
      BY <1>1, <1>2 DEF TreasuryTransfers
    <3>2. \A dir : Flow(dir)' = Flow(dir)
      BY <1>2, <3>1 DEF Flow, Direction
    <3>3. Flows' = Flows
      BY <3>2 DEF Flows
    <3> QED
      BY <2>2, <3>3 DEF DbtFailsForCause
  <2> QED
    BY <1>1, <2>1, <2>2
<1>8. SampleInv'
  BY <1>1, SampleKept
<1> QED
  BY <1>2, <1>3, <1>4, <1>5, <1>6, <1>7, <1>8

AddsUp(F, S, g) ==
  /\ SumFunction(F) = g[S] /\ g[{}] = 0
  /\ \A s \in SUBSET S : g[s] \in Nat /\ \A x \in s : g[s] = F[x] + g[s \ {x}]

LEMMA SumByParts ==
  ASSUME NEW S, IsFiniteSet(S), NEW F \in [S -> Nat]
  PROVE  \E g : AddsUp(F, S, g)
<1>1. PICK g : SumRec(F, S, g) /\ SumFunction(F) = g[S]
  BY SumFunctionIsSum DEF IsSum
<1>2. /\ g[{}] = 0
      /\ \A s \in SUBSET S : g[s] \in Nat /\ \A x \in s : g[s] = F[x] + g[s \ {x}]
  BY <1>1, SumTakesAny
<1> QED
  BY <1>1, <1>2 DEF AddsUp

LEMMA SumInNat ==
  ASSUME NEW S, IsFiniteSet(S), NEW F \in [S -> Nat]
  PROVE  SumFunction(F) \in Nat
BY SumByParts DEF AddsUp

LEMMA TestGoldStep == IInv /\ TestGold => IInv'
<1> SUFFICES ASSUME IInv, TestGold PROVE IInv'
  OBVIOUS
<1>1. /\ stage = "goldTests" /\ stage' = "idle"
      /\ UNCHANGED <<config, received, configs, sample, rows, raw, silver, gold>>
      /\ \/ failure' = "none"
         \/ failure' = "DbtBuildError" /\ ~treasury_flow_integrity
  BY DEF TestGold, Fails, history, tables
<1>2. HistoryInv' /\ Window' = Window /\ Settings' = Settings
  BY <1>1, HistoryKept
<1>3. StageInv' /\ Window \in 1..Window
  BY <1>1, <1>2, HistoryFacts DEF StageInv
<1>4. RawInv'
  BY <1>1, RawKept DEF AfterWrite, Tested
<1>5. SilverInv'
  BY <1>1, SilverKept DEF AfterSilver, Tested
<1>6. GoldInv'
  BY <1>1, GoldKept
<1>7. DbtFailsForCause'
  <2> SUFFICES ASSUME \A w \in 1..Window : configs[w] = Settings
               PROVE  treasury_flow_integrity
    BY <1>1, <1>2 DEF DbtFailsForCause
  <2>1. ASSUME NEW f \in gold
        PROVE  /\ f.token = Settings.token /\ f.treasury = Settings.treasury
               /\ f.transfer_count > 0 /\ f.total_amount_raw >= 0 /\ f.total_amount_usdt >= 0
    <3>1. PICK w \in 1..Window, dir \in Directions : Counted(w, dir) # {} /\ f = ExactFlow(w, dir)
      BY DEF GoldInv
    <3> DEFINE es == Counted(w, dir)
               values == [e \in es |-> e.data.value]
    <3>2. IsFiniteSet(es) /\ values \in [es -> Nat] /\ Cardinality(es) \in Nat \ {0}
      BY <3>1, CountedFacts
    <3> HIDE DEF es, values
    <3>3. SumFunction(values) \in Nat
      BY <3>2, SumInNat
    <3>4. /\ f.token = configs[w].token /\ f.treasury = configs[w].treasury
          /\ f.transfer_count = Cardinality(es)
          /\ f.total_amount_raw = SumFunction(values)
          /\ f.total_amount_usdt = SumFunction(values)
      BY <3>1 DEF ExactFlow, es, values
    <3> QED
      BY <3>2, <3>3, <3>4
  <2> QED
    BY <2>1 DEF treasury_flow_integrity
<1>8. SampleInv'
  BY <1>1, SampleKept
<1> QED
  BY <1>2, <1>3, <1>4, <1>5, <1>6, <1>7, <1>8

LEMMA TakeSampleStep == IInv /\ TakeSample => IInv'
<1> SUFFICES ASSUME IInv, TakeSample PROVE IInv'
  OBVIOUS
<1>1. /\ stage = "idle" /\ Window > 0
      /\ SmokeSample \/ Notebook02Sample \/ Notebook03Sample
      /\ UNCHANGED <<config, stage, received, configs, rows, raw, silver, gold, failure>>
  BY DEF TakeSample, tables
<1>2. HistoryInv' /\ Window' = Window /\ Logs(Window)' = Logs(Window)
  BY <1>1, HistoryKept
<1>3. StageInv'
  BY <1>1, <1>2 DEF StageInv
<1>4. RawInv' /\ SilverInv' /\ GoldInv' /\ DbtFailsForCause'
  BY <1>1, RawKept, SilverKept, GoldKept, FailureKept
<1>5. SampleInv'
  <2>1. count_treasury_samples' = count_treasury_samples
    BY <1>1, <1>2 DEF count_treasury_samples, TransferLogs
  <2> DEFINE Sampled(a) == \E e \in Logs(Window) :
               /\ is_uint256_word(e.data)
               /\ a.key = e.key /\ a.raw = e.data.value
               /\ a.amount \in {Null, amount_with_decimals(e.data.value)}
  <2>2. ASSUME NEW logs, logs \subseteq TransferLogs, decodable(logs), NEW a \in Amounts(logs)
        PROVE  Sampled(a) /\ Sampled([a EXCEPT !.amount = Null])
    BY <2>2 DEF decodable, Amounts, TransferLogs
  <2>3. smoke_sample \subseteq TransferLogs /\ notebook03 \subseteq TransferLogs
        /\ \A token : notebook02(token) \subseteq TransferLogs
    BY DEF smoke_sample, notebook02, notebook03
  <2> HIDE DEF Sampled
  <2>4. /\ sample'.treasury \in {Null, count_treasury_samples}
        /\ \A a \in sample'.amounts : Sampled(a)
    <3>1. CASE SmokeSample
      BY <2>2, <2>3, <3>1 DEF SmokeSample, Nothing
    <3>2. CASE Notebook02Sample
      <4>1. PICK token :
              \/ /\ decodable(notebook02(token))
                 /\ sample' = [Nothing EXCEPT !.amounts = Amounts(notebook02(token))]
              \/ sample' = Nothing
        BY <3>2 DEF Notebook02Sample
      <4>2. notebook02(token) \subseteq TransferLogs
        BY <2>3
      <4>3. decodable(notebook02(token)) => \A a \in Amounts(notebook02(token)) : Sampled(a)
        BY <2>2, <4>2
      <4> QED
        BY <4>1, <4>3 DEF Nothing
    <3>3. CASE Notebook03Sample
      BY <2>2, <2>3, <3>3 DEF Notebook03Sample, Nothing
    <3> QED
      BY <1>1, <3>1, <3>2, <3>3
  <2> QED
    BY <1>1, <1>2, <2>1, <2>4 DEF SampleInv, Sampled
<1> QED
  BY <1>2, <1>3, <1>4, <1>5

-------------------------------------------------------------------------------
(* A new answer: its keys are new, and what is known of the windows before stays. *)

LEMMA AnswerFacts ==
  ASSUME HistoryInv, NEW n \in Nat, NEW f \in [Used + 1..Used + n -> Elements]
  PROVE  /\ Answer(f) \subseteq ElementType
         /\ IsFiniteSet(Answer(f)) /\ Cardinality(Answer(f)) = n
         /\ \A e \in Answer(f) : e.window = Window + 1 /\ e.key \in Used + 1..Used + n
         /\ \A e \in Answer(f), o \in Answer(f) : e.key = o.key => e = o
<1> DEFINE D == Used + 1..Used + n
           p == [k \in D |-> [f[k] EXCEPT !.key = k, !.window = Window + 1]]
           A == Answer(f)
<1>1. Used \in Nat /\ Window \in Nat
  BY HistoryFacts, FS_CardinalityType DEF HistoryInv, Used, All
<1>2. A = {p[k] : k \in D}
  BY DEF Answer
<1>3. ASSUME NEW k \in D
      PROVE  p[k] \in ElementType /\ p[k].key = k /\ p[k].window = Window + 1
  <2>1. f[k] \in ElementType /\ k \in Nat /\ Window + 1 \in Nat
    BY <1>1, ElementsTyped
  <2>2. p[k] = [f[k] EXCEPT !.key = k, !.window = Window + 1]
    OBVIOUS
  <2> DEFINE x == f[k]
             w == Window + 1
             e == [x EXCEPT !.key = k, !.window = w]
  <2>3. x \in ElementType /\ k \in Nat /\ w \in Nat
    BY <2>1
  <2> HIDE DEF x, w
  <2>4. e \in ElementType /\ e.key = k /\ e.window = w
    BY <2>3 DEF ElementType
  <2> QED
    BY <2>2, <2>4 DEF x, w
<1>4. IsFiniteSet(D) /\ Cardinality(D) = n
  BY <1>1, FS_Interval
<1> HIDE DEF A, p
<1>5. p \in Bijection(D, A)
  <2>1. p \in [D -> A]
    BY <1>2 DEF p
  <2>2. \A k \in D, l \in D : p[k] = p[l] => k = l
    BY <1>3
  <2>3. \A e \in A : \E k \in D : p[k] = e
    BY <1>2
  <2> QED
    BY <2>1, <2>2, <2>3 DEF Bijection, Injection, IsInjective, Surjection
<1>6. IsFiniteSet(A) /\ Cardinality(A) = n
  <2>1. ExistsBijection(D, A)
    BY <1>5 DEF ExistsBijection
  <2> HIDE DEF D
  <2> QED
    BY <1>4, <2>1, FS_Bijection
<1> QED
  BY <1>2, <1>3, <1>6 DEF A

LEMMA ReceiveKeeps ==
  ASSUME HistoryInv, Receive, config \in Configs
  PROVE  /\ HistoryInv' /\ Window' = Window + 1
         /\ All \subseteq All'
         /\ \A w \in 1..Window : received'[w] = received[w] /\ configs'[w] = configs[w]
<1>0. PICK n \in Nat : \E f \in [Used + 1..Used + n -> Elements] :
        received' = Append(received, Answer(f))
  BY DEF Receive
<1>1. PICK f \in [Used + 1..Used + n -> Elements] : received' = Append(received, Answer(f))
  BY <1>0
<1> DEFINE A == Answer(f)
<1>2. /\ A \subseteq ElementType
      /\ IsFiniteSet(A) /\ Cardinality(A) = n
      /\ \A e \in A : e.window = Window + 1 /\ e.key \in Used + 1..Used + n
      /\ \A e \in A, o \in A : e.key = o.key => e = o
  BY AnswerFacts
<1> HIDE DEF A
<1>3. /\ received \in Seq(SUBSET ElementType) /\ A \in SUBSET ElementType
      /\ received' = Append(received, A)
      /\ configs \in Seq(Configs) /\ configs' = Append(configs, config)
      /\ Len(configs) = Window /\ Len(received) = Window /\ Window \in Nat
  BY <1>1, <1>2, HistoryFacts DEF HistoryInv, Receive, A, Window
<1>4. /\ received' \in Seq(SUBSET ElementType) /\ Len(received') = Window + 1
      /\ received'[Window + 1] = A
      /\ \A w \in 1..Window : received'[w] = received[w]
  BY <1>3, AppendProperties
<1>5. /\ configs' \in Seq(Configs) /\ Len(configs') = Window + 1
      /\ \A w \in 1..Window : configs'[w] = configs[w]
  BY <1>3, AppendProperties
<1>6. Window' = Window + 1
  BY <1>4 DEF Window
<1>7. All' = All \cup A
  <2>1. /\ DOMAIN received = 1..Window /\ DOMAIN received' = 1..(Window + 1)
        /\ 1..(Window + 1) = 1..Window \cup {Window + 1}
    BY <1>3, <1>4
  <2>2. All = UNION {received[w] : w \in 1..Window}
    BY <2>1 DEF All, Range
  <2>3. All' = UNION {received'[w] : w \in 1..(Window + 1)}
    BY <2>1 DEF All, Range
  <2> QED
    BY <1>4, <2>1, <2>2, <2>3
<1>8. Used \in Nat /\ Used = Cardinality(All) /\ IsFiniteSet(All)
  BY FS_CardinalityType DEF HistoryInv, Used, All
<1>9. All \cap A = {}
  <2>1. \A e \in All : e.key <= Used
    BY DEF HistoryInv
  <2> QED
    BY <1>2, <1>8, <2>1
<1>10. IsFiniteSet(All') /\ Used' = Used + n
  <2>1. /\ IsFiniteSet(All \cup A)
        /\ Cardinality(All \cup A) = Cardinality(All) + Cardinality(A) - Cardinality(All \cap A)
    BY <1>2, <1>8, FS_Union
  <2>2. Cardinality(All \cap A) = 0
    BY <1>9, FS_EmptySet
  <2>3. Used' = Cardinality(All')
    BY DEF Used, All
  <2> QED
    BY <1>2, <1>7, <1>8, <2>1, <2>2, <2>3
<1>11. \A w \in 1..Window' : \A e \in received'[w] : e.window = w
  BY <1>2, <1>3, <1>4, <1>6 DEF HistoryInv
<1>12. ASSUME NEW e \in All'
       PROVE  /\ e.key <= Used'
              /\ \A o \in All' : e.key = o.key => e = o
  <2>1. \A x \in All : x.key \in Nat /\ x.key <= Used
    BY HistoryFacts DEF HistoryInv, ElementType
  <2>2. \A x \in A : x.key \in Nat /\ Used < x.key /\ x.key <= Used + n
    BY <1>2, <1>8
  <2>3. \A x \in All, y \in All : x.key = y.key => x = y
    BY DEF HistoryInv
  <2>4. \A x \in All, y \in A : x.key # y.key
    BY <1>8, <2>1, <2>2
  <2>5. e.key <= Used'
    BY <1>7, <1>8, <1>10, <2>1, <2>2
  <2>6. \A o \in All' : e.key = o.key => e = o
    BY <1>2, <1>7, <2>3, <2>4
  <2> QED
    BY <2>5, <2>6
<1>13. HistoryInv'
  BY <1>4, <1>5, <1>6, <1>10, <1>11, <1>12 DEF HistoryInv
<1> QED
  BY <1>4, <1>5, <1>6, <1>7, <1>13

LEMMA ReceiveStep == IInv /\ Receive => IInv'
<1> SUFFICES ASSUME IInv, Receive PROVE IInv'
  OBVIOUS
<1>1. /\ stage = "idle" /\ stage' = "timestamps" /\ failure' = "none" /\ sample' = Null
      /\ UNCHANGED <<config, rows, raw, silver, gold>>
  BY DEF Receive, tables
<1>2. /\ HistoryInv' /\ Window' = Window + 1
      /\ All \subseteq All'
      /\ \A w \in 1..Window : received'[w] = received[w] /\ configs'[w] = configs[w]
  BY ReceiveKeeps DEF StageInv
<1>3. /\ Window \in Nat
      /\ \A e \in All : e.window \in 1..Window
  BY HistoryFacts
<1>4. StageInv'
  BY <1>1, <1>2, <1>3 DEF StageInv
<1>5. \A w \in 1..Window : Logs(w)' = Logs(w)
  BY <1>2 DEF Logs
<1>6. RawInv'
  <2>1. ASSUME NEW r \in raw PROVE r.window \in 1..Window
    <3>1. PICK e \in All : r = normalize_log(e)
      BY DEF RawInv
    <3> QED
      BY <1>3, <3>1, RowFields
  <2>2. \A r \in raw : \E e \in All' : WellFormed(e) /\ r = normalize_log(e)
    BY <1>2 DEF RawInv
  <2>3. \A r \in raw : \A e \in Logs(r.window)' : ~malformed(e) /\ normalize_log(e) \in raw
    BY <1>5, <2>1 DEF RawInv
  <2> QED
    BY <1>1, <2>2, <2>3 DEF RawInv, Tested
<1>7. SilverInv'
  <2>1. \A e \in All : SilverRow(e)' = SilverRow(e)
    BY <1>2, <1>3 DEF SilverRow
  <2>2. \A r \in silver : \E e \in All' :
          WellFormed(e) /\ IsAmount(e) /\ normalize_log(e) \in raw /\ r = SilverRow(e)'
    BY <1>2, <2>1 DEF SilverInv
  <2> QED
    BY <1>1, <2>2 DEF SilverInv, Tested
<1>8. GoldInv'
  <2>1. \A w \in 1..Window, dir \in Directions : Counted(w, dir)' = Counted(w, dir)
    BY <1>2 DEF Counted
  <2>2. \A w \in 1..Window, dir \in Directions : ExactFlow(w, dir)' = ExactFlow(w, dir)
    BY <1>2, <2>1 DEF ExactFlow
  <2>3. \A f \in gold : \E w \in 1..Window', dir \in Directions :
          Counted(w, dir)' # {} /\ f = ExactFlow(w, dir)'
    BY <1>2, <1>3, <2>1, <2>2 DEF GoldInv
  <2> QED
    BY <1>1, <2>3 DEF GoldInv
<1>9. DbtFailsForCause' /\ SampleInv'
  BY <1>1, FailureKept, SampleKept
<1> QED
  BY <1>2, <1>4, <1>6, <1>7, <1>8, <1>9

LEMMA InitInv == Init => IInv
<1> SUFFICES ASSUME Init PROVE IInv
  OBVIOUS
<1>1. /\ received = <<>> /\ configs = <<>> /\ sample = Null
      /\ stage = "idle" /\ config \in Configs /\ failure = "none"
      /\ raw = {} /\ silver = {} /\ gold = {}
  BY DEF Init
<1>2. Window = 0 /\ All = {}
  BY <1>1 DEF Window, All, Range
<1>3. HistoryInv
  <2>1. received \in Seq(SUBSET ElementType) /\ configs \in Seq(Configs) /\ Len(configs) = Len(received)
    BY <1>1
  <2>2. IsFiniteSet(All)
    BY <1>2, FS_EmptySet
  <2> QED
    BY <1>2, <2>1, <2>2 DEF HistoryInv
<1>4. StageInv /\ DbtFailsForCause /\ SampleInv
  BY <1>1 DEF StageInv, DbtFailsForCause, SampleInv
<1>5. RawInv /\ SilverInv /\ GoldInv
  BY <1>1, <1>2 DEF RawInv, SilverInv, GoldInv, Tested
<1> QED
  BY <1>3, <1>4, <1>5

(* The invariant is inductive. *)
THEOREM RowPathInvariant == Spec => []IInv
<1>1. IInv /\ UNCHANGED vars => IInv'
  <2> SUFFICES ASSUME IInv, UNCHANGED vars PROVE IInv'
    OBVIOUS
  <2>1. UNCHANGED <<config, stage, received, configs, sample, rows, raw, silver, gold, failure>>
    BY DEF vars, history, tables
  <2>2. HistoryInv' /\ Window' = Window
    BY <2>1, HistoryKept
  <2>3. StageInv'
    BY <2>1, <2>2 DEF StageInv
  <2> QED
    BY <2>1, <2>2, <2>3, RawKept, SilverKept, GoldKept, FailureKept, SampleKept
<1>2. IInv /\ [Next]_vars => IInv'
  BY <1>1, ChangeConfigStep, ReceiveStep, LoadTimestampsStep, NormalizeStep, WriteStep,
     BuildSilverStep, TestSilverStep, BuildGoldStep, TestGoldStep, TakeSampleStep
     DEF Next, Finished
<1> QED
  BY <1>2, InitInv, PTL DEF Spec

-------------------------------------------------------------------------------
(* All or nothing: an answer with a malformed log stores none of its logs, so that *)
(* what is stored of a window is every object of its answer (StoredIsWhole).        *)
THEOREM NothingIsLeftOut == Spec => []StoredIsWhole
<1>1. IInv => StoredIsWhole
  <2> SUFFICES ASSUME IInv, NEW w \in 1..Window,
                      {r.key : r \in {r \in raw : r.window = w}} # {}
               PROVE  /\ {r.key : r \in {r \in raw : r.window = w}} = {e.key : e \in Logs(w)}
                      /\ \A e \in Logs(w) : ~malformed(e)
    BY DEF StoredIsWhole
  <2>1. PICK s \in raw : s.window = w
    OBVIOUS
  <2>2. \A e \in Logs(w) : ~malformed(e) /\ normalize_log(e) \in raw
    BY <2>1 DEF RawInv
  <2>3. ASSUME NEW e \in Logs(w)
        PROVE  \E r \in raw : r.window = w /\ r.key = e.key
    <3>1. e.window = w
      BY DEF Logs, HistoryInv
    <3> QED
      BY <2>2, <3>1, RowFields
  <2>4. ASSUME NEW r \in raw, r.window = w
        PROVE  \E e \in Logs(w) : r.key = e.key
    <3>1. PICK e \in All : WellFormed(e) /\ r = normalize_log(e)
      BY DEF RawInv
    <3>2. e \in received[w] /\ r.key = e.key
      BY <2>4, <3>1, HistoryFacts, RowFields
    <3> QED
      BY <3>1, <3>2 DEF Logs, WellFormed
  <2> QED
    BY <2>2, <2>3, <2>4
<1> QED
  BY <1>1, RowPathInvariant, PTL

(* A window in gold holds the number and the exact sum of the treasury's transfers in *)
(* the provider's answer, whatever the decimals and however large the amounts         *)
(* (GoldIsExact).                                                                     *)
THEOREM GoldCountsAndSumsExactly == Spec => []GoldIsExact
<1>1. IInv => GoldIsExact
  <2> SUFFICES ASSUME IInv, NEW f \in gold
               PROVE  LET es == Counted(f.window, f.direction)
                          sum == SumFunction([e \in es |-> e.data.value])
                      IN  /\ f.transfer_count = Cardinality(es)
                          /\ f.total_amount_raw = sum /\ f.total_amount_usdt = sum
    BY DEF GoldIsExact
  <2>1. PICK w \in 1..Window, dir \in Directions : f = ExactFlow(w, dir)
    BY DEF GoldInv
  <2>2. f.window = w /\ f.direction = dir
    BY <2>1 DEF ExactFlow
  <2> QED
    BY <2>1, <2>2 DEF ExactFlow
<1> QED
  BY <1>1, RowPathInvariant, PTL

(* A run that ended without a failure has a gold row for each direction the treasury *)
(* moved tokens in (SucceededIsCounted).                                             *)
THEOREM SuccessLeavesNoTransferOut == Spec => []SucceededIsCounted
<1>1. IInv => SucceededIsCounted
  <2> SUFFICES ASSUME IInv, stage = "idle", Window > 0, failure = "none",
                      NEW dir \in Directions, Counted(Window, dir) # {}
               PROVE  \E f \in gold : f.window = Window /\ f.direction = dir
    BY DEF SucceededIsCounted, Directions
  <2>1. ExactFlow(Window, dir) \in gold
    BY DEF GoldInv
  <2> QED
    BY <2>1 DEF ExactFlow
<1> QED
  BY <1>1, RowPathInvariant, PTL

(* The tests stop a build only for an amount or a total the type cannot hold, data   *)
(* only Python takes for hex, or rows of earlier settings (DbtFailsForCause).        *)
THEOREM BuildsFailForCause == Spec => []DbtFailsForCause
BY RowPathInvariant, PTL

-------------------------------------------------------------------------------
(* What scripts and notebooks decode. *)

(* A Python division is exact as long as the digits fit its precision. *)
LEMMA DivisionIsExact ==
  ASSUME NEW n \in Nat, Len(DecimalText[n]) <= Precision
  PROVE  amount_with_decimals(n) = n
<1>1. Len(DecimalText[n]) \in Nat /\ Precision \in Nat
  BY DecimalTextMeans, NormalizerAssumption
<1>2. TenTo[IF Len(DecimalText[n]) > Precision THEN Len(DecimalText[n]) - Precision ELSE 0] = 1
  <2>1. ~(Len(DecimalText[n]) > Precision)
    BY <1>1
  <2>2. TenTo[0] = 1
    BY TenToFacts
  <2> QED
    BY <2>1, <2>2, Zenon
<1>3. /\ n % 1 = 0 /\ n \div 1 = n
      /\ ~((2 * 0) + (n % 2) > 1)
  OBVIOUS
<1>4. amount_with_decimals(n) =
        1 * ((n \div 1) + (IF (2 * (n % 1)) + ((n \div 1) % 2) > 1 THEN 1 ELSE 0))
  BY <1>2 DEF amount_with_decimals
<1> QED
  BY <1>3, <1>4

(* The counts of the gold rows of one window; there is at most one per direction. *)
LEMMA CountsAdd ==
  ASSUME NEW S, NEW F \in [S -> Nat], NEW a, NEW b, S \subseteq {a, b},
         NEW m \in Nat, NEW n \in Nat, a \in S => F[a] <= m, b \in S => F[b] <= n
  PROVE  SumFunction(F) <= m + n
<1>1. IsFiniteSet(S)
  <2>1. IsFiniteSet({a}) /\ IsFiniteSet({a} \cup {b})
    BY FS_Singleton, FS_AddElement
  <2>2. S \subseteq {a} \cup {b}
    OBVIOUS
  <2> QED
    BY <2>1, <2>2, FS_Subset
<1>2. PICK g : AddsUp(F, S, g)
  BY <1>1, SumByParts
<1>3. /\ SumFunction(F) = g[S] /\ g[{}] = 0
      /\ \A s \in SUBSET S : g[s] \in Nat /\ \A x \in s : g[s] = F[x] + g[s \ {x}]
  BY <1>2 DEF AddsUp
<1>4. ASSUME NEW x \in S
      PROVE  g[{x}] = F[x] /\ F[x] \in Nat
  <2>1. {x} \in SUBSET S /\ x \in {x} /\ {x} \ {x} = {}
    OBVIOUS
  <2>2. g[{x}] = F[x] + g[{}]
    BY <1>3, <2>1
  <2> QED
    BY <1>3, <2>2
<1>5. CASE S = {}
  BY <1>3, <1>5
<1>6. CASE \E x \in S : S = {x}
  BY <1>3, <1>4, <1>6
<1>7. CASE a \in S /\ b \in S /\ a # b
  <2>1. S \ {a} = {b} /\ S \in SUBSET S
    BY <1>7
  <2>2. g[S] = F[a] + g[{b}]
    BY <1>3, <1>7, <2>1
  <2> QED
    BY <1>3, <1>4, <1>7, <2>2
<1> QED
  BY <1>5, <1>6, <1>7

(* Amounts a script has decoded are those in silver, and the treasury transfers in gold *)
(* are among those the smoke script has counted (SamplesAgree).                         *)
THEOREM DecodersAgree == Spec => []SamplesAgree
<1>1. IInv => SamplesAgree
  <2> SUFFICES ASSUME IInv, sample # Null PROVE SamplesAgree
    BY DEF SamplesAgree
  <2>1. Window \in 1..Window
    BY HistoryFacts DEF SampleInv
  <2>2. ASSUME NEW a \in sample.amounts, NEW r \in silver, r.key = a.key,
               r.raw_amount_decimal # Null
        PROVE  /\ a.raw = r.raw_amount_decimal
               /\ Null \notin {a.amount, r.amount_usdt} /\ Len(r.text) <= Precision =>
                    a.amount = r.amount_usdt
    <3>1. PICK e \in Logs(Window) :
            /\ a.key = e.key /\ a.raw = e.data.value
            /\ a.amount \in {Null, amount_with_decimals(e.data.value)}
      BY DEF SampleInv
    <3>2. PICK o \in All : r = SilverRow(o)
      BY DEF SilverInv
    <3>3. e \in All /\ e \in ElementType /\ r.key = o.key
      BY <2>1, <3>1, <3>2, HistoryFacts DEF Logs, SilverRow
    <3>4. e = o
      BY <2>2, <3>1, <3>3 DEF HistoryInv
    <3>5. /\ r.raw_amount_decimal = e.data.value /\ r.amount_usdt \in {Null, e.data.value}
          /\ r.text = DecimalText[e.data.value] /\ e.data.value \in Nat
      BY <2>2, <3>2, <3>3, <3>4 DEF SilverRow, ElementType
    <3>6. Len(r.text) <= Precision => amount_with_decimals(e.data.value) = e.data.value
      BY <3>5, DivisionIsExact
    <3> QED
      BY <3>1, <3>5, <3>6
  <2>3. ASSUME sample.treasury # Null, TETHER_TREASURY_ADDRESS = Settings.treasury
        PROVE  SumFunction([f \in {f \in gold : f.window = Window} |-> f.transfer_count])
                 <= sample.treasury
    <3> DEFINE inflows == Counted(Window, "INFLOW")
               outflows == Counted(Window, "OUTFLOW")
               seen == {e \in TransferLogs :
                          e.topics # "few" /\ TETHER_TREASURY_ADDRESS \in {e.from, e.to}}
               fs == {f \in gold : f.window = Window}
               counts == [f \in fs |-> f.transfer_count]
    <3>1. sample.treasury = Cardinality(seen)
      BY <2>3 DEF SampleInv, count_treasury_samples
    <3>2. Settings = configs[Window]
      BY DEF Settings
    <3>3. inflows \cup outflows \subseteq seen /\ inflows \cap outflows = {}
      <4>1. ASSUME NEW dir \in Directions, NEW e \in Counted(Window, dir)
            PROVE  /\ e \in seen
                   /\ IF dir = "INFLOW" THEN e.to = Settings.treasury
                      ELSE e.from = Settings.treasury
                   /\ e.from # e.to
        BY <2>3, <3>2 DEF Counted, WellFormed, IsAmount, TransferLogs, Logs
      <4> QED
        BY <4>1 DEF Directions
    <3>4. /\ IsFiniteSet(inflows) /\ IsFiniteSet(outflows)
          /\ Cardinality(inflows) \in Nat /\ Cardinality(outflows) \in Nat
      BY <2>1, CountedFacts
    <3>5. Cardinality(inflows) + Cardinality(outflows) <= Cardinality(seen)
      <4>1. IsFiniteSet(seen)
        <5>1. seen \subseteq received[Window]
          BY DEF TransferLogs, Logs
        <5> QED
          BY <2>1, <5>1, HistoryFacts, FS_Subset
      <4> HIDE DEF inflows, outflows, seen
      <4>2. Cardinality(inflows \cup outflows) =
              Cardinality(inflows) + Cardinality(outflows) - Cardinality(inflows \cap outflows)
        BY <3>4, FS_Union
      <4>3. Cardinality(inflows \cap outflows) = 0
        BY <3>3, FS_EmptySet
      <4>4. Cardinality(inflows \cup outflows) <= Cardinality(seen)
        BY <3>3, <4>1, FS_Subset
      <4> QED
        BY <3>4, <4>2, <4>3, <4>4
    <3>6. /\ fs \subseteq {ExactFlow(Window, "INFLOW"), ExactFlow(Window, "OUTFLOW")}
          /\ ExactFlow(Window, "INFLOW").transfer_count = Cardinality(inflows)
          /\ ExactFlow(Window, "OUTFLOW").transfer_count = Cardinality(outflows)
      <4>1. ASSUME NEW f \in fs
            PROVE  \E dir \in Directions : f = ExactFlow(Window, dir)
        <5>1. PICK w \in 1..Window, dir \in Directions : f = ExactFlow(w, dir)
          BY DEF GoldInv
        <5>2. f.window = w /\ f.window = Window
          BY <5>1 DEF ExactFlow
        <5> QED
          BY <5>1, <5>2
      <4> QED
        BY <4>1 DEF ExactFlow, Directions
    <3> DEFINE a == ExactFlow(Window, "INFLOW")
               b == ExactFlow(Window, "OUTFLOW")
               m == Cardinality(inflows)
               n == Cardinality(outflows)
    <3>7. /\ fs \subseteq {a, b} /\ a.transfer_count = m /\ b.transfer_count = n
          /\ m \in Nat /\ n \in Nat
      BY <3>4, <3>6
    <3> HIDE DEF a, b, m, n, fs
    <3>8. /\ counts \in [fs -> Nat]
          /\ a \in fs => counts[a] <= m
          /\ b \in fs => counts[b] <= n
      BY <3>7
    <3> HIDE DEF counts
    <3>9. SumFunction(counts) <= m + n
      BY <3>7, <3>8, CountsAdd
    <3>10. m + n <= Cardinality(seen) /\ Cardinality(seen) \in Int /\ SumFunction(counts) \in Int
      <4>1. IsFiniteSet(seen)
        <5>1. seen \subseteq received[Window]
          BY DEF TransferLogs, Logs
        <5> QED
          BY <2>1, <5>1, HistoryFacts, FS_Subset
      <4>2. IsFiniteSet(fs)
        <5>1. IsFiniteSet({a}) /\ IsFiniteSet({a} \cup {b})
          BY FS_Singleton, FS_AddElement
        <5> QED
          BY <3>7, <5>1, FS_Subset
      <4>3. Cardinality(seen) \in Nat
        BY <4>1, FS_CardinalityType
      <4>4. SumFunction(counts) \in Nat
        BY <3>8, <4>2, SumInNat
      <4> QED
        BY <3>5, <4>3, <4>4 DEF m, n
    <3> QED
      BY <3>1, <3>7, <3>9, <3>10 DEF counts, fs
  <2> QED
    BY <2>2, <2>3 DEF SamplesAgree
<1> QED
  BY <1>1, RowPathInvariant, PTL

===============================================================================
