--------------------------- MODULE JournalReadersProofs ---------------------------
(***************************************************************************)
(* Theorems about the readers of a growing journal, for any rounds,        *)
(* records, pages, blocks, requests and Agents.                            *)
(***************************************************************************)
EXTENDS JournalReadersProps, SequenceTheorems, FiniteSetTheorems, WellFoundedInduction, TLAPS

-----------------------------------------------------------------------------
\* Induction over a set of numbers, and the functions defined by recursion.

LEMMA LeastNumber ==
  ASSUME NEW T, T \subseteq Nat, T # {}
  PROVE  \E n \in T : \A m \in T : n <= m
<1> DEFINE R == OpToRel(<, Nat)
<1>1. IsWellFoundedOn(R, Nat)
  BY NatLessThanWellFounded
<1>2. \A a, b \in Nat : a < b => <<a, b>> \in R
  BY DEF OpToRel
<1> HIDE DEF R
<1>3. PICK x \in T : \A y \in T : ~ (<<y, x>> \in R)
  BY <1>1, WFMin
<1>4. \A m \in T : x <= m
  <2> TAKE m \in T
  <2>1. m \in Nat /\ x \in Nat /\ <<m, x>> \notin R
    BY <1>3
  <2> QED BY <2>1, <1>2
<1> QED BY <1>4

LEMMA NumbersUpTo ==
  ASSUME NEW N \in Nat, NEW S, 0 \in S, \A n \in 1..N : n - 1 \in S => n \in S
  PROVE  0..N \subseteq S
<1> SUFFICES ASSUME ~ (0..N \subseteq S) PROVE FALSE
  OBVIOUS
<1> DEFINE T == (0..N) \ S
<1>1. T \subseteq Nat /\ T # {}
  OBVIOUS
<1>2. PICK n \in T : \A m \in T : n <= m
  <2> HIDE DEF T
  <2> QED BY <1>1, LeastNumber
<1>3. n \in 1..N /\ n - 1 \in 0..N
  BY <1>2
<1>4. n - 1 \in S
  BY <1>2, <1>3
<1> QED BY <1>2, <1>3, <1>4

\* Maps between values of V, one per element of E.
Maps(E, V) == [E -> [V -> V]]

\* A value of V per number, each made of the one before by the function step.
Recursion(f, N, first, step) == f = [n \in 0..N |-> IF n = 0 THEN first ELSE step[n][f[n - 1]]]

LEMMA RecursionExists ==
  ASSUME NEW N \in Nat, NEW V, NEW first \in V, NEW step \in Maps(1..N, V)
  PROVE  \E f \in [0..N -> V] : Recursion(f, N, first, step)
<1> DEFINE Good(m, f) == /\ f \in [0..m -> V] /\ f[0] = first
                         /\ \A n \in 1..m : f[n] = step[n][f[n - 1]]
           S == {m \in 0..N : \E f : Good(m, f)}
<1>1. 0 \in S
  <2>1. Good(0, [n \in 0..0 |-> first])
    OBVIOUS
  <2> HIDE DEF Good
  <2> QED BY <2>1
<1>2. ASSUME NEW m \in 1..N, m - 1 \in S
      PROVE  m \in S
  <2>1. PICK f : Good(m - 1, f)
    BY <1>2
  <2> DEFINE g == [n \in 0..m |-> IF n = m THEN step[m][f[m - 1]] ELSE f[n]]
  <2>2. f[m - 1] \in V /\ step[m][f[m - 1]] \in V
    BY <2>1 DEF Maps
  <2>3. g \in [0..m -> V] /\ g[0] = first
    BY <2>1, <2>2
  <2>4. ASSUME NEW n \in 1..m
        PROVE  g[n] = step[n][g[n - 1]]
    <3>1. g[n - 1] = f[n - 1]
      OBVIOUS
    <3>2. CASE n = m
      BY <3>1, <3>2
    <3>3. CASE n # m
      <4>1. n \in 1..(m - 1) /\ g[n] = f[n]
        BY <3>3
      <4> QED BY <2>1, <3>1, <4>1
    <3> QED BY <3>2, <3>3
  <2>5. Good(m, g)
    <3> HIDE DEF g
    <3> QED BY <2>3, <2>4
  <2> HIDE DEF Good, g
  <2> QED BY <2>5
<1>3. N \in S
  <2>1. \A m \in 1..N : m - 1 \in S => m \in S
    BY <1>2
  <2>2. 0..N \subseteq S
    <3> HIDE DEF S
    <3> QED BY <1>1, <2>1, NumbersUpTo
  <2> QED BY <2>2
<1>4. PICK f : Good(N, f)
  BY <1>3
<1> DEFINE g == [n \in 0..N |-> IF n = 0 THEN first ELSE step[n][f[n - 1]]]
<1>5. f = g
  <2>1. \A n \in 0..N : f[n] = g[n]
    BY <1>4
  <2>2. f = [n \in 0..N |-> f[n]] /\ g = [n \in 0..N |-> g[n]]
    BY <1>4
  <2> HIDE DEF g
  <2> QED BY <2>1, <2>2
<1> QED BY <1>4, <1>5 DEF Recursion

LEMMA RecursionIs ==
  ASSUME NEW N \in Nat, NEW V, NEW first \in V, NEW step \in Maps(1..N, V),
         NEW f, Recursion(f, N, first, step),
         NEW d, d[0] = first, \A n \in 1..N : d[n - 1] \in V => d[n] = step[n][d[n - 1]]
  PROVE  \A n \in 0..N : d[n] = f[n] /\ d[n] \in V
<1> DEFINE S == {n \in 0..N : d[n] = f[n] /\ d[n] \in V}
           g == [n \in 0..N |-> IF n = 0 THEN first ELSE step[n][f[n - 1]]]
<1>1. g[0] = first /\ \A n \in 1..N : g[n] = step[n][f[n - 1]]
  OBVIOUS
<1>2. f = g
  BY DEF Recursion
<1>3. f[0] = first /\ \A n \in 1..N : f[n] = step[n][f[n - 1]]
  <2> HIDE DEF g
  <2> QED BY <1>1, <1>2
<1>4. 0 \in S
  BY <1>3
<1>5. ASSUME NEW n \in 1..N, n - 1 \in S
      PROVE  n \in S
  BY <1>3, <1>5 DEF Maps
<1>6. 0..N \subseteq S
  <2>1. \A n \in 1..N : n - 1 \in S => n \in S
    BY <1>5
  <2> HIDE DEF S
  <2> QED BY <1>4, <2>1, NumbersUpTo
<1> QED BY <1>6

\* The values a sequence of elements makes, one by one.
Steps(s, step) == [n \in 1..Len(s) |-> step[s[n]]]
Folds(f, s, first, step) == Recursion(f, Len(s), first, Steps(s, step))
Fold(s, first, step) == (CHOOSE f : Folds(f, s, first, step))[Len(s)]

LEMMA FoldSteps ==
  ASSUME NEW E, NEW V, NEW step \in Maps(E, V), NEW s \in Seq(E), NEW first \in V
  PROVE  \E f \in [0..Len(s) -> V] :
           /\ Folds(f, s, first, step) /\ Fold(s, first, step) = f[Len(s)]
           /\ f[0] = first /\ \A n \in 1..Len(s) : f[n] = step[s[n]][f[n - 1]]
<1> DEFINE N == Len(s)
           g == Steps(s, step)
<1>1. N \in Nat /\ \A n \in 1..N : s[n] \in E
  OBVIOUS
<1>2. g \in Maps(1..N, V) /\ \A n \in 1..N : g[n] = step[s[n]]
  BY <1>1 DEF Steps, Maps
<1> HIDE DEF g
<1>3. PICK h \in [0..N -> V] : Recursion(h, N, first, g)
  <2> HIDE DEF N
  <2> QED BY <1>1, <1>2, RecursionExists
<1> DEFINE f == CHOOSE x : Folds(x, s, first, step)
<1>4. Folds(h, s, first, step)
  BY <1>3 DEF Folds, g
<1>5. Folds(f, s, first, step)
  BY <1>4
<1> HIDE DEF f
<1>6. f = [n \in 0..N |-> IF n = 0 THEN first ELSE g[n][f[n - 1]]]
  BY <1>5 DEF Folds, Recursion, g
<1>7. f[0] = first /\ \A n \in 1..N : f[n] = g[n][f[n - 1]]
  <2> DEFINE x == [n \in 0..N |-> IF n = 0 THEN first ELSE g[n][f[n - 1]]]
  <2>1. x[0] = first /\ \A n \in 1..N : x[n] = g[n][f[n - 1]]
    BY <1>1
  <2>2. f = x
    BY <1>6
  <2> HIDE DEF x
  <2> QED BY <2>1, <2>2
<1>8. \A n \in 0..N : f[n] \in V
  <2>1. Recursion(f, N, first, g)
    BY <1>6 DEF Recursion
  <2> HIDE DEF N
  <2> QED BY <1>1, <1>2, <1>7, <2>1, RecursionIs
<1>9. f \in [0..N -> V]
  <2> DEFINE x == [n \in 0..N |-> IF n = 0 THEN first ELSE g[n][f[n - 1]]]
  <2>1. x = [n \in 0..N |-> x[n]]
    OBVIOUS
  <2>2. f = x
    BY <1>6
  <2> HIDE DEF x
  <2>3. f = [n \in 0..N |-> f[n]]
    BY <2>1, <2>2
  <2> QED BY <2>3, <1>8
<1>10. Fold(s, first, step) = f[Len(s)]
  BY DEF Fold, f
<1> QED BY <1>2, <1>5, <1>7, <1>9, <1>10

\* What is folded like a recursion is its fold.
LEMMA FoldIs ==
  ASSUME NEW E, NEW V, NEW step \in Maps(E, V), NEW s \in Seq(E), NEW first \in V,
         NEW d, d[0] = first, \A n \in 1..Len(s) : d[n - 1] \in V => d[n] = step[s[n]][d[n - 1]]
  PROVE  d[Len(s)] = Fold(s, first, step)
<1>1. PICK f \in [0..Len(s) -> V] :
        /\ Folds(f, s, first, step) /\ Fold(s, first, step) = f[Len(s)]
        /\ f[0] = first /\ \A n \in 1..Len(s) : f[n] = step[s[n]][f[n - 1]]
  BY FoldSteps
<1> DEFINE N == Len(s)
           g == Steps(s, step)
<1>2. N \in Nat /\ \A n \in 1..N : s[n] \in E
  OBVIOUS
<1>3. g \in Maps(1..N, V) /\ \A n \in 1..N : g[n] = step[s[n]]
  BY <1>2 DEF Steps, Maps
<1>4. Recursion(f, N, first, g)
  BY <1>1 DEF Folds
<1>5. \A n \in 1..N : d[n - 1] \in V => d[n] = g[n][d[n - 1]]
  BY <1>3
<1> HIDE DEF g
<1>6. \A n \in 0..N : d[n] = f[n]
  <2> HIDE DEF N
  <2> QED BY <1>2, <1>3, <1>4, <1>5, RecursionIs
<1> QED BY <1>1, <1>2, <1>6

LEMMA FoldFacts ==
  ASSUME NEW E, NEW V, NEW step \in Maps(E, V), NEW s \in Seq(E), NEW first \in V
  PROVE  /\ Fold(s, first, step) \in V
         /\ Fold(<<>>, first, step) = first
         /\ \A e \in E : Fold(Append(s, e), first, step) = step[e][Fold(s, first, step)]
<1>1. PICK f \in [0..Len(s) -> V] :
        /\ Folds(f, s, first, step) /\ Fold(s, first, step) = f[Len(s)]
        /\ f[0] = first /\ \A n \in 1..Len(s) : f[n] = step[s[n]][f[n - 1]]
  BY FoldSteps
<1>2. Fold(s, first, step) \in V
  BY <1>1
<1>3. Fold(<<>>, first, step) = first
  <2>1. <<>> \in Seq(E) /\ Len(<<>>) = 0
    OBVIOUS
  <2>2. PICK x \in [0..0 -> V] : Fold(<<>>, first, step) = x[0] /\ x[0] = first
    BY <2>1, FoldSteps
  <2> QED BY <2>2
<1>4. ASSUME NEW e \in E
      PROVE  Fold(Append(s, e), first, step) = step[e][Fold(s, first, step)]
  <2> DEFINE t == Append(s, e)
  <2>1. t \in Seq(E) /\ Len(t) = Len(s) + 1 /\ t[Len(s) + 1] = e /\ Len(s) \in Nat
        /\ \A n \in 1..Len(s) : t[n] = s[n]
    OBVIOUS
  <2>2. PICK h \in [0..Len(t) -> V] :
          /\ Folds(h, t, first, step) /\ Fold(t, first, step) = h[Len(t)]
          /\ h[0] = first /\ \A n \in 1..Len(t) : h[n] = step[t[n]][h[n - 1]]
    <3>1. t \in Seq(E)
      BY <2>1
    <3> HIDE DEF t
    <3> QED BY <3>1, FoldSteps, SMTT(30)
  <2> HIDE DEF t
  <2>3. h[Len(s)] = Fold(s, first, step)
    <3>1. \A n \in 1..Len(s) : h[n] = step[s[n]][h[n - 1]]
      BY <2>1, <2>2
    <3>2. h[0] = first
      BY <2>2
    <3> QED BY <3>1, <3>2, FoldIs, SMTT(40)
  <2>4. h[Len(s) + 1] = step[e][h[Len(s)]]
    BY <2>1, <2>2
  <2> QED BY <2>1, <2>2, <2>3, <2>4 DEF t
<1> QED BY <1>2, <1>3, <1>4

LEMMA FoldConcat ==
  ASSUME NEW E, NEW V, NEW step \in Maps(E, V), NEW s \in Seq(E), NEW t \in Seq(E), NEW first \in V
  PROVE  Fold(s \o t, first, step) = Fold(t, Fold(s, first, step), step)
<1>1. PICK f \in [0..Len(s \o t) -> V] :
        /\ Folds(f, s \o t, first, step) /\ Fold(s \o t, first, step) = f[Len(s \o t)]
        /\ f[0] = first /\ \A n \in 1..Len(s \o t) : f[n] = step[(s \o t)[n]][f[n - 1]]
  BY FoldSteps, ConcatProperties, SMTT(40)
<1>2. /\ Len(s) \in Nat /\ Len(t) \in Nat /\ Len(s \o t) = Len(s) + Len(t)
      /\ \A n \in 1..Len(s) : (s \o t)[n] = s[n]
      /\ \A n \in 1..Len(t) : (s \o t)[Len(s) + n] = t[n]
  OBVIOUS
<1>3. f[Len(s)] = Fold(s, first, step)
  <2>1. \A n \in 1..Len(s) : f[n] = step[s[n]][f[n - 1]]
    BY <1>1, <1>2
  <2> DEFINE x == [n \in 0..Len(s) |-> f[n]]
  <2>2. x[0] = first /\ x[Len(s)] = f[Len(s)]
    BY <1>1, <1>2
  <2>3. \A n \in 1..Len(s) : x[n] = step[s[n]][x[n - 1]]
    BY <1>2, <2>1
  <2> HIDE DEF x
  <2> QED BY <2>2, <2>3, FoldIs
<1> DEFINE h == [n \in 0..Len(t) |-> f[Len(s) + n]]
<1>4. h[0] = f[Len(s)] /\ h[Len(t)] = f[Len(s \o t)]
  BY <1>2
<1>5. \A n \in 1..Len(t) : h[n] = step[t[n]][h[n - 1]]
  <2> TAKE n \in 1..Len(t)
  <2>1. Len(s) + n \in 1..Len(s \o t) /\ (Len(s) + n) - 1 = Len(s) + (n - 1) /\ n \in 0..Len(t) /\ n - 1 \in 0..Len(t)
    BY <1>2
  <2>2. f[Len(s) + n] = step[(s \o t)[Len(s) + n]][f[Len(s) + (n - 1)]]
    BY <1>1, <2>1
  <2> QED BY <1>2, <2>1, <2>2
<1> HIDE DEF h
<1>6. f[Len(s)] \in V
  BY <1>1, <1>2
<1>7. h[Len(t)] = Fold(t, f[Len(s)], step)
  BY <1>4, <1>5, <1>6, FoldIs
<1> QED BY <1>1, <1>3, <1>4, <1>7

-----------------------------------------------------------------------------
\* The journals.

\* What is decoded, as a fold.
Logs == Seq(Records)
DecodeStep == [r \in Records |-> [v \in Logs |-> IF r.type = "torn" THEN v ELSE Append(v, r)]]
DecodesBy(records, d) ==
  d = [n \in 0..Len(records) |-> IF n = 0 THEN <<>>
                                 ELSE IF records[n].type = "torn" THEN d[n - 1]
                                 ELSE Append(d[n - 1], records[n])]

LEMMA DecodeStepType == DecodeStep \in Maps(Records, Logs) /\ <<>> \in Logs
<1>1. \A r \in Records, v \in Seq(Records) : (IF r.type = "torn" THEN v ELSE Append(v, r)) \in Seq(Records)
  OBVIOUS
<1> QED BY <1>1 DEF DecodeStep, Maps, Logs

LEMMA DecodedIsFold ==
  ASSUME NEW records \in Seq(Records)
  PROVE  Decoded(records) = Fold(records, <<>>, DecodeStep)
<1>1. PICK f \in [0..Len(records) -> Logs] :
        /\ Folds(f, records, <<>>, DecodeStep) /\ Fold(records, <<>>, DecodeStep) = f[Len(records)]
        /\ f[0] = <<>> /\ \A n \in 1..Len(records) : f[n] = DecodeStep[records[n]][f[n - 1]]
  BY DecodeStepType, FoldSteps
<1>2. Len(records) \in Nat /\ \A n \in 1..Len(records) : records[n] \in Records
  OBVIOUS
<1>3. \A r \in Records, v \in Logs : DecodeStep[r][v] = IF r.type = "torn" THEN v ELSE Append(v, r)
  BY DEF DecodeStep
<1>4. DecodesBy(records, f)
  <2> DEFINE g == [n \in 0..Len(records) |-> IF n = 0 THEN <<>>
                                 ELSE IF records[n].type = "torn" THEN f[n - 1]
                                 ELSE Append(f[n - 1], records[n])]
  <2>1. ASSUME NEW n \in 0..Len(records)
        PROVE  f[n] = g[n]
    <3>1. CASE n = 0
      BY <1>1, <3>1
    <3>2. CASE n # 0
      <4>1. n \in 1..Len(records) /\ n - 1 \in 0..Len(records)
        BY <1>2, <3>2
      <4>2. f[n - 1] \in Logs /\ records[n] \in Records /\ f[n] = DecodeStep[records[n]][f[n - 1]]
        BY <1>1, <1>2, <4>1
      <4> QED BY <1>3, <3>2, <4>2
    <3> QED BY <3>1, <3>2
  <2>2. f = [n \in 0..Len(records) |-> f[n]] /\ g = [n \in 0..Len(records) |-> g[n]]
    BY <1>1
  <2>3. f = g
    <3> HIDE DEF g
    <3> QED BY <2>1, <2>2
  <2> QED BY <2>3 DEF DecodesBy
<1> DEFINE d == CHOOSE x : DecodesBy(records, x)
<1>5. Decoded(records) = d[Len(records)]
  BY DEF Decoded, DecodesBy
<1>6. DecodesBy(records, d)
  BY <1>4
<1> HIDE DEF d
<1>7. /\ d[0] = <<>>
      /\ \A n \in 1..Len(records) : d[n] = IF records[n].type = "torn" THEN d[n - 1] ELSE Append(d[n - 1], records[n])
  <2> DEFINE g == [n \in 0..Len(records) |-> IF n = 0 THEN <<>>
                                 ELSE IF records[n].type = "torn" THEN d[n - 1]
                                 ELSE Append(d[n - 1], records[n])]
  <2>1. /\ g[0] = <<>>
        /\ \A n \in 1..Len(records) : g[n] = IF records[n].type = "torn" THEN d[n - 1] ELSE Append(d[n - 1], records[n])
    BY <1>2
  <2>2. d = g
    BY <1>6 DEF DecodesBy
  <2> HIDE DEF g
  <2> QED BY <2>1, <2>2
<1>8. \A n \in 1..Len(records) : d[n - 1] \in Logs => d[n] = DecodeStep[records[n]][d[n - 1]]
  BY <1>2, <1>3, <1>7
<1>9. d[Len(records)] = Fold(records, <<>>, DecodeStep)
  <2>1. d[0] = <<>>
    BY <1>7
  <2> QED BY <1>8, <2>1, DecodeStepType, FoldIs
<1> QED BY <1>5, <1>9

LEMMA DecodedFacts ==
  ASSUME NEW records \in Seq(Records)
  PROVE  /\ Decoded(records) \in Seq(Records) /\ Decoded(<<>>) = <<>>
         /\ \A r \in Records : Decoded(Append(records, r)) = IF r.type = "torn" THEN Decoded(records)
                                                            ELSE Append(Decoded(records), r)
<1>1. Decoded(records) = Fold(records, <<>>, DecodeStep) /\ Decoded(<<>>) = Fold(<<>>, <<>>, DecodeStep)
  <2>1. \A s \in Seq(Records) : Decoded(s) = Fold(s, <<>>, DecodeStep)
    BY DecodedIsFold
  <2>2. <<>> \in Seq(Records)
    OBVIOUS
  <2> QED BY <2>1, <2>2, Zenon
<1>2. Decoded(records) \in Logs /\ Decoded(<<>>) = <<>>
  BY <1>1, DecodeStepType, FoldFacts
<1>3. ASSUME NEW r \in Records
      PROVE  Decoded(Append(records, r)) = IF r.type = "torn" THEN Decoded(records)
                                           ELSE Append(Decoded(records), r)
  <2>1. Append(records, r) \in Seq(Records)
    OBVIOUS
  <2>2. Decoded(Append(records, r)) = Fold(Append(records, r), <<>>, DecodeStep)
    BY <2>1, DecodedIsFold
  <2>3. Decoded(Append(records, r)) = DecodeStep[r][Decoded(records)]
    BY <1>1, <2>2, DecodeStepType, FoldFacts
  <2> QED BY <1>2, <2>3 DEF DecodeStep
<1> QED BY <1>2, <1>3 DEF Logs

\* Its length, and what is decoded of two parts.
LEMMA DecodedLength ==
  ASSUME NEW records \in Seq(Records)
  PROVE  Len(Decoded(records)) <= Len(records)
<1> DEFINE S == {n \in 0..Len(records) : Len(Decoded(SubSeq(records, 1, n))) <= n}
<1>1. 0 \in S
  <2> DEFINE s == SubSeq(records, 1, 0)
  <2>1. s = <<>>
    BY SubSeqEmpty
  <2>2. Decoded(<<>>) = <<>> /\ Len(<<>>) = 0 /\ Len(records) \in Nat
    BY DecodedFacts, SMTT(40)
  <2> HIDE DEF s
  <2>3. Len(Decoded(s)) <= 0
    BY <2>1, <2>2
  <2> QED BY <2>2, <2>3 DEF s
<1>2. ASSUME NEW n \in 1..Len(records), n - 1 \in S
      PROVE  n \in S
  <2> DEFINE s == SubSeq(records, 1, n - 1)
  <2>1. s \in Seq(Records) /\ SubSeq(records, 1, n) = Append(s, records[n]) /\ records[n] \in Records
    OBVIOUS
  <2>2. Len(Decoded(s)) <= n - 1
    BY <1>2
  <2> HIDE DEF s
  <2>3. Decoded(s) \in Seq(Records) /\ Decoded(Append(s, records[n])) \in {Decoded(s), Append(Decoded(s), records[n])}
    BY <2>1, DecodedFacts
  <2>4. Len(Decoded(Append(s, records[n]))) <= n
    BY <2>1, <2>2, <2>3
  <2>5. Len(Decoded(SubSeq(records, 1, n))) <= n
    BY <2>1, <2>4
  <2> QED BY <2>5
<1>3. Len(records) \in S
  <2>1. \A n \in 1..Len(records) : n - 1 \in S => n \in S
    BY <1>2
  <2>2. Len(records) \in Nat
    OBVIOUS
  <2> HIDE DEF S
  <2>3. 0..Len(records) \subseteq S
    BY <1>1, <2>1, <2>2, NumbersUpTo
  <2> QED BY <2>2, <2>3
<1>4. SubSeq(records, 1, Len(records)) = records
  BY SubSeqFull
<1> QED BY <1>3, <1>4

-----------------------------------------------------------------------------
\* The files and the run, as every reader finds them.

FileInv ==
  /\ FileTypeOK /\ \A k \in Attempts : Len(journal[k]) <= MaxRecords
  /\ partial # None => status \in Active /\ Len(journal[cur]) < MaxRecords
  /\ status # "idle" => cur # 0
  /\ status = "idle" => deltas = <<>>

\* A journal that can be found grows behind what it holds.
Grows ==
  /\ cur' \in cur..2
  /\ \A k \in 1..cur : /\ Len(journal[k]) <= Len(journal'[k])
                       /\ \A n \in 1..Len(journal[k]) : journal'[k][n] = journal[k][n]

\* The stream events of a run grow until its host or the run is gone.
DeltasGrow == cur' # cur \/ status' = "idle" \/ (status # "idle" /\ Len(deltas) <= Len(deltas'))

FileMoves == Writer(Written, Streamed) \/ HostDies \/ UNCHANGED file

LEMMA FileTypes ==
  /\ None \in Records /\ Written \subseteq Types /\ Streamed \subseteq Rounds
  /\ \A type \in Types, r \in Rounds : Record(type, r) \in Records
  /\ Record("start", None.round) \in Records /\ Record("end", None.round) \in Records
<1>1. (CHOOSE r \in Rounds : TRUE) \in Rounds
  BY JournalConstants
<1>2. None \in Records /\ None.round \in Rounds
  BY <1>1 DEF None, Records
<1>3. "start" \in Types /\ "end" \in Types
  BY DEF Types
<1>4. \A type \in Types, r \in Rounds : Record(type, r) \in Records
  BY DEF Record, Records
<1>5. Written \subseteq Types /\ Streamed \subseteq Rounds
  BY DEF Written, Streamed, Types, CallFacts, SteerFacts
<1> QED BY <1>2, <1>3, <1>4, <1>5

LEMMA FileStart == FileInit => FileInv
<1>1. None \in Records
  BY FileTypes
<1> QED BY <1>1, JournalConstants DEF FileInit, FileInv, FileTypeOK, Attempts, Active

\* A record behind the others of the newest attempt.
LEMMA AppendStep ==
  ASSUME FileInv, NEW r \in Records, cur # 0, Len(journal[cur]) < MaxRecords,
         journal' = [journal EXCEPT ![cur] = Append(@, r)], cur' = cur
  PROVE  /\ journal' \in [Attempts -> Seq(Records)] /\ Grows
         /\ \A k \in Attempts : Len(journal'[k]) <= MaxRecords
<1>1. cur \in Attempts /\ journal \in [Attempts -> Seq(Records)] /\ MaxRecords \in Nat
  BY JournalConstants DEF FileInv, FileTypeOK
<1>2. /\ journal[cur] \in Seq(Records) /\ Append(journal[cur], r) \in Seq(Records)
      /\ Len(Append(journal[cur], r)) = Len(journal[cur]) + 1 /\ Len(journal[cur]) \in Nat
      /\ \A n \in 1..Len(journal[cur]) : Append(journal[cur], r)[n] = journal[cur][n]
  BY <1>1
<1>3. \A k \in Attempts : journal'[k] = IF k = cur THEN Append(journal[cur], r) ELSE journal[k]
  BY <1>1
<1>4. journal' \in [Attempts -> Seq(Records)]
  BY <1>1, <1>2
<1>5. ASSUME NEW k \in Attempts
      PROVE  /\ Len(journal[k]) <= Len(journal'[k]) /\ Len(journal'[k]) <= MaxRecords
             /\ \A n \in 1..Len(journal[k]) : journal'[k][n] = journal[k][n]
  <2>1. journal[k] \in Seq(Records) /\ Len(journal[k]) \in Nat /\ Len(journal[k]) <= MaxRecords
    BY <1>1 DEF FileInv
  <2> QED BY <1>1, <1>2, <1>3, <2>1
<1>6. 1..cur \subseteq Attempts /\ cur \in cur..2
  BY <1>1 DEF Attempts
<1> QED BY <1>4, <1>5, <1>6 DEF Grows

LEMMA FileStep ==
  ASSUME FileInv, FileMoves
  PROVE  FileInv' /\ Grows /\ DeltasGrow
<1> USE DEF FileInv, FileTypeOK, Active
<1>1. /\ journal \in [Attempts -> Seq(Records)] /\ cur \in {0, 1, 2} /\ deltas \in Seq(Rounds)
      /\ Attempts = {1, 2} /\ MaxRecords \in Nat \ {0} /\ None \in Records
  BY JournalConstants, FileTypes DEF Attempts
<1>2. ASSUME UNCHANGED <<journal, cur>>
      PROVE  /\ journal' \in [Attempts -> Seq(Records)] /\ Grows
             /\ \A k \in Attempts : Len(journal'[k]) <= MaxRecords
  <2>1. \A k \in Attempts : Len(journal[k]) \in Nat
    BY <1>1
  <2>2. 1..cur \subseteq Attempts
    BY <1>1
  <2> QED BY <1>1, <1>2, <2>1, <2>2 DEF Grows
<1>3. CASE HostDies
  <2>1. (IF partial # None THEN None ELSE Record("end", None.round)) \in Records
    BY FileTypes
  <2>2. /\ journal' \in [Attempts -> Seq(Records)] /\ Grows
        /\ \A k \in Attempts : Len(journal'[k]) <= MaxRecords
    BY <1>3, <2>1, AppendStep DEF HostDies
  <2> QED BY <1>1, <1>3, <2>2 DEF HostDies, DeltasGrow
<1>4. CASE NextRun
  <2> DEFINE s == <<Record("start", None.round)>>
  <2>1. s \in Seq(Records) /\ Len(s) = 1
    BY FileTypes
  <2> HIDE DEF s
  <2>2. /\ cur + 1 \in Attempts /\ cur' = cur + 1 /\ journal' = [journal EXCEPT ![cur + 1] = s]
        /\ status' = "preparing" /\ deltas' = <<>> /\ partial' = partial /\ partial = None
    BY <1>1, <1>4 DEF NextRun, s
  <2>3. journal' \in [Attempts -> Seq(Records)] /\ \A k \in Attempts : Len(journal'[k]) <= MaxRecords
    <3>1. \A k \in Attempts : journal'[k] = IF k = cur + 1 THEN s ELSE journal[k]
      BY <1>1, <2>2
    <3>2. journal' = [k \in Attempts |-> IF k = cur + 1 THEN s ELSE journal[k]]
      BY <1>1, <2>2
    <3>3. journal' \in [Attempts -> Seq(Records)]
      BY <1>1, <2>1, <3>2
    <3>4. 1 <= MaxRecords
      BY <1>1
    <3> QED BY <2>1, <3>1, <3>3, <3>4
  <2>4. Grows
    <3>1. ASSUME NEW k \in 1..cur
          PROVE  journal'[k] = journal[k] /\ Len(journal[k]) \in Nat
      <4>1. k \in Attempts /\ k # cur + 1
        BY <1>1
      <4> QED BY <1>1, <2>2, <4>1
    <3> QED BY <1>1, <2>2, <3>1 DEF Grows
  <2> QED BY <1>1, <2>2, <2>3, <2>4 DEF DeltasGrow
<1>5. CASE RunActive
  <2>1. UNCHANGED <<journal, cur>>
    BY <1>5 DEF RunActive
  <2> QED BY <1>1, <1>2, <1>5, <2>1 DEF RunActive, DeltasGrow
<1>6. CASE AppendRest
  <2>1. /\ journal' \in [Attempts -> Seq(Records)] /\ Grows
        /\ \A k \in Attempts : Len(journal'[k]) <= MaxRecords
    BY <1>6, AppendStep DEF AppendRest
  <2> QED BY <1>1, <1>6, <2>1 DEF AppendRest, DeltasGrow
<1>7. CASE End
  <2>1. /\ journal' \in [Attempts -> Seq(Records)] /\ Grows
        /\ \A k \in Attempts : Len(journal'[k]) <= MaxRecords
    BY <1>7, FileTypes, AppendStep DEF End, Room
  <2> QED BY <1>1, <1>7, <2>1 DEF End, Room, DeltasGrow
<1>8. ASSUME NEW r \in Rounds, Publish(r)
      PROVE  FileInv' /\ Grows /\ DeltasGrow
  <2>1. UNCHANGED <<journal, cur>>
    BY <1>8 DEF Publish
  <2>2. Append(deltas, r) \in Seq(Rounds) /\ Len(Append(deltas, r)) = Len(deltas) + 1 /\ Len(deltas) \in Nat
    BY <1>1
  <2> QED BY <1>1, <1>2, <1>8, <2>1, <2>2 DEF Publish, DeltasGrow
<1>9. ASSUME NEW e \in Records, AppendSome(e)
      PROVE  FileInv' /\ Grows /\ DeltasGrow
  <2>1. UNCHANGED <<journal, cur>>
    BY <1>9 DEF AppendSome
  <2> QED BY <1>1, <1>2, <1>9, <2>1 DEF AppendSome, Room, DeltasGrow
<1>10. ASSUME NEW e \in Records, AppendWhole(e)
       PROVE  FileInv' /\ Grows /\ DeltasGrow
  <2>1. /\ journal' \in [Attempts -> Seq(Records)] /\ Grows
        /\ \A k \in Attempts : Len(journal'[k]) <= MaxRecords
    BY <1>10, AppendStep DEF AppendWhole, Room
  <2> QED BY <1>1, <1>10, <2>1 DEF AppendWhole, Room, DeltasGrow
<1>11. CASE UNCHANGED file
  <2>1. UNCHANGED <<journal, cur>>
    BY <1>11 DEF file
  <2> QED BY <1>1, <1>2, <1>11, <2>1 DEF file, DeltasGrow
<1> QED
  <2>1. CASE Writer(Written, Streamed)
    <3>1. NextRun \/ RunActive \/ AppendRest \/ End \/ (\E r \in Rounds : Publish(r))
          \/ \E e \in Records : AppendSome(e) \/ AppendWhole(e)
      BY <2>1, FileTypes DEF Writer
    <3> QED BY <1>4, <1>5, <1>6, <1>7, <1>8, <1>9, <1>10, <3>1
  <2> QED BY <1>3, <1>11, <2>1 DEF FileMoves

-----------------------------------------------------------------------------
\* The event stream.

Items == [kind : {"delta", "record"}, attempt : Attempts, n : Nat, round : Rounds]
Newest(i) == got[i].kind = "record" /\ \A m \in (i + 1)..Len(got) : ~Alike(got[i], got[m])

StreamInv ==
  /\ stream \in [pc : {"closed", "deltas", "page", "status"}, cursor : Nat, live : Nat]
  /\ got \in Seq(Items) /\ connections \in Nat
  /\ \A i \in 1..Len(got) : got[i].attempt <= cur
  /\ StreamInOrder
  \* The cursor is at the last record of the newest attempt, if there is one.
  /\ \A i \in 1..Len(got) : Newest(i) /\ got[i].attempt = cur => got[i].n = stream.cursor
  \* No delta of a run this host has is before the stream's.
  /\ \A i \in 1..Len(got) :
       got[i].kind = "delta" /\ got[i].attempt = cur /\ status # "idle" =>
         got[i].n <= stream.live /\ got[i].n <= Len(deltas)

LEMMA StreamStart == FileInit /\ StreamInit => StreamInv
<1> SUFFICES ASSUME FileInit, StreamInit PROVE StreamInv
  OBVIOUS
<1>1. got = <<>> /\ got \in Seq(Items) /\ Len(got) = 0
  BY DEF StreamInit
<1> QED BY <1>1 DEF StreamInit, StreamInv, StreamInOrder

LEMMA StreamFacts ==
  ASSUME FileInv, StreamInv
  PROVE  /\ stream.cursor \in Nat /\ stream.live \in Nat /\ Len(deltas) \in Nat /\ Len(got) \in Nat
         /\ cur \in {0, 1, 2} /\ deltas \in Seq(Rounds) /\ got \in Seq(Items)
         /\ \A i \in 1..Len(got) : got[i] \in Items /\ got[i].n \in Nat /\ got[i].attempt \in {1, 2}
         /\ (status = "idle" => Len(deltas) = 0) /\ (status # "idle" => cur \in Attempts)
         /\ Attempts = {1, 2}
<1>1. got \in Seq(Items) /\ Attempts = {1, 2} /\ deltas \in Seq(Rounds) /\ cur \in {0, 1, 2}
  BY DEF StreamInv, FileInv, FileTypeOK, Attempts
<1>2. \A x \in Items : x.n \in Nat /\ x.attempt \in {1, 2}
  BY <1>1 DEF Items
<1>3. \A i \in 1..Len(got) : got[i] \in Items
  BY <1>1
<1> QED BY <1>1, <1>2, <1>3 DEF StreamInv, FileInv

\* Files that move leave the stream as it is, but for the program point.
LEMMA StreamWaits ==
  ASSUME FileInv, StreamInv, FileMoves, UNCHANGED <<got, connections>>,
         stream' \in {stream, [stream EXCEPT !.pc = "closed"]}
  PROVE  StreamInv'
<1>1. FileInv' /\ Grows /\ DeltasGrow
  BY FileStep
<1>2. /\ stream'.cursor = stream.cursor /\ stream'.live = stream.live
      /\ stream' \in [pc : {"closed", "deltas", "page", "status"}, cursor : Nat, live : Nat]
  BY DEF StreamInv
<1>3. \A i \in 1..Len(got) : got[i].attempt <= cur' /\ (got[i].attempt = cur' => cur' = cur)
  <2> TAKE i \in 1..Len(got)
  <2>1. got[i].attempt <= cur /\ cur' \in cur..2 /\ cur \in {0, 1, 2} /\ got[i].attempt \in {1, 2}
    BY <1>1, StreamFacts DEF StreamInv, Grows
  <2> QED BY <2>1
<1>4. StreamInOrder'
  <2>1. StreamInOrder /\ got' = got
    BY DEF StreamInv
  <2> QED BY <2>1 DEF StreamInOrder, Alike
<1>5. \A i \in 1..Len(got) : Newest(i)' => Newest(i)
  BY DEF Newest, Alike
<1>6. ASSUME NEW i \in 1..Len(got), got[i].kind = "delta", got[i].attempt = cur', status' # "idle"
      PROVE  got[i].n <= stream.live /\ got[i].n <= Len(deltas')
  <2>1. cur' = cur /\ status # "idle" /\ Len(deltas) <= Len(deltas') /\ deltas \in Seq(Rounds) /\ deltas' \in Seq(Rounds)
    BY <1>1, <1>3, <1>6 DEF DeltasGrow, FileInv, FileTypeOK
  <2>2. got[i].n <= Len(deltas) /\ got[i].n <= stream.live /\ got[i].n \in Nat
    BY <1>6, <2>1, StreamFacts DEF StreamInv
  <2> QED BY <2>1, <2>2
<1>7. \A i \in 1..Len(got) : Newest(i)' /\ got[i].attempt = cur' => got[i].n = stream.cursor
  BY <1>3, <1>5 DEF StreamInv
<1> QED BY <1>2, <1>3, <1>4, <1>6, <1>7 DEF StreamInv

LEMMA ConnectStep ==
  ASSUME FileInv, StreamInv, NEW fresh \in BOOLEAN, Connect(fresh)
  PROVE  StreamInv'
<1>1. /\ UNCHANGED <<journal, partial, cur, status, deltas>>
      /\ stream' = [pc |-> "deltas", cursor |-> IF fresh THEN 0 ELSE stream.cursor, live |-> Len(deltas)]
      /\ got' = IF fresh THEN <<>> ELSE got
      /\ connections' = connections + 1
  BY DEF Connect, file
<1>2. Len(deltas) \in Nat /\ connections' \in Nat
  BY <1>1 DEF FileInv, FileTypeOK, StreamInv
<1>3. CASE fresh
  <2>1. got' = <<>> /\ got' \in Seq(Items) /\ Len(got') = 0
    BY <1>1, <1>3
  <2> QED BY <1>1, <1>2, <1>3, <2>1 DEF StreamInv, StreamInOrder
<1>4. CASE ~fresh
  <2>1. got' = got /\ stream'.cursor = stream.cursor /\ stream'.live = Len(deltas)
    BY <1>1, <1>4
  <2>2. stream' \in [pc : {"closed", "deltas", "page", "status"}, cursor : Nat, live : Nat]
    BY <1>1, <1>2, <1>4 DEF StreamInv
  <2>3. StreamInOrder'
    <3>1. StreamInOrder
      BY DEF StreamInv
    <3> QED BY <2>1, <3>1 DEF StreamInOrder, Alike
  <2>4. \A i \in 1..Len(got) : Newest(i)' => Newest(i)
    BY <2>1 DEF Newest, Alike
  <2>5. \A i \in 1..Len(got') : got'[i].attempt <= cur'
    BY <1>1, <2>1 DEF StreamInv
  <2>6. \A i \in 1..Len(got') : Newest(i)' /\ got'[i].attempt = cur' => got'[i].n = stream'.cursor
    BY <1>1, <2>1, <2>4 DEF StreamInv
  <2>7. \A i \in 1..Len(got') : got'[i].kind = "delta" /\ got'[i].attempt = cur' /\ status' # "idle" =>
                                 got'[i].n <= stream'.live /\ got'[i].n <= Len(deltas')
    BY <1>1, <2>1 DEF StreamInv
  <2>8. got' \in Seq(Items)
    BY <2>1 DEF StreamInv
  <2> QED BY <1>2, <2>2, <2>3, <2>5, <2>6, <2>7, <2>8 DEF StreamInv
<1> QED BY <1>3, <1>4

LEMMA DrainStep ==
  ASSUME FileInv, StreamInv, Drain
  PROVE  StreamInv'
<1> DEFINE count == IF Len(deltas) > stream.live THEN Len(deltas) - stream.live ELSE 0
           new == [i \in 1..count |-> Delta(stream.live + i)]
<1>1. /\ UNCHANGED <<journal, partial, cur, status, deltas, connections>> /\ got' = got \o new
      /\ stream'.cursor = stream.cursor /\ stream'.live = stream.live + count
      /\ stream' \in [pc : {"closed", "deltas", "page", "status"}, cursor : Nat, live : Nat]
  <2>1. Len(deltas) \in Nat /\ stream.live \in Nat /\ stream.cursor \in Nat
    BY StreamFacts
  <2>2. /\ UNCHANGED <<journal, partial, cur, status, deltas, connections>> /\ got' = got \o new
        /\ stream' = [stream EXCEPT !.pc = "page", !.live = IF Len(deltas) > @ THEN Len(deltas) ELSE @]
    BY DEF Drain, file
  <2>3. (IF Len(deltas) > stream.live THEN Len(deltas) ELSE stream.live) = stream.live + count /\ count \in Nat
    BY <2>1
  <2> HIDE DEF new, count
  <2> QED BY <2>1, <2>2, <2>3 DEF StreamInv
<1>2. /\ deltas \in Seq(Rounds) /\ Len(deltas) \in Nat /\ cur \in 0..2 /\ count \in Nat
      /\ stream.live \in Nat /\ stream.cursor \in Nat /\ got \in Seq(Items)
      /\ \A i \in 1..count : stream.live + i \in 1..Len(deltas)
  BY DEF FileInv, FileTypeOK, StreamInv, Attempts
<1>3. count > 0 => cur \in Attempts /\ status # "idle"
  <2>1. count > 0 => deltas # <<>>
    BY <1>2
  <2> QED BY <1>2, <2>1 DEF FileInv, Attempts
<1>4. \A i \in 1..count : /\ new[i] \in Items /\ new[i].kind = "delta" /\ new[i].attempt = cur
                          /\ new[i].n = stream.live + i
  BY <1>2, <1>3 DEF Delta, Items
<1>5. new \in Seq(Items) /\ Len(new) = count
  <2>1. new \in [1..count -> Items]
    BY <1>4
  <2> HIDE DEF new, count
  <2> QED BY <1>2, <2>1
<1> HIDE DEF new, count
<1>6. /\ got' \in Seq(Items) /\ Len(got') = Len(got) + count /\ Len(got) \in Nat
      /\ \A i \in 1..Len(got) : got'[i] = got[i] /\ got[i] \in Items
      /\ \A i \in 1..Len(got') : i > Len(got) => got'[i] = new[i - Len(got)] /\ i - Len(got) \in 1..count
  <2>1. got \in Seq(Items) /\ new \in Seq(Items) /\ got' = got \o new
    BY <1>1, <1>2, <1>5
  <2>2. /\ got' \in Seq(Items) /\ Len(got') = Len(got) + Len(new) /\ Len(got) \in Nat
        /\ \A i \in 1..(Len(got) + Len(new)) : got'[i] = IF i <= Len(got) THEN got[i] ELSE new[i - Len(got)]
    BY <2>1, ConcatProperties
  <2> QED BY <1>2, <1>5, <2>1, <2>2
<1>7. \A i \in 1..Len(got') : got'[i].attempt <= cur
  <2> TAKE i \in 1..Len(got')
  <2>1. CASE i <= Len(got)
    BY <1>6, <2>1 DEF StreamInv
  <2>2. CASE i > Len(got)
    <3>1. got'[i].attempt = cur
      BY <1>4, <1>6, <2>2
    <3> QED BY <1>2, <3>1
  <2> QED BY <1>6, <2>1, <2>2
<1>8. ASSUME NEW i \in 1..Len(got'), got'[i].kind = "delta", got'[i].attempt = cur, status # "idle"
      PROVE  got'[i].n <= stream.live + count /\ got'[i].n <= Len(deltas)
  <2>1. CASE i <= Len(got)
    <3>1. got[i].n <= stream.live /\ got[i].n <= Len(deltas) /\ got[i].n \in Nat /\ got'[i] = got[i]
      BY <1>6, <1>8, <2>1 DEF StreamInv, Items
    <3> QED BY <1>2, <3>1
  <2>2. CASE i > Len(got)
    <3>1. i - Len(got) \in 1..count /\ got'[i].n = stream.live + (i - Len(got)) /\ stream.live + (i - Len(got)) \in 1..Len(deltas)
      BY <1>2, <1>4, <1>6, <2>2
    <3> QED BY <1>2, <3>1, SMTT(30)
  <2> QED BY <1>6, <2>1, <2>2
<1>9. ASSUME NEW i \in 1..Len(got'), Newest(i)'
      PROVE  i <= Len(got) /\ Newest(i)
  <2>1. i <= Len(got)
    BY <1>4, <1>6, <1>9 DEF Newest
  <2>2. \A m \in (i + 1)..Len(got) : m \in (i + 1)..Len(got') /\ got'[m] = got[m]
    BY <1>2, <1>6
  <2> QED BY <1>6, <1>9, <2>1, <2>2 DEF Newest, Alike
<1>10. \A i \in 1..Len(got') : Newest(i)' /\ got'[i].attempt = cur => got'[i].n = stream.cursor
  BY <1>6, <1>9 DEF StreamInv
<1>11. StreamInOrder'
  <2> SUFFICES ASSUME NEW i \in 1..Len(got'), NEW j \in 1..Len(got'), i < j, Alike(got'[i], got'[j])
               PROVE  /\ got'[i].kind = "delta" => got'[i].n < got'[j].n
                      /\ /\ got'[i].kind = "record"
                         /\ \A m \in (i + 1)..(j - 1) : ~Alike(got'[i], got'[m])
                         => got'[j].n = got'[i].n + 1
    BY DEF StreamInOrder, Alike
  <2>1. CASE j <= Len(got)
    <3>1. \A m \in (i + 1)..(j - 1) : got'[m] = got[m]
      BY <1>6, <2>1
    <3>2. i \in 1..Len(got) /\ j \in 1..Len(got) /\ got'[i] = got[i] /\ got'[j] = got[j] /\ Alike(got[i], got[j])
      BY <1>6, <2>1
    <3>3. StreamInOrder
      BY DEF StreamInv
    <3> QED BY <3>1, <3>2, <3>3 DEF StreamInOrder
  <2>2. CASE j > Len(got)
    <3>1. got'[j].n = stream.live + (j - Len(got)) /\ got'[i].kind = "delta" /\ got'[i].attempt = cur /\ status # "idle"
      <4>1. j - Len(got) \in 1..count /\ got'[j] = new[j - Len(got)]
        BY <1>6, <2>2
      <4>2. count > 0
        BY <1>2, <4>1
      <4> QED BY <1>3, <1>4, <4>1, <4>2 DEF Alike
    <3>2. CASE i > Len(got)
      <4>1. got'[i].n = stream.live + (i - Len(got))
        BY <1>4, <1>6, <3>2
      <4>2. stream.live + (i - Len(got)) < stream.live + (j - Len(got))
        BY <1>2, <1>6, <3>2
      <4> QED BY <3>1, <4>1, <4>2
    <3>3. CASE i <= Len(got)
      <4>1. got[i].n <= stream.live /\ got[i].n \in Nat /\ got'[i] = got[i]
        BY <1>6, <3>1, <3>3, SMTT(40) DEF StreamInv, Items
      <4> QED BY <1>2, <1>6, <2>2, <3>1, <4>1, SMTT(40)
    <3> QED BY <1>6, <3>2, <3>3
  <2> QED BY <1>6, <2>1, <2>2
<1> QED BY <1>1, <1>6, <1>7, <1>8, <1>10, <1>11 DEF StreamInv

LEMMA PageStep ==
  ASSUME FileInv, StreamInv, Page
  PROVE  StreamInv'
<1> DEFINE behind == IF status = "idle" THEN 0 ELSE Len(Decoded(journal[cur]))
           count == IF behind <= stream.cursor THEN 0
                    ELSE IF behind - stream.cursor < PageLimit THEN behind - stream.cursor
                    ELSE PageLimit
           new == [i \in 1..count |-> RecordItem(stream.cursor + i)]
<1>1. status # "idle" => /\ journal[cur] \in Seq(Records)
                         /\ Decoded(journal[cur]) \in Seq(Records) /\ Len(Decoded(journal[cur])) \in Nat
  <2>1. status # "idle" => journal[cur] \in Seq(Records)
    BY StreamFacts DEF FileInv, FileTypeOK
  <2> QED BY <2>1, DecodedFacts
<1>2. /\ behind \in Nat /\ count \in Nat /\ PageLimit \in Nat
      /\ \A i \in 1..count : stream.cursor + i \in 1..behind
      /\ count > 0 => status # "idle" /\ behind = Len(Decoded(journal[cur]))
  BY <1>1, StreamFacts, StreamConstants, SMTT(40)
<1>3. /\ UNCHANGED <<journal, partial, cur, status, deltas, connections>> /\ got' = got \o new
      /\ stream'.cursor = stream.cursor + count /\ stream'.live = stream.live
      /\ stream' \in [pc : {"closed", "deltas", "page", "status"}, cursor : Nat, live : Nat]
  <2>1. /\ UNCHANGED <<journal, partial, cur, status, deltas, connections>> /\ got' = got \o new
        /\ stream' = [stream EXCEPT !.pc = "status", !.cursor = @ + count]
    BY DEF Page, file
  <2>2. stream.cursor \in Nat /\ stream.cursor + count \in Nat
    BY <1>2, StreamFacts
  <2>3. stream \in [pc : {"closed", "deltas", "page", "status"}, cursor : Nat, live : Nat]
    BY DEF StreamInv
  <2> HIDE DEF new, count
  <2> QED BY <2>1, <2>2, <2>3
<1>4. \A i \in 1..count : /\ new[i] \in Items /\ new[i].kind = "record" /\ new[i].attempt = cur
                          /\ new[i].n = stream.cursor + i
  <2> TAKE i \in 1..count
  <2>1. status # "idle" /\ cur \in Attempts /\ stream.cursor + i \in Nat
    BY <1>2, StreamFacts
  <2>2. Decoded(journal[cur])[stream.cursor + i] \in Records
    BY <1>1, <1>2, <2>1
  <2>3. Decoded(journal[cur])[stream.cursor + i].round \in Rounds
    BY <2>2 DEF Records
  <2>4. new[i] = RecordItem(stream.cursor + i)
    OBVIOUS
  <2> HIDE DEF new, count
  <2> QED BY <2>1, <2>3, <2>4 DEF RecordItem, Items
<1> HIDE DEF new, count, behind
<1>5. new \in Seq(Items) /\ Len(new) = count
  <2>1. new \in [1..count -> Items] /\ new = [i \in 1..count |-> new[i]]
    BY <1>4 DEF new
  <2> QED BY <1>2, <2>1
<1>6. /\ got' \in Seq(Items) /\ Len(got') = Len(got) + count /\ Len(got) \in Nat
      /\ \A i \in 1..Len(got) : got'[i] = got[i] /\ got[i] \in Items
      /\ \A i \in 1..Len(got') : i > Len(got) => got'[i] = new[i - Len(got)] /\ i - Len(got) \in 1..count
  <2>1. got \in Seq(Items) /\ new \in Seq(Items) /\ got' = got \o new
    BY <1>3, <1>5, StreamFacts
  <2>2. /\ got' \in Seq(Items) /\ Len(got') = Len(got) + Len(new) /\ Len(got) \in Nat
        /\ \A i \in 1..(Len(got) + Len(new)) : got'[i] = IF i <= Len(got) THEN got[i] ELSE new[i - Len(got)]
    BY <2>1, ConcatProperties
  <2> QED BY <1>2, <1>5, <2>1, <2>2
\* The items that are new, by their place in the whole.
<1>7. ASSUME NEW i \in 1..Len(got'), i > Len(got)
      PROVE  /\ got'[i].kind = "record" /\ got'[i].attempt = cur /\ got'[i].n = stream.cursor + (i - Len(got))
             /\ i - Len(got) \in 1..count /\ status # "idle" /\ cur \in {1, 2}
  <2>1. i - Len(got) \in 1..count /\ got'[i] = new[i - Len(got)]
    BY <1>6, <1>7
  <2>2. count > 0
    BY <1>2, <2>1
  <2> QED BY <1>2, <1>4, <2>1, <2>2, StreamFacts
<1>8. \A i \in 1..Len(got') : got'[i].attempt <= cur
  <2> TAKE i \in 1..Len(got')
  <2>1. CASE i <= Len(got)
    BY <1>6, <2>1 DEF StreamInv
  <2>2. CASE i > Len(got)
    BY <1>7, <2>2
  <2> QED BY <1>6, <2>1, <2>2
<1>9. ASSUME NEW i \in 1..Len(got'), got'[i].kind = "delta", got'[i].attempt = cur, status # "idle"
      PROVE  got'[i].n <= stream.live /\ got'[i].n <= Len(deltas)
  <2>1. i <= Len(got) /\ i \in 1..Len(got)
    BY <1>6, <1>7, <1>9
  <2> QED BY <1>6, <1>9, <2>1 DEF StreamInv
\* The last record of the newest attempt: the last new one, or the cursor's.
<1>10. ASSUME NEW i \in 1..Len(got'), Newest(i)', got'[i].attempt = cur
       PROVE  got'[i].n = stream.cursor + count
  <2>1. count > 0 => Len(got') > Len(got) /\ Len(got') \in 1..Len(got')
    BY <1>2, <1>6
  <2>2. CASE i <= Len(got)
    <3>1. count = 0
      <4> SUFFICES ASSUME count # 0 PROVE FALSE
        OBVIOUS
      <4>1. Len(got') \in (i + 1)..Len(got')
        BY <1>2, <1>6, <2>1, <2>2
      <4>2. got'[Len(got')].kind = "record" /\ got'[Len(got')].attempt = cur
        BY <1>2, <1>7, <2>1
      <4> QED BY <1>10, <4>1, <4>2 DEF Newest, Alike
    <3>2. Len(got') = Len(got) /\ i \in 1..Len(got) /\ \A m \in 1..Len(got) : got'[m] = got[m]
      BY <1>6, <2>2, <3>1
    <3>3. Newest(i)
      <4>1. \A m \in (i + 1)..Len(got) : m \in 1..Len(got)
        BY <3>2, <1>6
      <4> QED BY <1>10, <3>2, <4>1 DEF Newest, Alike
    <3>4. got[i].n = stream.cursor
      BY <1>10, <3>2, <3>3 DEF StreamInv
    <3> QED BY <3>1, <3>2, <3>4, StreamFacts
  <2>3. CASE i > Len(got)
    <3>1. i = Len(got')
      <4> SUFFICES ASSUME i # Len(got') PROVE FALSE
        OBVIOUS
      <4>1. Len(got') \in (i + 1)..Len(got') /\ Len(got') \in 1..Len(got') /\ Len(got') > Len(got)
        BY <1>2, <1>6, <2>3
      <4> QED BY <1>7, <1>10, <2>3, <4>1 DEF Newest, Alike
    <3>2. i - Len(got) = count
      BY <1>2, <1>6, <3>1
    <3> QED BY <1>7, <2>3, <3>2
  <2> QED BY <1>6, <2>2, <2>3
<1>11. StreamInOrder'
  <2> SUFFICES ASSUME NEW i \in 1..Len(got'), NEW j \in 1..Len(got'), i < j, Alike(got'[i], got'[j])
               PROVE  /\ got'[i].kind = "delta" => got'[i].n < got'[j].n
                      /\ /\ got'[i].kind = "record"
                         /\ \A m \in (i + 1)..(j - 1) : ~Alike(got'[i], got'[m])
                         => got'[j].n = got'[i].n + 1
    BY DEF StreamInOrder, Alike
  <2>1. CASE j <= Len(got)
    <3>1. \A m \in (i + 1)..(j - 1) : got'[m] = got[m]
      BY <1>6, <2>1
    <3>2. i \in 1..Len(got) /\ j \in 1..Len(got) /\ got'[i] = got[i] /\ got'[j] = got[j] /\ Alike(got[i], got[j])
      BY <1>6, <2>1
    <3>3. StreamInOrder
      BY DEF StreamInv
    <3> QED BY <3>1, <3>2, <3>3 DEF StreamInOrder
  <2>2. CASE j > Len(got)
    <3> SUFFICES ASSUME \A m \in (i + 1)..(j - 1) : ~Alike(got'[i], got'[m])
                 PROVE  got'[j].n = got'[i].n + 1
      BY <1>7, <2>2 DEF Alike
    <3>1. got'[j].n = stream.cursor + (j - Len(got)) /\ got'[i].kind = "record" /\ got'[i].attempt = cur
      BY <1>7, <2>2 DEF Alike
    \* Nothing new lies between.
    <3>2. j - 1 \in {i, Len(got)}
      <4> SUFFICES ASSUME j - 1 # i, j - 1 > Len(got) PROVE FALSE
        BY <1>6, <2>2, SMTT(40)
      <4>1. j - 1 \in 1..Len(got') /\ j - 1 \in (i + 1)..(j - 1)
        BY <1>6
      <4> QED BY <1>7, <3>1, <4>1 DEF Alike
    <3>3. CASE i > Len(got)
      <4>1. got'[i].n = stream.cursor + (i - Len(got)) /\ j = i + 1
        BY <1>6, <1>7, <3>2, <3>3
      <4> QED BY <1>2, <1>6, <3>1, <4>1, StreamFacts, SMTT(40)
    <3>4. CASE i <= Len(got)
      <4>1. i \in 1..Len(got) /\ j = Len(got) + 1 /\ got'[i] = got[i]
        BY <1>6, <2>2, <3>2, <3>4
      <4>2. Newest(i)
        <5>1. \A m \in (i + 1)..Len(got) : m \in (i + 1)..(j - 1) /\ got'[m] = got[m]
          BY <1>6, <4>1
        <5> QED BY <3>1, <4>1, <5>1 DEF Newest
      <4>3. got[i].n = stream.cursor
        BY <3>1, <4>1, <4>2 DEF StreamInv
      <4> QED BY <3>1, <4>1, <4>3, <1>6, StreamFacts
    <3> QED BY <1>6, <3>3, <3>4
  <2> QED BY <1>6, <2>1, <2>2
<1> QED BY <1>3, <1>6, <1>8, <1>9, <1>10, <1>11, StreamFacts DEF StreamInv

LEMMA StreamStep ==
  ASSUME FileInv, StreamInv, Streamer
  PROVE  StreamInv' /\ UNCHANGED file
<1>1. CASE Status
  <2>1. /\ UNCHANGED <<journal, partial, cur, status, deltas, got, connections>>
        /\ stream'.cursor = stream.cursor /\ stream'.live = stream.live
        /\ stream' \in [pc : {"closed", "deltas", "page", "status"}, cursor : Nat, live : Nat]
    BY <1>1 DEF Status, StreamInv, file
  <2>2. StreamInOrder'
    <3>1. StreamInOrder /\ got' = got
      BY <2>1 DEF StreamInv
    <3> QED BY <3>1 DEF StreamInOrder, Alike
  <2>3. \A i \in 1..Len(got) : Newest(i)' => Newest(i)
    BY <2>1 DEF Newest, Alike
  <2>4. /\ \A i \in 1..Len(got') : got'[i].attempt <= cur'
        /\ \A i \in 1..Len(got') : Newest(i)' /\ got'[i].attempt = cur' => got'[i].n = stream'.cursor
        /\ \A i \in 1..Len(got') : got'[i].kind = "delta" /\ got'[i].attempt = cur' /\ status' # "idle" =>
                                   got'[i].n <= stream'.live /\ got'[i].n <= Len(deltas')
    BY <2>1, <2>3 DEF StreamInv
  <2>5. got' \in Seq(Items) /\ connections' \in Nat /\ UNCHANGED file
    BY <2>1 DEF StreamInv, file
  <2> QED BY <2>1, <2>2, <2>4, <2>5 DEF StreamInv
<1>2. CASE Drain
  BY <1>2, DrainStep DEF Drain
<1>3. CASE Page
  BY <1>3, PageStep DEF Page
<1>4. ASSUME NEW fresh \in BOOLEAN, Connect(fresh)
      PROVE  StreamInv' /\ UNCHANGED file
  BY <1>4, ConnectStep DEF Connect
<1> QED BY <1>1, <1>2, <1>3, <1>4 DEF Streamer

LEMMA NextMoves ==
  ASSUME [Next]_vars
  PROVE  FileMoves
<1>1. CASE Crash
  BY <1>1 DEF Crash, FileMoves
<1>2. CASE Writer(Written, Streamed)
  BY <1>2 DEF FileMoves
<1>3. CASE Streamer
  BY <1>3 DEF Streamer, Drain, Page, Status, Connect, FileMoves
<1>4. CASE Pager
  BY <1>4 DEF Pager, FirstPage, OlderPage, FileMoves
<1>5. CASE Asker
  BY <1>5 DEF Asker, TakeSize, Reduces, FileMoves
<1>6. CASE UNCHANGED file
  BY <1>6 DEF FileMoves
<1>7. UNCHANGED vars => UNCHANGED file
  BY DEF vars
<1> QED BY <1>1, <1>2, <1>3, <1>4, <1>5, <1>6, <1>7 DEF Next

\* What the stream's invariant is, and that it is inductive.
LEMMA StreamInvStep ==
  ASSUME FileInv, StreamInv, [Next]_vars
  PROVE  FileInv' /\ StreamInv'
<1>1. FileMoves /\ FileInv'
  BY NextMoves, FileStep
<1>2. CASE Crash
  <2>1. UNCHANGED <<got, connections>> /\ stream' = [stream EXCEPT !.pc = "closed"]
    BY <1>2 DEF Crash
  <2> QED BY <1>1, <2>1, StreamWaits
<1>3. CASE Streamer
  BY <1>1, <1>3, StreamStep
<1>4. CASE UNCHANGED streaming
  BY <1>1, <1>4, StreamWaits DEF streaming
<1>5. UNCHANGED vars => UNCHANGED streaming
  BY DEF vars
<1> QED BY <1>1, <1>2, <1>3, <1>4, <1>5 DEF Next

\* The events a browser receives are in order: the records of an attempt
\* without a gap or a repetition, its deltas never twice, however the stream's
\* reads fall between appends, runs, crashes and connections (events_stream).
THEOREM StreamsAreOrdered == Spec => []StreamInOrder
<1>1. Init => FileInv /\ StreamInv
  BY FileStart, StreamStart DEF Init
<1>2. FileInv /\ StreamInv /\ [Next]_vars => (FileInv /\ StreamInv)'
  BY StreamInvStep
<1>3. FileInv /\ StreamInv => StreamInOrder
  BY DEF StreamInv
<1> QED BY <1>1, <1>2, <1>3, PTL DEF Spec

LEMMA DecodedConcat ==
  ASSUME NEW s \in Seq(Records), NEW t \in Seq(Records)
  PROVE  Decoded(s \o t) = Decoded(s) \o Decoded(t)
<1> DEFINE S == {n \in 0..Len(t) : Decoded(s \o SubSeq(t, 1, n)) = Decoded(s) \o Decoded(SubSeq(t, 1, n))}
<1>0. Len(t) \in Nat /\ Decoded(s) \in Seq(Records) /\ Decoded(<<>>) = <<>>
  BY DecodedFacts
<1>1. 0 \in S
  <2> DEFINE z == SubSeq(t, 1, 0)
  <2>1. z = <<>>
    BY SubSeqEmpty
  <2>2. s \o <<>> = s /\ Decoded(s) \o <<>> = Decoded(s)
    BY <1>0, ConcatEmptySeq
  <2> HIDE DEF z
  <2>3. Decoded(s \o z) = Decoded(s) \o Decoded(z)
    BY <1>0, <2>1, <2>2
  <2> QED BY <1>0, <2>3 DEF z
<1>2. ASSUME NEW n \in 1..Len(t), n - 1 \in S
      PROVE  n \in S
  <2> DEFINE z == SubSeq(t, 1, n - 1)
  <2>1. /\ z \in Seq(Records) /\ SubSeq(t, 1, n) = Append(z, t[n]) /\ t[n] \in Records
        /\ s \o z \in Seq(Records) /\ s \o Append(z, t[n]) = Append(s \o z, t[n])
    OBVIOUS
  <2>2. Decoded(s \o z) = Decoded(s) \o Decoded(z)
    BY <1>2
  <2> HIDE DEF z
  <2>3. /\ Decoded(z) \in Seq(Records)
        /\ Decoded(Append(z, t[n])) = IF t[n].type = "torn" THEN Decoded(z) ELSE Append(Decoded(z), t[n])
        /\ Decoded(Append(s \o z, t[n])) = IF t[n].type = "torn" THEN Decoded(s \o z) ELSE Append(Decoded(s \o z), t[n])
    BY <2>1, DecodedFacts
  <2>4. Decoded(s) \o Append(Decoded(z), t[n]) = Append(Decoded(s) \o Decoded(z), t[n])
    BY <1>0, <2>1, <2>3, SMTT(30)
  <2>5. Decoded(s \o Append(z, t[n])) = Decoded(s) \o Decoded(Append(z, t[n]))
    BY <2>1, <2>2, <2>3, <2>4
  <2>6. Decoded(s \o SubSeq(t, 1, n)) = Decoded(s) \o Decoded(SubSeq(t, 1, n))
    BY <2>1, <2>5
  <2> QED BY <2>6
<1>3. Len(t) \in S
  <2>1. \A n \in 1..Len(t) : n - 1 \in S => n \in S
    BY <1>2
  <2> HIDE DEF S
  <2>3. 0..Len(t) \subseteq S
    BY <1>0, <1>1, <2>1, NumbersUpTo
  <2> QED BY <1>0, <2>3
<1>4. SubSeq(t, 1, Len(t)) = t
  BY SubSeqFull
<1> QED BY <1>3, <1>4

-----------------------------------------------------------------------------
\* The ledger, as a fold over decoded records.

Rows == [seq : Nat, attempts : Nat, retries : Nat, usage : {"none", "primary", "round"}]
Ledgers == [rows : [Rounds -> Rows], sequence : Nat, internal : Nat, steered : BOOLEAN, applied : BOOLEAN]
ReduceStep == [f \in Records |-> [l \in Ledgers |-> Reduce(l, f)]]
ReducesBy(l, records, f) ==
  f = [n \in 0..Len(records) |-> IF n = 0 THEN l ELSE Reduce(f[n - 1], records[n])]

LEMMA ReduceType ==
  ASSUME NEW l \in Ledgers, NEW f \in Records
  PROVE  Reduce(l, f) \in Ledgers
<1>1. /\ f.round \in Rounds /\ l.rows \in [Rounds -> Rows] /\ l.sequence \in Nat /\ l.internal \in Nat
      /\ l.steered \in BOOLEAN /\ l.applied \in BOOLEAN /\ l.rows[f.round] \in Rows
  BY DEF Records, Ledgers
<1> DEFINE r == f.round
           o == Opened(l, r)
<1>2. o \in Ledgers
  <2>1. \A x \in Rows, s \in Nat : [x EXCEPT !.seq = s] \in Rows
    BY DEF Rows
  <2>2. l.sequence + 1 \in Nat
    BY <1>1
  <2>3. [l.rows EXCEPT ![r] = [l.rows[r] EXCEPT !.seq = l.sequence + 1]] \in [Rounds -> Rows]
    BY <1>1, <2>1, <2>2
  <2>4. o \in {l, [l EXCEPT !.rows = [l.rows EXCEPT ![r] = [l.rows[r] EXCEPT !.seq = l.sequence + 1]],
                            !.sequence = l.sequence + 1]}
    BY DEF Opened
  <2> HIDE DEF o, r
  <2> QED BY <2>2, <2>3, <2>4 DEF Ledgers
<1>3. ASSUME NEW x \in Rows, NEW g \in Ledgers
      PROVE  /\ [x EXCEPT !.attempts = @ + 1] \in Rows /\ [x EXCEPT !.retries = @ + 1] \in Rows
             /\ [x EXCEPT !.usage = "primary"] \in Rows /\ [x EXCEPT !.usage = RoundUsage(@)] \in Rows
             /\ [g EXCEPT !.rows[r] = x] \in Ledgers
  <2>1. /\ [x EXCEPT !.attempts = @ + 1] \in Rows /\ [x EXCEPT !.retries = @ + 1] \in Rows
        /\ [x EXCEPT !.usage = "primary"] \in Rows /\ [x EXCEPT !.usage = RoundUsage(@)] \in Rows
    BY DEF Rows, RoundUsage
  <2>2. g.rows \in [Rounds -> Rows] /\ [g.rows EXCEPT ![r] = x] \in [Rounds -> Rows]
    BY DEF Ledgers
  <2>3. [g EXCEPT !.rows[r] = x] = [g EXCEPT !.rows = [g.rows EXCEPT ![r] = x]]
    OBVIOUS
  <2>4. [g EXCEPT !.rows = [g.rows EXCEPT ![r] = x]] \in Ledgers
    <3> DEFINE w == [g.rows EXCEPT ![r] = x]
    <3> HIDE DEF w
    <3>1. \A y \in [Rounds -> Rows] : [g EXCEPT !.rows = y] \in Ledgers
      BY DEF Ledgers
    <3> QED BY <2>2, <3>1 DEF w
  <2> QED BY <2>1, <2>3, <2>4
<1>4. \A g \in Ledgers : g.rows[r] \in Rows
  BY <1>1 DEF Ledgers
<1> HIDE DEF o, r
<1>5. CASE f.type = "request"
  <2>1. Reduce(l, f) = [o EXCEPT !.rows[r] = [o.rows[r] EXCEPT !.attempts = @ + 1]]
    BY <1>5 DEF Reduce, o, r
  <2> QED BY <1>2, <1>3, <1>4, <2>1, ZenonT(60)
<1>6. CASE f.type = "tools"
  BY <1>2, <1>6 DEF Reduce, o, r
<1>7. CASE f.type = "retry" /\ Known(l, f.round)
  <2>1. Reduce(l, f) = [l EXCEPT !.rows[r] = [l.rows[r] EXCEPT !.retries = @ + 1]]
    BY <1>7 DEF Reduce, o, r
  <2> QED BY <1>3, <1>4, <2>1, ZenonT(60)
<1>8. CASE f.type = "usage" /\ Known(l, f.round)
  <2>1. Reduce(l, f) = [l EXCEPT !.rows[r] = [l.rows[r] EXCEPT !.usage = "primary"]]
    BY <1>8 DEF Reduce, o, r
  <2> QED BY <1>3, <1>4, <2>1, ZenonT(60)
<1>9. CASE f.type = "round"
  <2>1. Reduce(l, f) = [o EXCEPT !.rows[r] = [o.rows[r] EXCEPT !.usage = RoundUsage(@)]]
    BY <1>9 DEF Reduce, o, r
  <2> QED BY <1>2, <1>3, <1>4, <2>1, ZenonT(60)
<1>10. CASE f.type = "internal"
  <2>1. Reduce(l, f) = [l EXCEPT !.internal = l.internal + 1, !.sequence = l.sequence + 1]
    BY <1>10 DEF Reduce
  <2>2. l.internal + 1 \in Nat /\ l.sequence + 1 \in Nat
    BY <1>1
  <2> QED BY <2>1, <2>2 DEF Ledgers
<1>11. CASE f.type = "steer"
  BY <1>1, <1>11 DEF Reduce, Ledgers
<1>12. CASE f.type = "applied"
  BY <1>1, <1>12 DEF Reduce, Ledgers
<1>13. CASE /\ f.type \notin {"request", "tools", "round", "internal", "steer", "applied"}
            /\ ~(f.type = "retry" /\ Known(l, f.round)) /\ ~(f.type = "usage" /\ Known(l, f.round))
  BY <1>13 DEF Reduce
<1> QED BY <1>5, <1>6, <1>7, <1>8, <1>9, <1>10, <1>11, <1>12, <1>13

LEMMA ReduceStepType == ReduceStep \in Maps(Records, Ledgers) /\ NoLedger \in Ledgers
<1>1. \A f \in Records, l \in Ledgers : Reduce(l, f) \in Ledgers
  BY ReduceType
<1>2. NoLedger \in Ledgers
  BY DEF NoLedger, NoRow, Ledgers, Rows
<1>3. [f \in Records |-> [l \in Ledgers |-> Reduce(l, f)]] \in [Records -> [Ledgers -> Ledgers]]
  BY <1>1
<1> QED BY <1>2, <1>3 DEF ReduceStep, Maps

LEMMA LedgerIsFold ==
  ASSUME NEW l \in Ledgers, NEW records \in Seq(Records)
  PROVE  Ledger(l, records) = Fold(records, l, ReduceStep)
<1>1. PICK f \in [0..Len(records) -> Ledgers] :
        /\ Folds(f, records, l, ReduceStep) /\ Fold(records, l, ReduceStep) = f[Len(records)]
        /\ f[0] = l /\ \A n \in 1..Len(records) : f[n] = ReduceStep[records[n]][f[n - 1]]
  BY ReduceStepType, FoldSteps
<1>2. Len(records) \in Nat /\ \A n \in 1..Len(records) : records[n] \in Records
  OBVIOUS
<1>3. \A r \in Records, v \in Ledgers : ReduceStep[r][v] = Reduce(v, r)
  BY DEF ReduceStep
<1>4. ReducesBy(l, records, f)
  <2> DEFINE g == [n \in 0..Len(records) |-> IF n = 0 THEN l ELSE Reduce(f[n - 1], records[n])]
  <2>1. ASSUME NEW n \in 0..Len(records)
        PROVE  f[n] = g[n]
    <3>1. CASE n = 0
      BY <1>1, <3>1
    <3>2. CASE n # 0
      <4>1. n \in 1..Len(records) /\ n - 1 \in 0..Len(records)
        BY <1>2, <3>2
      <4>2. f[n - 1] \in Ledgers /\ records[n] \in Records /\ f[n] = ReduceStep[records[n]][f[n - 1]]
        BY <1>1, <1>2, <4>1
      <4> QED BY <1>3, <3>2, <4>2
    <3> QED BY <3>1, <3>2
  <2>2. f = [n \in 0..Len(records) |-> f[n]] /\ g = [n \in 0..Len(records) |-> g[n]]
    BY <1>1
  <2>3. f = g
    <3> HIDE DEF g
    <3> QED BY <2>1, <2>2
  <2> QED BY <2>3 DEF ReducesBy
<1> DEFINE d == CHOOSE x : ReducesBy(l, records, x)
<1>5. Ledger(l, records) = d[Len(records)]
  BY DEF Ledger, ReducesBy
<1>6. ReducesBy(l, records, d)
  BY <1>4
<1> HIDE DEF d
<1>7. d[0] = l /\ \A n \in 1..Len(records) : d[n] = Reduce(d[n - 1], records[n])
  <2> DEFINE g == [n \in 0..Len(records) |-> IF n = 0 THEN l ELSE Reduce(d[n - 1], records[n])]
  <2>1. g[0] = l /\ \A n \in 1..Len(records) : g[n] = Reduce(d[n - 1], records[n])
    BY <1>2
  <2>2. d = g
    BY <1>6 DEF ReducesBy
  <2> HIDE DEF g
  <2> QED BY <2>1, <2>2
<1>8. \A n \in 1..Len(records) : d[n - 1] \in Ledgers => d[n] = ReduceStep[records[n]][d[n - 1]]
  BY <1>2, <1>3, <1>7
<1>9. d[Len(records)] = Fold(records, l, ReduceStep)
  <2>1. d[0] = l
    BY <1>7
  <2> QED BY <1>8, <2>1, ReduceStepType, FoldIs
<1> QED BY <1>5, <1>9

LEMMA LedgerFacts ==
  ASSUME NEW l \in Ledgers, NEW s \in Seq(Records), NEW t \in Seq(Records)
  PROVE  /\ Ledger(l, s) \in Ledgers
         /\ Ledger(l, Decoded(s \o t)) = Ledger(Ledger(l, Decoded(s)), Decoded(t))
<1>1. \A x \in Seq(Records) : Ledger(l, x) \in Ledgers
  <2> TAKE x \in Seq(Records)
  <2>1. Ledger(l, x) = Fold(x, l, ReduceStep)
    BY LedgerIsFold
  <2> QED BY <2>1, ReduceStepType, FoldFacts
<1>2. Decoded(s) \in Seq(Records) /\ Decoded(t) \in Seq(Records) /\ s \o t \in Seq(Records)
  BY DecodedFacts
<1>3. Decoded(s \o t) = Decoded(s) \o Decoded(t)
  BY DecodedConcat
<1>4. Ledger(l, Decoded(s) \o Decoded(t)) = Fold(Decoded(s) \o Decoded(t), l, ReduceStep)
  <2>1. Decoded(s) \o Decoded(t) \in Seq(Records)
    BY <1>2
  <2> QED BY <2>1, LedgerIsFold
<1>5. Ledger(l, Decoded(s)) = Fold(Decoded(s), l, ReduceStep) /\ Ledger(l, Decoded(s)) \in Ledgers
  BY <1>1, <1>2, LedgerIsFold
<1>6. Ledger(Ledger(l, Decoded(s)), Decoded(t)) = Fold(Decoded(t), Ledger(l, Decoded(s)), ReduceStep)
  BY <1>2, <1>5, LedgerIsFold
<1>7. Fold(Decoded(s) \o Decoded(t), l, ReduceStep) = Fold(Decoded(t), Fold(Decoded(s), l, ReduceStep), ReduceStep)
  BY <1>2, ReduceStepType, FoldConcat
<1> QED BY <1>1, <1>3, <1>4, <1>5, <1>6, <1>7

-----------------------------------------------------------------------------
\* The ledger's cache.

States == [ledger : Ledgers, cursor : Nat, torn : BOOLEAN]
Entries == [attempt : Attempts, size : Nat, id : Nat]
\* A ledger is the reduction of what its cursor covers, or has seen half a line.
Replays(s, records) ==
  s.torn \/ /\ s.cursor % 2 = 0 /\ s.cursor \div 2 <= Len(records)
            /\ s.ledger = Ledger(NoLedger, Decoded(SubSeq(records, 1, s.cursor \div 2)))
\* What is referred to covers the size asked for, in the attempt asked for.
Refers(x, ledgers, latest, journals, newest) ==
  /\ x.id \in 1..Len(ledgers) /\ x.attempt \in 1..newest
  /\ Replays(ledgers[x.id], journals[x.attempt]) /\ x.size <= ledgers[x.id].cursor
  /\ x.id = latest.id => x.attempt = latest.attempt

LedgerInv ==
  /\ ask \in [Askers -> [pc : {"idle", "sized", "held"}, attempt : 0..2, size : Nat, id : Nat]]
  /\ state \in Seq(States) /\ cache \in Seq(Entries) /\ last \in [attempt : 0..2, id : Nat]
  /\ \A a \in Askers : ask[a].pc = "sized" =>
                         ask[a].attempt \in 1..cur /\ ask[a].size <= 2 * Len(journal[ask[a].attempt]) + 1
  /\ \A a \in Askers : ask[a].pc = "held" => Refers(ask[a], state, last, journal, cur)
  /\ \A i \in 1..Len(cache) : Refers(cache[i], state, last, journal, cur)
  /\ last.id # 0 => /\ last.id \in 1..Len(state) /\ last.attempt \in 1..cur
                    /\ Replays(state[last.id], journal[last.attempt])

LEMMA Halves ==
  ASSUME NEW n \in Nat
  PROVE  /\ n \div 2 \in Nat /\ n % 2 \in {0, 1} /\ n = 2 * (n \div 2) + (n % 2)
         /\ (n % 2 = 0 => (n + 1) \div 2 = n \div 2) /\ (n + 1) \div 2 \in Nat
         /\ \A m \in Nat : m <= n => m \div 2 <= n \div 2
<1>1. n \div 2 \in Nat /\ n % 2 \in {0, 1} /\ n = 2 * (n \div 2) + (n % 2)
  OBVIOUS
<1>2. (n + 1) \div 2 \in Nat
  OBVIOUS
<1>3. n % 2 = 0 => (n + 1) \div 2 = n \div 2
  OBVIOUS
<1>4. \A m \in Nat : m <= n => m \div 2 <= n \div 2
  OBVIOUS
<1> QED BY <1>1, <1>2, <1>3, <1>4

LEMMA FileFacts ==
  ASSUME FileInv
  PROVE  /\ cur \in 0..2 /\ Attempts = {1, 2}
         /\ \A k \in 1..cur : k \in Attempts
         /\ \A k \in Attempts : journal[k] \in Seq(Records) /\ Len(journal[k]) \in Nat
BY DEF FileInv, FileTypeOK, Attempts

LEMMA PrefixStays ==
  ASSUME FileInv, FileInv', Grows, NEW k \in 1..cur, NEW n \in 0..Len(journal[k])
  PROVE  SubSeq(journal'[k], 1, n) = SubSeq(journal[k], 1, n)
<1>1. journal[k] \in Seq(Records) /\ journal'[k] \in Seq(Records) /\ Len(journal[k]) \in Nat
  <2>1. k \in Attempts
    BY FileFacts
  <2> QED BY <2>1 DEF FileInv, FileTypeOK
<1>2. Len(journal[k]) <= Len(journal'[k]) /\ \A m \in 1..Len(journal[k]) : journal'[k][m] = journal[k][m]
  BY DEF Grows
<1> QED BY <1>1, <1>2

LEMMA LedgerStart == FileInit /\ LedgerInit => LedgerInv
<1> SUFFICES ASSUME FileInit, LedgerInit PROVE LedgerInv
  OBVIOUS
<1>1. /\ ask = [a \in Askers |-> NoAsk] /\ state = <<>> /\ last = [attempt |-> 0, id |-> 0] /\ cache = <<>>
      /\ Len(cache) = 0
  BY DEF LedgerInit
<1> QED BY <1>1 DEF LedgerInv, NoAsk

LEMMA LedgerWaits ==
  ASSUME FileInv, FileInv', Grows, LedgerInv, UNCHANGED <<ask, state, last, cache>>
  PROVE  LedgerInv'
<1>1. cur' \in cur..2 /\ \A k \in 1..cur : k \in 1..cur' /\ Len(journal[k]) <= Len(journal'[k])
      /\ Len(journal[k]) \in Nat /\ Len(journal'[k]) \in Nat /\ cur \in 0..2
  BY FileFacts DEF Grows, FileInv, FileTypeOK
<1>2. ASSUME NEW k \in 1..cur, NEW s \in States, Replays(s, journal[k])
      PROVE  Replays(s, journal'[k])
  <2>1. CASE s.torn
    BY <2>1 DEF Replays
  <2>2. CASE ~s.torn
    <3>1. s.cursor \div 2 \in 0..Len(journal[k])
      BY <1>1, <1>2, <2>2, Halves DEF Replays, States
    <3>2. SubSeq(journal'[k], 1, s.cursor \div 2) = SubSeq(journal[k], 1, s.cursor \div 2)
      BY <3>1, PrefixStays
    <3>3. s.cursor \div 2 <= Len(journal'[k])
      BY <1>1, <3>1
    <3> QED BY <1>2, <2>2, <3>2, <3>3 DEF Replays
  <2> QED BY <2>1, <2>2
<1>3. \A i \in 1..Len(state) : state[i] \in States
  BY DEF LedgerInv
<1>4. ASSUME NEW x, Refers(x, state, last, journal, cur)
      PROVE  Refers(x, state', last', journal', cur')
  BY <1>1, <1>2, <1>3, <1>4 DEF Refers
<1>5. \A a \in Askers : ask[a].pc = "held" => Refers(ask[a], state, last, journal', cur')
  BY <1>4 DEF LedgerInv
<1>6. \A i \in 1..Len(cache) : Refers(cache[i], state, last, journal', cur')
  BY <1>4 DEF LedgerInv
<1>7. last.id # 0 => /\ last.id \in 1..Len(state) /\ last.attempt \in 1..cur'
                     /\ Replays(state[last.id], journal'[last.attempt])
  BY <1>1, <1>2, <1>3 DEF LedgerInv
<1>8. \A a \in Askers : ask[a].pc = "sized" =>
                         ask[a].attempt \in 1..cur' /\ ask[a].size <= 2 * Len(journal'[ask[a].attempt]) + 1
  <2> TAKE a \in Askers
  <2>1. ask[a].size \in Nat
    BY DEF LedgerInv
  <2> HAVE ask[a].pc = "sized"
  <2>2. ask[a].attempt \in 1..cur /\ ask[a].size <= 2 * Len(journal[ask[a].attempt]) + 1
    BY DEF LedgerInv
  <2> QED BY <1>1, <2>1, <2>2, SMTT(40)
<1> QED BY <1>5, <1>6, <1>7, <1>8 DEF LedgerInv, Refers

LEMMA TakeSizeStep ==
  ASSUME FileInv, LedgerInv, NEW a \in Askers, TakeSize(a)
  PROVE  LedgerInv'
<1> DEFINE e == [pc |-> "sized", attempt |-> cur, size |-> Size(cur), id |-> 0]
<1>1. /\ ask' = [ask EXCEPT ![a] = e]
      /\ UNCHANGED <<journal, cur, state, last, cache>> /\ cur # 0
  BY DEF TakeSize, file, FileInv
<1>2. cur \in 1..2 /\ cur \in 1..cur /\ Len(journal[cur]) \in Nat
  BY <1>1, FileFacts
<1>3. Size(cur) \in Nat /\ Size(cur) <= 2 * Len(journal[cur]) + 1
  <2>1. Size(cur) = 2 * Len(journal[cur]) + (IF partial # None THEN 1 ELSE 0)
    BY DEF Size
  <2>2. CASE partial # None
    BY <1>2, <2>1, <2>2
  <2>3. CASE partial = None
    BY <1>2, <2>1, <2>3
  <2> QED BY <2>2, <2>3
<1>4. e \in [pc : {"idle", "sized", "held"}, attempt : 0..2, size : Nat, id : Nat]
  BY <1>2, <1>3
<1>5. e.pc = "sized" /\ e.attempt = cur /\ e.size = Size(cur)
  OBVIOUS
<1> HIDE DEF e
<1>6. \A b \in Askers : ask'[b] = IF b = a THEN e ELSE ask[b]
  BY <1>1 DEF LedgerInv
<1>7. ask' \in [Askers -> [pc : {"idle", "sized", "held"}, attempt : 0..2, size : Nat, id : Nat]]
  BY <1>1, <1>4 DEF LedgerInv
<1>8. \A x : Refers(x, state, last, journal, cur) => Refers(x, state', last', journal', cur')
  BY <1>1 DEF Refers, Replays
<1>9. \A b \in Askers : ask'[b].pc = "held" => Refers(ask'[b], state', last', journal', cur')
  BY <1>5, <1>6, <1>8 DEF LedgerInv
<1>10. \A b \in Askers : ask'[b].pc = "sized" =>
                         ask'[b].attempt \in 1..cur' /\ ask'[b].size <= 2 * Len(journal'[ask'[b].attempt]) + 1
  BY <1>1, <1>2, <1>3, <1>5, <1>6 DEF LedgerInv
<1>11. \A i \in 1..Len(cache') : Refers(cache'[i], state', last', journal', cur')
  BY <1>1, <1>8 DEF LedgerInv
<1>12. last'.id # 0 => /\ last'.id \in 1..Len(state') /\ last'.attempt \in 1..cur'
                       /\ Replays(state'[last'.id], journal'[last'.attempt])
  BY <1>1 DEF LedgerInv, Replays
<1> QED BY <1>1, <1>7, <1>9, <1>10, <1>11, <1>12 DEF LedgerInv, Refers

\* A sequence that keeps or gains only what refers, refers.
LEMMA TouchedRefers ==
  ASSUME LedgerInv, NEW i \in 1..Len(cache)
  PROVE  /\ Touched(i) \in Seq(Entries)
         /\ \A j \in 1..Len(Touched(i)) : \E m \in 1..Len(cache) : Touched(i)[j] = cache[m]
<1>1. cache \in Seq(Entries) /\ Len(cache) \in Nat /\ \A m \in 1..Len(cache) : cache[m] \in Entries
  BY DEF LedgerInv
<1> DEFINE s == SubSeq(cache, 1, i - 1)
           t == SubSeq(cache, i + 1, Len(cache))
<1>2. /\ s \in Seq(Entries) /\ Len(s) = i - 1 /\ \A m \in 1..(i - 1) : s[m] = cache[m]
      /\ t \in Seq(Entries) /\ Len(t) = Len(cache) - i /\ \A m \in 1..(Len(cache) - i) : t[m] = cache[i + m]
  BY <1>1
<1> HIDE DEF s, t
<1>3. /\ s \o t \in Seq(Entries) /\ Len(s \o t) = Len(cache) - 1
      /\ \A m \in 1..(Len(cache) - 1) : (s \o t)[m] = IF m < i THEN cache[m] ELSE cache[m + 1]
  <2>1. /\ s \o t \in Seq(Entries) /\ Len(s \o t) = Len(s) + Len(t)
        /\ \A m \in 1..(Len(s) + Len(t)) : (s \o t)[m] = IF m <= Len(s) THEN s[m] ELSE t[m - Len(s)]
    BY <1>2, ConcatProperties
  <2>2. ASSUME NEW m \in 1..(Len(cache) - 1)
        PROVE  (s \o t)[m] = IF m < i THEN cache[m] ELSE cache[m + 1]
    <3>1. CASE m < i
      BY <1>1, <1>2, <2>1, <3>1
    <3>2. CASE m >= i
      <4>1. m - (i - 1) \in 1..(Len(cache) - i) /\ i + (m - (i - 1)) = m + 1
        BY <1>1, <3>2
      <4>2. (s \o t)[m] = t[m - (i - 1)] /\ t[m - (i - 1)] = cache[m + 1]
        <5>1. t[m - (i - 1)] = cache[i + (m - (i - 1))]
          BY <1>2, <4>1
        <5>2. m \in 1..(Len(s) + Len(t)) /\ ~(m <= Len(s)) /\ Len(s) = i - 1
          BY <1>1, <1>2, <3>2
        <5> QED BY <2>1, <4>1, <5>1, <5>2
      <4>3. ~(m < i)
        BY <1>1, <3>2
      <4> QED BY <4>2, <4>3
    <3>3. m < i \/ m >= i
      BY <1>1
    <3> QED BY <3>1, <3>2, <3>3
  <2> QED BY <1>1, <1>2, <2>1, <2>2
<1>4. Touched(i) = Append(s \o t, cache[i])
  BY DEF Touched, s, t
<1>5. /\ Append(s \o t, cache[i]) \in Seq(Entries) /\ Len(Append(s \o t, cache[i])) = Len(cache)
      /\ \A m \in 1..(Len(cache) - 1) : Append(s \o t, cache[i])[m] = (s \o t)[m]
      /\ Append(s \o t, cache[i])[Len(cache)] = cache[i]
  BY <1>1, <1>3
<1>6. ASSUME NEW j \in 1..Len(cache)
      PROVE  \E m \in 1..Len(cache) : Touched(i)[j] = cache[m]
  <2>1. CASE j = Len(cache)
    BY <1>4, <1>5, <2>1
  <2>2. CASE j < Len(cache)
    <3>1. Touched(i)[j] = IF j < i THEN cache[j] ELSE cache[j + 1]
      <4>1. j \in 1..(Len(cache) - 1)
        BY <1>1, <2>2
      <4> QED BY <1>3, <1>4, <1>5, <4>1
    <3>2. j + 1 \in 1..Len(cache)
      BY <1>1, <2>2
    <3> QED BY <3>1, <3>2
  <2> QED BY <1>1, <2>1, <2>2
<1> QED BY <1>4, <1>5, <1>6

LEMMA StoredRefers ==
  ASSUME LedgerInv, NEW e \in Entries
  PROVE  /\ Stored(e) \in Seq(Entries)
         /\ \A j \in 1..Len(Stored(e)) : Stored(e)[j] = e \/ \E m \in 1..Len(cache) : Stored(e)[j] = cache[m]
<1>1. cache \in Seq(Entries) /\ Len(cache) \in Nat /\ \A m \in 1..Len(cache) : cache[m] \in Entries
  BY DEF LedgerInv
<1> DEFINE s == Append(cache, e)
<1>2. /\ s \in Seq(Entries) /\ Len(s) = Len(cache) + 1 /\ s # <<>>
      /\ \A m \in 1..Len(s) : s[m] = e \/ \E j \in 1..Len(cache) : s[m] = cache[j]
  BY <1>1
<1> HIDE DEF s
<1>3. /\ Tail(s) \in Seq(Entries) /\ Len(Tail(s)) = Len(s) - 1
      /\ \A m \in 1..Len(Tail(s)) : Tail(s)[m] = s[m + 1] /\ m + 1 \in 1..Len(s)
  BY <1>1, <1>2
<1>4. Stored(e) \in {s, Tail(s)}
  BY DEF Stored, s
<1> QED BY <1>2, <1>3, <1>4, ZenonT(60)

\* What the ledger of a size is, made of the one it goes on from.
LEMMA ReducedOn ==
  ASSUME FileInv, NEW old \in States, NEW k \in 1..cur, NEW size \in Nat,
         Replays(old, journal[k]), old.cursor <= size, size <= 2 * Len(journal[k]) + 1
  PROVE  LET new == [ledger |-> Ledger(old.ledger, Between(k, old.cursor, size)),
                     cursor |-> size, torn |-> old.torn \/ size % 2 = 1]
         IN new \in States /\ Replays(new, journal[k])
<1> DEFINE n == size \div 2
           m == (old.cursor + 1) \div 2
           part == SubSeq(journal[k], m + 1, n)
           new == [ledger |-> Ledger(old.ledger, Between(k, old.cursor, size)),
                   cursor |-> size, torn |-> old.torn \/ size % 2 = 1]
<1>1. /\ journal[k] \in Seq(Records) /\ Len(journal[k]) \in Nat
      /\ \A i \in 1..Len(journal[k]) : journal[k][i] \in Records
  BY FileFacts
<1>2. old.cursor \in Nat /\ old.ledger \in Ledgers /\ old.torn \in BOOLEAN
  BY DEF States
<1>3. n \in Nat /\ size % 2 \in {0, 1} /\ size = 2 * n + (size % 2) /\ m \in Nat
  BY <1>2, Halves
<1> HIDE DEF n, m
<1>4. n <= Len(journal[k])
  <2>1. 2 * n <= 2 * Len(journal[k]) + 1
    BY <1>1, <1>3
  <2> QED BY <1>1, <1>3, <2>1
<1>5. part \in Seq(Records)
  <2>1. \A i \in (m + 1)..n : journal[k][i] \in Records
    BY <1>1, <1>3, <1>4
  <2>2. m + 1 \in Int /\ n \in Int
    BY <1>3
  <2> QED BY <2>1, <2>2, SubSeqProperties
<1>6. Decoded(part) \in Seq(Records)
  <2> HIDE DEF part
  <2> QED BY <1>5, DecodedFacts
<1>7. Between(k, old.cursor, size) = Decoded(part)
  BY DEF Between, m, n
<1>8. Ledger(old.ledger, Decoded(part)) \in Ledgers
  BY <1>2, <1>6, LedgerFacts
<1>9. new \in States
  BY <1>2, <1>7, <1>8 DEF States
<1>10. Replays(new, journal[k])
  <2>1. CASE new.torn
    BY <2>1 DEF Replays
  <2>2. CASE ~new.torn
    <3>1. size % 2 = 0 /\ ~old.torn
      BY <1>3, <2>2
    <3>2. /\ old.cursor % 2 = 0 /\ old.cursor \div 2 <= Len(journal[k])
          /\ old.ledger = Ledger(NoLedger, Decoded(SubSeq(journal[k], 1, old.cursor \div 2)))
      BY <3>1 DEF Replays
    <3>3. m = old.cursor \div 2 /\ m <= n
      BY <1>2, <3>2, Halves DEF m, n
    <3>4. SubSeq(journal[k], 1, m) \o part = SubSeq(journal[k], 1, n) /\ SubSeq(journal[k], 1, m) \in Seq(Records)
      <4>1. 1 \in 1..(Len(journal[k]) + 1) /\ m \in (1 - 1)..Len(journal[k]) /\ n \in m..Len(journal[k])
        BY <1>1, <1>3, <1>4, <3>3
      <4>2. SubSeq(journal[k], 1, m) \o SubSeq(journal[k], m + 1, n) = SubSeq(journal[k], 1, n)
        BY <1>1, <4>1, ConcatAdjacentSubSeq
      <4>3. SubSeq(journal[k], 1, m) \in Seq(Records)
        BY <1>1, <4>1
      <4> QED BY <4>2, <4>3
    <3>5. Ledger(NoLedger, Decoded(SubSeq(journal[k], 1, n))) = Ledger(old.ledger, Decoded(part))
      <4> DEFINE s == SubSeq(journal[k], 1, m)
      <4>1. s \in Seq(Records) /\ Decoded(s \o part) = Decoded(SubSeq(journal[k], 1, n))
        BY <3>4
      <4>2. old.ledger = Ledger(NoLedger, Decoded(s))
        BY <3>2, <3>3
      <4> HIDE DEF s, part
      <4>3. Ledger(NoLedger, Decoded(s \o part)) = Ledger(Ledger(NoLedger, Decoded(s)), Decoded(part))
        BY <4>1, <1>5, ReduceStepType, LedgerFacts
      <4> QED BY <4>1, <4>2, <4>3
    <3>6. new.cursor % 2 = 0 /\ new.cursor \div 2 = n /\ new.ledger = Ledger(old.ledger, Decoded(part))
      BY <1>7, <3>1 DEF n
    <3> HIDE DEF new
    <3> QED BY <1>4, <3>5, <3>6 DEF Replays
  <2> QED BY <1>9, <2>1, <2>2 DEF States
<1> QED BY <1>9, <1>10

\* A request answers with the ledger of its cache entry.
LEMMA HitStep ==
  ASSUME FileInv, LedgerInv, NEW a \in Askers, Reduces(a), Hits(a) # {}
  PROVE  LedgerInv'
<1> DEFINE i == CHOOSE x \in Hits(a) : TRUE
<1>1. i \in Hits(a)
  BY DEF Hits
<1>2. /\ ask' = [ask EXCEPT ![a].pc = "held", ![a].id = cache[i].id]
      /\ cache' = Touched(i) /\ UNCHANGED <<journal, cur, state, last>>
  BY DEF Reduces, file
<1> HIDE DEF i
<1>3. /\ i \in 1..Len(cache) /\ cache[i].attempt = ask[a].attempt /\ cache[i].size = ask[a].size
      /\ cache[i] \in Entries /\ Refers(cache[i], state, last, journal, cur)
  BY <1>1 DEF Hits, LedgerInv
<1>4. /\ ask'[a].pc = "held" /\ ask'[a].attempt = ask[a].attempt /\ ask'[a].size = ask[a].size
      /\ ask'[a].id = cache[i].id
      /\ \A b \in Askers : b # a => ask'[b] = ask[b]
  BY <1>2 DEF LedgerInv
<1>5. ask' \in [Askers -> [pc : {"idle", "sized", "held"}, attempt : 0..2, size : Nat, id : Nat]]
  <2>1. cache[i].id \in Nat
    BY <1>3 DEF Entries
  <2> QED BY <1>2, <2>1, ZenonT(60) DEF LedgerInv
<1>6. Refers(ask'[a], state, last, journal, cur)
  BY <1>3, <1>4 DEF Refers
<1>7. \A b \in Askers : ask'[b].pc = "held" => Refers(ask'[b], state, last, journal, cur)
  BY <1>4, <1>6 DEF LedgerInv
<1>8. \A b \in Askers : ask'[b].pc = "sized" =>
                         ask'[b].attempt \in 1..cur /\ ask'[b].size <= 2 * Len(journal[ask'[b].attempt]) + 1
  BY <1>4 DEF LedgerInv
<1>9. cache' \in Seq(Entries) /\ \A j \in 1..Len(cache') : Refers(cache'[j], state, last, journal, cur)
  BY <1>2, <1>3, TouchedRefers DEF LedgerInv
<1>10. \A x : Refers(x, state, last, journal, cur) => Refers(x, state', last', journal', cur')
  BY <1>2 DEF Refers, Replays
<1>11. last'.id # 0 => /\ last'.id \in 1..Len(state') /\ last'.attempt \in 1..cur'
                       /\ Replays(state'[last'.id], journal'[last'.attempt])
  BY <1>2 DEF LedgerInv, Replays
<1>12. \A b \in Askers : ask'[b].pc = "held" => Refers(ask'[b], state', last', journal', cur')
  BY <1>7, <1>10
<1>13. \A j \in 1..Len(cache') : Refers(cache'[j], state', last', journal', cur')
  BY <1>9, <1>10
<1>14. \A b \in Askers : ask'[b].pc = "sized" =>
                         ask'[b].attempt \in 1..cur' /\ ask'[b].size <= 2 * Len(journal'[ask'[b].attempt]) + 1
  BY <1>2, <1>8
<1>15. state' \in Seq(States) /\ last' \in [attempt : 0..2, id : Nat]
  BY <1>2 DEF LedgerInv
<1> QED BY <1>5, <1>9, <1>11, <1>12, <1>13, <1>14, <1>15 DEF LedgerInv, Refers

\* A request of another size goes on behind the last ledger or begins anew.
LEMMA MissStep ==
  ASSUME FileInv, LedgerInv, NEW a \in Askers, Reduces(a), Hits(a) = {}
  PROVE  LedgerInv'
<1> DEFINE id == IF GoesOn(a) THEN last.id ELSE Len(state) + 1
           old == IF GoesOn(a) THEN state[last.id] ELSE [ledger |-> NoLedger, cursor |-> 0, torn |-> FALSE]
           k == ask[a].attempt
           size == ask[a].size
           new == [ledger |-> Ledger(old.ledger, Between(k, old.cursor, size)),
                   cursor |-> size, torn |-> old.torn \/ size % 2 = 1]
           e == [attempt |-> k, size |-> size, id |-> id]
<1>1. /\ state' = IF GoesOn(a) THEN [state EXCEPT ![id] = new] ELSE Append(state, new)
      /\ last' = [last EXCEPT !.attempt = k, !.id = id]
      /\ cache' = Stored(e)
      /\ ask' = [ask EXCEPT ![a].pc = "held", ![a].id = id]
      /\ ask[a].pc = "sized" /\ UNCHANGED <<journal, cur>>
  BY DEF Reduces, file
<1>2. /\ k \in 1..cur /\ size \in Nat /\ size <= 2 * Len(journal[k]) + 1
      /\ state \in Seq(States) /\ Len(state) \in Nat /\ \A i \in 1..Len(state) : state[i] \in States
      /\ last \in [attempt : 0..2, id : Nat]
  BY <1>1 DEF LedgerInv
<1>3. k \in Attempts /\ cur \in 0..2 /\ journal[k] \in Seq(Records)
  BY <1>2, FileFacts
<1>4. GoesOn(a) => /\ last.id \in 1..Len(state) /\ last.attempt = k /\ state[last.id].cursor <= size
                   /\ Replays(state[last.id], journal[k]) /\ old = state[last.id] /\ old \in States
  <2> SUFFICES ASSUME GoesOn(a)
               PROVE  /\ last.id \in 1..Len(state) /\ last.attempt = k /\ state[last.id].cursor <= size
                      /\ Replays(state[last.id], journal[k]) /\ state[last.id] \in States
    OBVIOUS
  <2>1. last.id # 0 /\ last.attempt = k /\ size >= state[last.id].cursor
    BY DEF GoesOn
  <2>2. last.id \in 1..Len(state) /\ Replays(state[last.id], journal[k])
    BY <2>1 DEF LedgerInv
  <2>3. state[last.id] \in States
    BY <1>2, <2>2
  <2>4. state[last.id].cursor <= size
    BY <1>2, <2>1, <2>3 DEF States
  <2> QED BY <2>1, <2>2, <2>3, <2>4
<1>5. ~GoesOn(a) => old \in States /\ old.cursor = 0 /\ Replays(old, journal[k])
  <2> DEFINE fresh == [ledger |-> NoLedger, cursor |-> 0, torn |-> FALSE]
  <2>1. fresh \in States
    BY ReduceStepType DEF States
  <2>2. SubSeq(journal[k], 1, 0) = <<>> /\ Len(journal[k]) \in Nat
    BY <1>3, SubSeqEmpty
  <2>3. Decoded(<<>>) = <<>>
    <3>1. <<>> \in Seq(Records)
      OBVIOUS
    <3> QED BY <3>1, DecodedFacts
  <2>4. Ledger(NoLedger, <<>>) = NoLedger
    <3>1. <<>> \in Seq(Records)
      OBVIOUS
    <3>2. Ledger(NoLedger, <<>>) = Fold(<<>>, NoLedger, ReduceStep)
      BY <3>1, ReduceStepType, LedgerIsFold
    <3>3. Fold(<<>>, NoLedger, ReduceStep) = NoLedger
      BY <1>3, ReduceStepType, FoldFacts
    <3> QED BY <3>2, <3>3
  <2>5. fresh.cursor = 0 /\ fresh.ledger = NoLedger
    OBVIOUS
  <2>6. fresh.cursor \div 2 = 0 /\ fresh.cursor % 2 = 0
    OBVIOUS
  <2> HIDE DEF fresh
  <2>7. Replays(fresh, journal[k])
    <3>1. SubSeq(journal[k], 1, fresh.cursor \div 2) = <<>>
      BY <2>2, <2>6
    <3>2. Decoded(SubSeq(journal[k], 1, fresh.cursor \div 2)) = <<>>
      BY <2>3, <3>1
    <3>3. fresh.ledger = Ledger(NoLedger, Decoded(SubSeq(journal[k], 1, fresh.cursor \div 2)))
      BY <2>4, <2>5, <3>2
    <3>4. fresh.cursor \div 2 <= Len(journal[k])
      BY <2>2, <2>6
    <3> QED BY <2>6, <3>3, <3>4 DEF Replays
  <2> QED BY <2>1, <2>5, <2>7 DEF fresh
<1>6. old \in States /\ old.cursor <= size /\ Replays(old, journal[k])
  BY <1>2, <1>4, <1>5
<1> HIDE DEF old
<1>7. new \in States /\ Replays(new, journal[k]) /\ new.cursor = size
  BY <1>2, <1>6, ReducedOn
<1> HIDE DEF new
<1>8. /\ id \in 1..Len(state') /\ state' \in Seq(States) /\ state'[id] = new
      /\ \A i \in 1..Len(state) : i \in 1..Len(state') /\ (i # id => state'[i] = state[i])
      /\ (\A i \in 1..Len(state) : i = id => GoesOn(a))
  BY <1>1, <1>2, <1>4, <1>7
<1> HIDE DEF id
<1>9. e \in Entries /\ e.id = id /\ e.attempt = k /\ e.size = size /\ id \in Nat
  BY <1>2, <1>3, <1>8 DEF Entries
<1> HIDE DEF e
<1>10. last'.id = id /\ last'.attempt = k /\ last' \in [attempt : 0..2, id : Nat]
  <2>1. k \in 0..2
    BY <1>3 DEF Attempts
  <2> HIDE DEF k
  <2> QED BY <1>1, <1>2, <1>9, <2>1
<1>11. ASSUME NEW x, Refers(x, state, last, journal, cur), x.size \in Nat
       PROVE  Refers(x, state', last', journal, cur)
  <2>1. /\ x.id \in 1..Len(state) /\ x.attempt \in 1..cur /\ Replays(state[x.id], journal[x.attempt])
        /\ x.size <= state[x.id].cursor /\ (x.id = last.id => x.attempt = last.attempt)
    BY <1>11 DEF Refers
  <2>2. CASE x.id = id
    <3>1. GoesOn(a) /\ id = last.id
      BY <1>8, <2>1, <2>2 DEF id
    <3>2. x.attempt = k /\ state[x.id].cursor <= size /\ state[x.id] \in States
      BY <1>2, <1>4, <2>1, <2>2, <3>1
    <3>3. x.size <= size
      BY <1>2, <1>11, <2>1, <3>2 DEF States
    <3>4. state'[x.id] = new
      BY <1>8, <2>2
    <3> QED BY <1>2, <1>7, <1>8, <1>10, <2>2, <3>2, <3>3, <3>4 DEF Refers
  <2>3. CASE x.id # id
    BY <1>8, <1>10, <2>1, <2>3 DEF Refers
  <2> QED BY <2>2, <2>3
<1>12. Refers(e, state', last', journal, cur)
  BY <1>2, <1>7, <1>8, <1>9, <1>10 DEF Refers
<1>13. /\ ask'[a].pc = "held" /\ ask'[a].attempt = k /\ ask'[a].size = size /\ ask'[a].id = id
       /\ \A b \in Askers : b # a => ask'[b] = ask[b]
       /\ ask' \in [Askers -> [pc : {"idle", "sized", "held"}, attempt : 0..2, size : Nat, id : Nat]]
  BY <1>1, <1>9, ZenonT(60) DEF LedgerInv
<1>14. Refers(ask'[a], state', last', journal, cur)
  BY <1>9, <1>12, <1>13 DEF Refers
<1>15. \A b \in Askers : ask'[b].pc = "held" => Refers(ask'[b], state', last', journal, cur)
  <2>1. \A b \in Askers : ask[b].size \in Nat
    BY DEF LedgerInv
  <2> QED BY <1>11, <1>13, <1>14, <2>1 DEF LedgerInv
<1>16. cache' \in Seq(Entries) /\ \A j \in 1..Len(cache') : Refers(cache'[j], state', last', journal, cur)
  <2>1. \A m \in 1..Len(cache) : cache[m].size \in Nat /\ Refers(cache[m], state, last, journal, cur)
    <3>1. \A m \in 1..Len(cache) : cache[m] \in Entries /\ Refers(cache[m], state, last, journal, cur)
      BY DEF LedgerInv
    <3> QED BY <3>1 DEF Entries
  <2>2. \A m \in 1..Len(cache) : Refers(cache[m], state', last', journal, cur)
    BY <1>11, <2>1
  <2>3. /\ cache' \in Seq(Entries)
        /\ \A j \in 1..Len(cache') : cache'[j] = e \/ \E m \in 1..Len(cache) : cache'[j] = cache[m]
    BY <1>1, <1>9, StoredRefers
  <2> QED BY <1>12, <2>2, <2>3
<1>17. Replays(state'[last'.id], journal[last'.attempt])
  BY <1>7, <1>8, <1>10
<1>18. \A b \in Askers : ask'[b].pc = "sized" =>
                          ask'[b].attempt \in 1..cur /\ ask'[b].size <= 2 * Len(journal[ask'[b].attempt]) + 1
  BY <1>13 DEF LedgerInv
<1>19. journal' = journal /\ cur' = cur
  BY <1>1
<1>20. last'.id \in 1..Len(state') /\ last'.attempt \in 1..cur
  BY <1>2, <1>8, <1>10
<1>21. LedgerInv'
  BY <1>8, <1>10, <1>13, <1>15, <1>16, <1>17, <1>18, <1>19, <1>20 DEF LedgerInv, Refers
<1> QED BY <1>21

LEMMA LedgerInvStep == FileInv /\ FileInv' /\ LedgerInv /\ [Next]_vars => LedgerInv'
<1> SUFFICES ASSUME FileInv, FileInv', LedgerInv, [Next]_vars PROVE LedgerInv'
  OBVIOUS
<1>1. CASE Crash
  <2>1. /\ ask' = [b \in Askers |-> NoAsk] /\ state' = <<>> /\ last' = [attempt |-> 0, id |-> 0] /\ cache' = <<>>
    BY <1>1 DEF Crash
  <2>2. Len(cache') = 0
    BY <2>1
  <2> QED BY <2>1, <2>2 DEF LedgerInv, NoAsk
<1>2. ASSUME NEW a \in Askers, TakeSize(a)
      PROVE  LedgerInv'
  BY <1>2, TakeSizeStep
<1>3. ASSUME NEW a \in Askers, Reduces(a)
      PROVE  LedgerInv'
  BY <1>3, HitStep, MissStep
<1>4. CASE ~Crash /\ ~Asker
  <2>1. UNCHANGED <<ask, state, last, cache>>
    BY <1>4 DEF Next, vars, asking
  <2>2. Grows
    BY NextMoves, FileStep
  <2> QED BY <2>1, <2>2, LedgerWaits
<1> QED BY <1>1, <1>2, <1>3, <1>4 DEF Asker

\* Every ledger a request answers with is the reduction of a prefix of its
\* attempt's journal that holds what the request's size covers, for every number
\* of requests, sizes, cache entries and attempts (_cached_calls).
THEOREM LedgersAreReplays == Spec => []LedgerIsReplay
<1>1. Init => FileInv /\ LedgerInv
  BY FileStart, LedgerStart DEF Init
<1>2. FileInv /\ LedgerInv /\ [Next]_vars => (FileInv /\ LedgerInv)'
  BY NextMoves, FileStep, LedgerInvStep
<1>3. FileInv /\ LedgerInv => LedgerIsReplay
  <2> SUFFICES ASSUME FileInv, LedgerInv, NEW a \in Askers, ask[a].pc = "held", ~state[ask[a].id].torn
               PROVE  \E n \in (ask[a].size \div 2)..Len(journal[ask[a].attempt]) :
                        state[ask[a].id].ledger =
                          Ledger(NoLedger, Decoded(SubSeq(journal[ask[a].attempt], 1, n)))
    BY DEF LedgerIsReplay
  <2> DEFINE s == state[ask[a].id]
             n == s.cursor \div 2
  <2>1. /\ ask[a].id \in 1..Len(state) /\ ask[a].attempt \in 1..cur /\ Replays(s, journal[ask[a].attempt])
        /\ ask[a].size <= s.cursor /\ ask[a].size \in Nat
    BY DEF LedgerInv, Refers
  <2>2. s \in States
    BY <2>1 DEF LedgerInv
  <2>3. s.cursor \in Nat
    BY <2>2 DEF States
  <2>4. /\ n <= Len(journal[ask[a].attempt])
        /\ s.ledger = Ledger(NoLedger, Decoded(SubSeq(journal[ask[a].attempt], 1, n)))
    BY <2>1 DEF Replays
  <2>5. Len(journal[ask[a].attempt]) \in Nat
    BY <2>1, FileFacts
  <2>6. n \in (ask[a].size \div 2)..Len(journal[ask[a].attempt])
    <3>1. n \in Nat /\ ask[a].size \div 2 \in Nat /\ ask[a].size \div 2 <= n
      BY <2>1, <2>3, Halves
    <3> HIDE DEF n
    <3> QED BY <2>4, <2>5, <3>1
  <2> HIDE DEF n, s
  <2> QED BY <2>4, <2>6 DEF s
<1> QED BY <1>1, <1>2, <1>3, PTL DEF Spec

-----------------------------------------------------------------------------
\* The run graph, as a fold over the facts of its journal.

GraphStep == [e \in Graph!Facts |-> [g \in Graph!Graphs |-> Graph!Reduced(g, e)]]
RebuildsBy(g, s, f) ==
  f = [n \in 0..Len(s) |-> IF n = 0 THEN g ELSE Graph!Reduced(f[n - 1], s[n])]

\* What one fact changes.
LEMMA ReducedFacts ==
  ASSUME NEW g \in Graph!Graphs, NEW e \in Graph!Facts
  PROVE  /\ Graph!Reduced(g, e) \in Graph!Graphs /\ Graph!Reduced(g, e).cursor = g.cursor + 1
         /\ e.agent = NoOne => /\ Graph!Reduced(g, e).node = g.node
                               /\ Graph!Reduced(g, e).run = Graph!RunAfter(g.run, e.type)
         /\ e.agent # NoOne =>
              /\ e.agent \in Agents /\ Graph!Reduced(g, e).run = g.run
              /\ \A a \in Agents : a # e.agent => Graph!Reduced(g, e).node[a] = g.node[a]
              /\ Graph!Reduced(g, e).node[e.agent].state = Graph!NodeAfter("pending", e.type)
              /\ Graph!Reduced(g, e).node[e.agent].parent = Graph!ParentAfter(g.node[e.agent], e)
              /\ Graph!Reduced(g, e).node[e.agent].origin # "none"
<1>1. /\ NoOne \notin Agents /\ g.node \in [Agents -> Graph!Nodes] /\ g.cursor \in Nat /\ g.run \in Graph!RunStates
      /\ g = [run |-> g.run, node |-> g.node, cursor |-> g.cursor]
  BY GraphAssumption DEF Graph!ReplayConstants, Graph!NoOneAssumption, Graph!Graphs
<1>2. CASE e.agent = NoOne
  <2>1. /\ Graph!Reduced(g, e).node = g.node /\ Graph!Reduced(g, e).cursor = g.cursor + 1
        /\ Graph!Reduced(g, e).run = Graph!RunAfter(g.run, e.type)
        /\ Graph!Reduced(g, e) = [run |-> Graph!RunAfter(g.run, e.type), node |-> g.node, cursor |-> g.cursor + 1]
    BY <1>1, <1>2 DEF Graph!Reduced
  <2>2. Graph!RunAfter(g.run, e.type) \in Graph!RunStates
    BY <1>1 DEF Graph!RunAfter, Graph!RunStates
  <2> QED BY <1>1, <1>2, <2>1, <2>2 DEF Graph!Graphs
<1>3. CASE e.agent # NoOne
  <2> DEFINE a == e.agent
             x == [state |-> Graph!NodeAfter(g.node[a].state, e.type), parent |-> Graph!ParentAfter(g.node[a], e),
                   origin |-> IF e.task THEN "runtime" ELSE "blueprint"]
  <2>1. a \in Agents /\ e.type \in Graph!AgentFacts /\ e.parent \in Agents \cup {NoOne} /\ g.node[a] \in Graph!Nodes
    BY <1>1, <1>3 DEF Graph!Facts
  <2>2. x.state = Graph!NodeAfter("pending", e.type) /\ x.state \in Graph!NodeStates
    BY <2>1 DEF Graph!NodeAfter, Graph!AgentFacts, Graph!NodeStates, Graph!Finished
  <2>3. x.parent \in Agents \cup {NoOne} /\ x.origin \in {"none", "blueprint", "runtime"} /\ x.origin # "none"
    BY <2>1 DEF Graph!ParentAfter, Graph!Nodes
  <2>4. x \in Graph!Nodes
    BY <2>2, <2>3 DEF Graph!Nodes
  <2>5. Graph!Reduced(g, e) = [run |-> g.run, node |-> [g.node EXCEPT ![a] = x], cursor |-> g.cursor + 1]
    BY <1>1, <1>3, <2>1 DEF Graph!Reduced
  <2>6. x.parent = Graph!ParentAfter(g.node[a], e)
    OBVIOUS
  <2> HIDE DEF x
  <2>7. /\ [g.node EXCEPT ![a] = x] \in [Agents -> Graph!Nodes] /\ [g.node EXCEPT ![a] = x][a] = x
        /\ \A b \in Agents : b # a => [g.node EXCEPT ![a] = x][b] = g.node[b]
    BY <1>1, <2>1, <2>4
  <2>8. Graph!Reduced(g, e) \in Graph!Graphs
    BY <1>1, <2>5, <2>7 DEF Graph!Graphs
  <2>9. Graph!Reduced(g, e).node = [g.node EXCEPT ![a] = x] /\ Graph!Reduced(g, e).cursor = g.cursor + 1
        /\ Graph!Reduced(g, e).run = g.run
    BY <2>5
  <2> QED BY <1>3, <2>1, <2>2, <2>3, <2>6, <2>7, <2>8, <2>9
<1> QED BY <1>2, <1>3

LEMMA GraphStepType == GraphStep \in Maps(Graph!Facts, Graph!Graphs)
<1>1. \A e \in Graph!Facts, g \in Graph!Graphs : Graph!Reduced(g, e) \in Graph!Graphs
  BY ReducedFacts
<1>2. [e \in Graph!Facts |-> [g \in Graph!Graphs |-> Graph!Reduced(g, e)]]
        \in [Graph!Facts -> [Graph!Graphs -> Graph!Graphs]]
  BY <1>1
<1> QED BY <1>2 DEF GraphStep, Maps

LEMMA ReplayIsFold ==
  ASSUME NEW l \in Graph!Graphs, NEW records \in Seq(Graph!Facts)
  PROVE  Graph!Replay(l, records) = Fold(records, l, GraphStep)
<1>1. PICK f \in [0..Len(records) -> Graph!Graphs] :
        /\ Folds(f, records, l, GraphStep) /\ Fold(records, l, GraphStep) = f[Len(records)]
        /\ f[0] = l /\ \A n \in 1..Len(records) : f[n] = GraphStep[records[n]][f[n - 1]]
  BY GraphStepType, FoldSteps
<1>2. Len(records) \in Nat /\ \A n \in 1..Len(records) : records[n] \in Graph!Facts
  OBVIOUS
<1>3. \A r \in Graph!Facts, v \in Graph!Graphs : GraphStep[r][v] = Graph!Reduced(v, r)
  BY DEF GraphStep
<1>4. RebuildsBy(l, records, f)
  <2> DEFINE g == [n \in 0..Len(records) |-> IF n = 0 THEN l ELSE Graph!Reduced(f[n - 1], records[n])]
  <2>1. ASSUME NEW n \in 0..Len(records)
        PROVE  f[n] = g[n]
    <3>1. CASE n = 0
      BY <1>1, <3>1
    <3>2. CASE n # 0
      <4>1. n \in 1..Len(records) /\ n - 1 \in 0..Len(records)
        BY <1>2, <3>2
      <4>2. f[n - 1] \in Graph!Graphs /\ records[n] \in Graph!Facts /\ f[n] = GraphStep[records[n]][f[n - 1]]
        BY <1>1, <1>2, <4>1
      <4> QED BY <1>3, <3>2, <4>2
    <3> QED BY <3>1, <3>2
  <2>2. f = [n \in 0..Len(records) |-> f[n]] /\ g = [n \in 0..Len(records) |-> g[n]]
    BY <1>1
  <2>3. f = g
    <3> HIDE DEF g
    <3> QED BY <2>1, <2>2
  <2> QED BY <2>3 DEF RebuildsBy
<1> DEFINE d == CHOOSE x : RebuildsBy(l, records, x)
<1>5. Graph!Replay(l, records) = d[Len(records)]
  BY DEF Graph!Replay, RebuildsBy
<1>6. RebuildsBy(l, records, d)
  BY <1>4
<1> HIDE DEF d
<1>7. d[0] = l /\ \A n \in 1..Len(records) : d[n] = Graph!Reduced(d[n - 1], records[n])
  <2> DEFINE g == [n \in 0..Len(records) |-> IF n = 0 THEN l ELSE Graph!Reduced(d[n - 1], records[n])]
  <2>1. g[0] = l /\ \A n \in 1..Len(records) : g[n] = Graph!Reduced(d[n - 1], records[n])
    BY <1>2
  <2>2. d = g
    BY <1>6 DEF RebuildsBy
  <2> HIDE DEF g
  <2> QED BY <2>1, <2>2
<1>8. \A n \in 1..Len(records) : d[n - 1] \in Graph!Graphs => d[n] = GraphStep[records[n]][d[n - 1]]
  BY <1>2, <1>3, <1>7
<1>9. d[Len(records)] = Fold(records, l, GraphStep)
  <2>1. d[0] = l
    BY <1>7
  <2> QED BY <1>8, <2>1, GraphStepType, FoldIs
<1> QED BY <1>5, <1>9

LEMMA ReplayFacts ==
  ASSUME NEW g \in Graph!Graphs, NEW s \in Seq(Graph!Facts)
  PROVE  /\ Graph!Replay(g, s) \in Graph!Graphs /\ Graph!Replay(g, <<>>) = g
         /\ \A e \in Graph!Facts : Graph!Replay(g, Append(s, e)) = Graph!Reduced(Graph!Replay(g, s), e)
<1>1. <<>> \in Seq(Graph!Facts) /\ \A e \in Graph!Facts : Append(s, e) \in Seq(Graph!Facts)
  OBVIOUS
<1>2. \A x \in Seq(Graph!Facts) : Graph!Replay(g, x) = Fold(x, g, GraphStep)
  BY ReplayIsFold
<1>3. /\ Fold(s, g, GraphStep) \in Graph!Graphs /\ Fold(<<>>, g, GraphStep) = g
      /\ \A e \in Graph!Facts : Fold(Append(s, e), g, GraphStep) = GraphStep[e][Fold(s, g, GraphStep)]
  BY GraphStepType, FoldFacts
<1>4. \A e \in Graph!Facts, v \in Graph!Graphs : GraphStep[e][v] = Graph!Reduced(v, e)
  BY DEF GraphStep
<1> QED BY <1>1, <1>2, <1>3, <1>4

LEMMA ReplayConcat ==
  ASSUME NEW g \in Graph!Graphs, NEW s \in Seq(Graph!Facts), NEW t \in Seq(Graph!Facts)
  PROVE  Fold(s \o t, g, GraphStep) = Fold(t, Fold(s, g, GraphStep), GraphStep)
BY GraphStepType, FoldConcat

\* A replay does not tell graphs apart that its first fact makes the same.
LEMMA ReplaySame ==
  ASSUME NEW g \in Graph!Graphs, NEW h \in Graph!Graphs, NEW s \in Seq(Graph!Facts), s # <<>>,
         Graph!Reduced(g, s[1]) = Graph!Reduced(h, s[1])
  PROVE  Graph!Replay(g, s) = Graph!Replay(h, s)
<1>1. /\ <<>> \in Seq(Graph!Facts) /\ <<s[1]>> \in Seq(Graph!Facts) /\ Tail(s) \in Seq(Graph!Facts)
      /\ s = <<s[1]>> \o Tail(s) /\ s[1] \in Graph!Facts /\ Append(<<>>, s[1]) = <<s[1]>>
  OBVIOUS
<1>2. ASSUME NEW x \in Graph!Graphs
      PROVE  Graph!Replay(x, s) = Fold(Tail(s), Graph!Reduced(x, s[1]), GraphStep)
  <2>1. Graph!Replay(x, s) = Fold(s, x, GraphStep) /\ Graph!Replay(x, <<s[1]>>) = Fold(<<s[1]>>, x, GraphStep)
    BY <1>1, ReplayIsFold
  <2>2. Fold(<<s[1]>> \o Tail(s), x, GraphStep) = Fold(Tail(s), Fold(<<s[1]>>, x, GraphStep), GraphStep)
    <3> DEFINE u == <<s[1]>>
    <3>1. u \in Seq(Graph!Facts) /\ Tail(s) \in Seq(Graph!Facts)
      BY <1>1
    <3> HIDE DEF u
    <3>2. Fold(u \o Tail(s), x, GraphStep) = Fold(Tail(s), Fold(u, x, GraphStep), GraphStep)
      BY <3>1, ReplayConcat
    <3> QED BY <3>2 DEF u
  <2>3. Graph!Replay(x, Append(<<>>, s[1])) = Graph!Reduced(Graph!Replay(x, <<>>), s[1])
    BY <1>1, ReplayFacts
  <2>4. Graph!Replay(x, <<>>) = x
    BY <1>1, ReplayFacts
  <2> QED BY <1>1, <2>1, <2>2, <2>3, <2>4
<1> QED BY <1>2

-----------------------------------------------------------------------------
\* The graph a snapshot and the facts behind it give.

Snaps == {s \in [run : Graph!RunStates, node : [Agents -> Graph!Nodes], cursor : Int] :
            s.cursor \in Nat \/ s = Graph!NoSnap}
Rebuilt(s, x) == Graph!Seeded("running", s, x)
WholeOf(x) == Rebuilt(Graph!NoSnap, x)
Opening(x) == x # <<>> /\ x[1] = Graph!RunFact("execution_started")
\* The graph of a snapshot alone.
Restored(s) == [run |-> s.run, cursor |-> s.cursor,
                node |-> [a \in Agents |-> IF s.node[a].origin = "none" THEN Graph!Unknown ELSE s.node[a]]]

LEMMA EmptyGraphs ==
  /\ Graph!Unknown \in Graph!Nodes /\ [a \in Agents |-> Graph!Unknown] \in [Agents -> Graph!Nodes]
  /\ \A r \in Graph!RunStates : Graph!EmptyGraph(r) \in Graph!Graphs
  /\ Graph!NoSnap \in Snaps /\ Graph!NoSnap.cursor = -1 /\ "running" \in Graph!RunStates
<1>1. Graph!Unknown \in Graph!Nodes
  BY DEF Graph!Unknown, Graph!Nodes, Graph!NodeStates
<1>2. [a \in Agents |-> Graph!Unknown] \in [Agents -> Graph!Nodes]
  BY <1>1
<1>3. \A r \in Graph!RunStates : Graph!EmptyGraph(r) \in Graph!Graphs
  BY <1>2 DEF Graph!EmptyGraph, Graph!Graphs
<1>4. "idle" \in Graph!RunStates /\ "running" \in Graph!RunStates
  BY DEF Graph!RunStates
<1>5. Graph!NoSnap \in Snaps /\ Graph!NoSnap.cursor = -1
  BY <1>2, <1>4 DEF Graph!NoSnap, Snaps
<1> QED BY <1>1, <1>2, <1>3, <1>4, <1>5

LEMMA HydratedIs ==
  ASSUME NEW s \in Snaps, s # Graph!NoSnap, NEW r \in Graph!RunStates
  PROVE  Graph!Hydrated(Graph!EmptyGraph(r), s) = Restored(s) /\ Restored(s) \in Graph!Graphs
<1>1. s.node \in [Agents -> Graph!Nodes] /\ s.run \in Graph!RunStates /\ s.cursor \in Nat
  BY DEF Snaps
<1>2. ASSUME NEW a \in Agents, s.node[a].origin # "none"
      PROVE  Graph!NodeOf(s.node[a], Graph!Unknown) = s.node[a]
  <2>1. s.node[a] \in Graph!Nodes
    BY <1>1
  <2> QED BY <2>1 DEF Graph!NodeOf, Graph!Unknown, Graph!Nodes
<1> DEFINE w == [a \in Agents |-> IF s.node[a].origin = "none" THEN Graph!Unknown ELSE s.node[a]]
           u == [a \in Agents |-> Graph!Unknown]
<1>3. w \in [Agents -> Graph!Nodes]
  BY <1>1, EmptyGraphs
<1>4. Graph!ApplyLive(Graph!EmptyGraph(r), s.node) = [run |-> r, node |-> w, cursor |-> 0]
  <2>1. \A a \in Agents : u[a] = Graph!Unknown
    OBVIOUS
  <2>2. [a \in Agents |-> IF s.node[a].origin = "none" THEN u[a] ELSE Graph!NodeOf(s.node[a], u[a])] = w
    BY <1>2, <2>1
  <2>3. Graph!EmptyGraph(r) = [run |-> r, node |-> u, cursor |-> 0]
    BY DEF Graph!EmptyGraph
  <2> HIDE DEF w, u
  <2> QED BY <2>2, <2>3 DEF Graph!ApplyLive
<1>5. Restored(s) = [run |-> s.run, cursor |-> s.cursor, node |-> w]
  BY DEF Restored
<1> HIDE DEF w
<1> DEFINE z == Graph!ApplyLive(Graph!EmptyGraph(r), s.node)
<1>6. z \in Graph!Graphs /\ z.node = w
  BY <1>3, <1>4 DEF Graph!Graphs
<1>7. Graph!Hydrated(Graph!EmptyGraph(r), s) = [z EXCEPT !.run = s.run, !.cursor = s.cursor]
  BY DEF Graph!Hydrated
<1> HIDE DEF z
<1>8. [z EXCEPT !.run = s.run, !.cursor = s.cursor] = [run |-> s.run, cursor |-> s.cursor, node |-> w]
  <2> DEFINE c == [z EXCEPT !.run = s.run, !.cursor = s.cursor]
  <2>1. c \in Graph!Graphs /\ c.run = s.run /\ c.cursor = s.cursor /\ c.node = w
    BY <1>1, <1>6 DEF Graph!Graphs
  <2> HIDE DEF c
  <2>2. c = [run |-> s.run, cursor |-> s.cursor, node |-> w]
    BY <2>1 DEF Graph!Graphs
  <2> QED BY <2>2 DEF c
<1>9. Restored(s) \in Graph!Graphs
  BY <1>1, <1>3, <1>5 DEF Graph!Graphs
<1> QED BY <1>5, <1>7, <1>8, <1>9

LEMMA RestOfAppend ==
  ASSUME NEW S, NEW x \in Seq(S), NEW e \in S, NEW c \in 0..Len(x)
  PROVE  SubSeq(Append(x, e), c + 1, Len(x) + 1) = Append(SubSeq(x, c + 1, Len(x)), e)
<1> DEFINE y == Append(x, e)
           l == SubSeq(y, c + 1, Len(x) + 1)
           z == SubSeq(x, c + 1, Len(x))
<1>1. Len(x) \in Nat /\ y \in Seq(S) /\ Len(y) = Len(x) + 1 /\ \A i \in 1..Len(x) : y[i] = x[i]
  OBVIOUS
<1>2. y[Len(x) + 1] = e
  OBVIOUS
<1> HIDE DEF y
<1>3. l \in Seq(S) /\ Len(l) = Len(x) + 1 - c /\ \A i \in 1..(Len(x) + 1 - c) : l[i] = y[c + i]
  BY <1>1
<1>4. z \in Seq(S) /\ Len(z) = Len(x) - c /\ \A i \in 1..(Len(x) - c) : z[i] = x[c + i]
  BY <1>1
<1> HIDE DEF l, z
<1>5. /\ Append(z, e) \in Seq(S) /\ Len(Append(z, e)) = Len(x) - c + 1 /\ Append(z, e)[Len(x) - c + 1] = e
      /\ \A i \in 1..(Len(x) - c) : Append(z, e)[i] = x[c + i]
  BY <1>1, <1>4
<1>6. \A i \in 1..(Len(x) + 1 - c) : l[i] = Append(z, e)[i]
  <2> TAKE i \in 1..(Len(x) + 1 - c)
  <2>1. CASE i = Len(x) + 1 - c
    <3>1. c + i = Len(x) + 1 /\ Len(x) - c + 1 = i
      BY <1>1, <2>1
    <3> QED BY <1>2, <1>3, <1>5, <3>1
  <2>2. CASE i # Len(x) + 1 - c
    <3>1. i \in 1..(Len(x) - c) /\ c + i \in 1..Len(x)
      BY <1>1, <2>2
    <3> QED BY <1>1, <1>3, <1>5, <3>1
  <2> QED BY <2>1, <2>2
<1>7. Len(l) = Len(Append(z, e))
  BY <1>1, <1>3, <1>5
<1> QED BY <1>1, <1>3, <1>5, <1>6, <1>7, SeqEqual DEF l, z, y

LEMMA RebuiltFacts ==
  ASSUME NEW s \in Snaps, NEW x \in Seq(Graph!Facts), s.cursor <= Len(x)
  PROVE  /\ Rebuilt(s, x) \in Graph!Graphs
         /\ \A e \in Graph!Facts : Rebuilt(s, Append(x, e)) = Graph!Reduced(Rebuilt(s, x), e)
         /\ s # Graph!NoSnap /\ s.cursor = Len(x) => Rebuilt(s, x) = Restored(s)
         /\ Opening(x) => \A r \in Graph!RunStates : Graph!Seeded(r, s, x) = Rebuilt(s, x)
<1>1. CASE s = Graph!NoSnap
  <2>1. \A y, r : Graph!Seeded(r, s, y) = Graph!Replay(Graph!EmptyGraph(r), y)
    BY <1>1 DEF Graph!Seeded
  <2>2. /\ Rebuilt(s, x) \in Graph!Graphs
        /\ \A e \in Graph!Facts : Rebuilt(s, Append(x, e)) = Graph!Reduced(Rebuilt(s, x), e)
    BY <2>1, EmptyGraphs, ReplayFacts DEF Rebuilt
  <2>3. ASSUME Opening(x), NEW r \in Graph!RunStates
        PROVE  Graph!Seeded(r, s, x) = Rebuilt(s, x)
    <3>1. \A q \in Graph!RunStates :
            Graph!Reduced(Graph!EmptyGraph(q), x[1]) =
              [run |-> "running", node |-> [a \in Agents |-> Graph!Unknown], cursor |-> 1]
      <4> TAKE q \in Graph!RunStates
      <4> DEFINE g == Graph!EmptyGraph(q)
                 u == [a \in Agents |-> Graph!Unknown]
      <4>1. x[1].agent = NoOne /\ x[1].type = "execution_started" /\ x[1] \in Graph!Facts
        BY <2>3 DEF Opening, Graph!RunFact, Graph!Fact
      <4>2. g \in Graph!Graphs /\ g.node = u /\ g.cursor = 0
        BY EmptyGraphs DEF Graph!EmptyGraph
      <4> HIDE DEF g, u
      <4>3. /\ Graph!Reduced(g, x[1]) \in Graph!Graphs /\ Graph!Reduced(g, x[1]).cursor = 1
            /\ Graph!Reduced(g, x[1]).node = u
            /\ Graph!Reduced(g, x[1]).run = Graph!RunAfter(g.run, "execution_started")
        BY <4>1, <4>2, ReducedFacts, SMTT(40)
      <4>4. Graph!RunAfter(g.run, "execution_started") = "running"
        BY DEF Graph!RunAfter, Graph!RunFinished
      <4>5. Graph!Reduced(g, x[1]) = [run |-> "running", node |-> u, cursor |-> 1]
        BY <4>3, <4>4 DEF Graph!Graphs
      <4> QED BY <4>5 DEF g, u
    <3>2. x # <<>>
      BY <2>3 DEF Opening
    <3> QED BY <2>1, <3>1, <3>2, EmptyGraphs, ReplaySame DEF Rebuilt
  <2> QED BY <1>1, <2>2, <2>3
<1>2. CASE s # Graph!NoSnap
  <2>1. s.cursor \in Nat /\ Len(x) \in Nat
    BY <1>2 DEF Snaps
  <2>2. Restored(s) \in Graph!Graphs
    BY <1>2, EmptyGraphs, HydratedIs
  <2>3. \A y : \A r \in Graph!RunStates :
          Graph!Seeded(r, s, y) = Graph!Replay(Restored(s), Graph!Rest(y, s.cursor))
    BY <1>2, HydratedIs DEF Graph!Seeded
  <2>4. Graph!Rest(x, s.cursor) \in Seq(Graph!Facts)
    BY <2>1 DEF Graph!Rest
  <2>5. ASSUME NEW e \in Graph!Facts
        PROVE  Rebuilt(s, Append(x, e)) = Graph!Reduced(Rebuilt(s, x), e)
    <3>1. Graph!Rest(Append(x, e), s.cursor) = Append(Graph!Rest(x, s.cursor), e)
      <4>1. SubSeq(Append(x, e), s.cursor + 1, Len(x) + 1) = Append(SubSeq(x, s.cursor + 1, Len(x)), e)
        <5>1. s.cursor \in 0..Len(x)
          BY <2>1
        <5> QED BY <5>1, RestOfAppend
      <4>2. Len(Append(x, e)) = Len(x) + 1
        OBVIOUS
      <4> QED BY <4>1, <4>2 DEF Graph!Rest
    <3>2. Graph!Replay(Restored(s), Append(Graph!Rest(x, s.cursor), e))
            = Graph!Reduced(Graph!Replay(Restored(s), Graph!Rest(x, s.cursor)), e)
      BY <2>2, <2>4, ReplayFacts
    <3>3. /\ Rebuilt(s, x) = Graph!Replay(Restored(s), Graph!Rest(x, s.cursor))
          /\ Rebuilt(s, Append(x, e)) = Graph!Replay(Restored(s), Graph!Rest(Append(x, e), s.cursor))
      BY <2>3, EmptyGraphs DEF Rebuilt
    <3> QED BY <3>1, <3>2, <3>3
  <2>6. s.cursor = Len(x) => Rebuilt(s, x) = Restored(s)
    <3> SUFFICES ASSUME s.cursor = Len(x) PROVE Rebuilt(s, x) = Restored(s)
      OBVIOUS
    <3>1. Graph!Rest(x, s.cursor) = <<>>
      BY <2>1 DEF Graph!Rest
    <3> QED BY <2>2, <2>3, <2>4, <3>1, EmptyGraphs, ReplayFacts DEF Rebuilt
  <2>7. Rebuilt(s, x) \in Graph!Graphs
    BY <2>2, <2>3, <2>4, EmptyGraphs, ReplayFacts DEF Rebuilt
  <2>8. \A r \in Graph!RunStates : Graph!Seeded(r, s, x) = Rebuilt(s, x)
    BY <2>3, EmptyGraphs DEF Rebuilt
  <2> QED BY <1>2, <2>5, <2>6, <2>7, <2>8
<1> QED BY <1>1, <1>2

-----------------------------------------------------------------------------
\* The invariant of the run graph, in parts.

\* Fact n is the last one about an Agent.
LastAbout(x, a, n) ==
  n \in 1..Len(x) /\ x[n].agent = a /\ \A m \in 1..Len(x) : m > n => x[m].agent # a
\* The facts that end a run.
RunEnds == Graph!RunFinished
\* The facts the attempt's threads write.
Journaled(x) ==
  /\ x \in Seq(Graph!Facts) /\ Opening(x) /\ WholeOf(x).cursor = Len(x)
  /\ \A n \in 1..Len(x) : x[n].parent # NoOne => x[n].parent = Parents[x[n].agent]
  /\ \A n \in 1..Len(x) : x[n].agent # NoOne => WholeOf(x).node[x[n].agent].origin # "none"
\* The live swarm as it was when the journal had so many facts.
Viewed(v, at, x) ==
  /\ v \in Graph!Views
  /\ \A a \in Agents :
       /\ v[a].parent \in {NoOne, Parents[a]}
       /\ v[a].origin = "none" => \A n \in 1..Len(x) : n <= at => x[n].agent # a
       /\ \A n \in 1..Len(x) : LastAbout(x, a, n) /\ n <= at => v[a].state = WholeOf(x).node[a].state
\* The graph seeded from a snapshot whose view, status and facts were read when
\* the journal was so long.
Faithful(s, x, view, asked, read) ==
  /\ s \in Snaps /\ s.cursor <= Len(x) /\ Rebuilt(s, x).cursor = WholeOf(x).cursor
  /\ \A a \in Agents : WholeOf(x).node[a].origin # "none" => Rebuilt(s, x).node[a].origin # "none"
  /\ \A n \in 1..Len(x) : x[n].parent # NoOne => Rebuilt(s, x).node[x[n].agent].parent = x[n].parent
  /\ \A a \in Agents, n \in 1..Len(x) : LastAbout(x, a, n) /\ n \notin (view + 1)..read =>
       Rebuilt(s, x).node[a].state = WholeOf(x).node[a].state
  /\ \A n \in 1..Len(x) : x[n].type \in RunEnds /\ n \notin (asked + 1)..read => Rebuilt(s, x).run = x[n].type

\* What a fact is that does not change an outcome the journal has.
Neutral(e, x) ==
  e.agent # NoOne \/ e.type = "checkpoint_committed" \/ \A n \in 1..Len(x) : x[n].type \notin RunEnds
\* A fact of an Agent, or of the attempt.
Admitted(e) ==
  e \in Graph!Facts /\ (e.parent # NoOne => e.parent = Parents[e.agent])

LEMMA FactFacts ==
  ASSUME NEW e, Admitted(e)
  PROVE  /\ e \in Graph!Facts /\ (e.agent # NoOne => e.agent \in Agents)
         /\ e.parent # NoOne => e.agent \in Agents /\ e.parent = Parents[e.agent] /\ e.parent # e.agent
         /\ e.agent # NoOne => e.type \notin RunEnds
<1>1. NoOne \notin Agents /\ \A a \in Agents : Parents[a] # a
  BY GraphAssumption DEF Graph!ReplayConstants, Graph!NoOneAssumption
<1>2. e \in Graph!Facts /\ (e.parent # NoOne => e.parent = Parents[e.agent])
  BY DEF Admitted
<1>3. CASE e \in [type : Graph!AgentFacts, agent : Agents, parent : Agents \cup {NoOne}, task : BOOLEAN]
  <2>1. e.type \notin RunEnds
    BY <1>3 DEF Graph!AgentFacts, RunEnds, Graph!RunFinished
  <2> QED BY <1>1, <1>2, <1>3, <2>1
<1>4. CASE e \in [type : Graph!RunFacts, agent : {NoOne}, parent : {NoOne}, task : {FALSE}]
  BY <1>2, <1>4
<1> QED BY <1>2, <1>3, <1>4 DEF Graph!Facts

LEMMA AppendedFacts ==
  ASSUME NEW x \in Seq(Graph!Facts), NEW e \in Graph!Facts
  PROVE  /\ Append(x, e) \in Seq(Graph!Facts) /\ Len(x) \in Nat /\ Len(Append(x, e)) = Len(x) + 1
         /\ \A n \in 1..Len(x) : Append(x, e)[n] = x[n] /\ x[n] \in Graph!Facts
         /\ Append(x, e)[Len(x) + 1] = e /\ (Opening(x) => Opening(Append(x, e)))
         /\ \A a \in Agents, n \in 1..(Len(x) + 1) :
              LastAbout(Append(x, e), a, n) => \/ n = Len(x) + 1 /\ e.agent = a
                                               \/ n \in 1..Len(x) /\ e.agent # a /\ LastAbout(x, a, n)
<1> DEFINE y == Append(x, e)
<1>1. /\ y \in Seq(Graph!Facts) /\ Len(x) \in Nat /\ Len(y) = Len(x) + 1
      /\ \A n \in 1..Len(x) : y[n] = x[n] /\ x[n] \in Graph!Facts
      /\ y[Len(x) + 1] = e
  OBVIOUS
<1>2. Opening(x) => Opening(y)
  <2>1. y # <<>>
    BY <1>1
  <2>2. x # <<>> => 1 \in 1..Len(x)
    BY <1>1
  <2> HIDE DEF y
  <2> QED BY <1>1, <2>1, <2>2 DEF Opening
<1> HIDE DEF y
<1>3. ASSUME NEW a \in Agents, NEW n \in 1..(Len(x) + 1), LastAbout(y, a, n)
      PROVE  (n = Len(x) + 1 /\ e.agent = a) \/ (n \in 1..Len(x) /\ e.agent # a /\ LastAbout(x, a, n))
  <2>1. CASE n = Len(x) + 1
    <3>1. y[n] = e /\ y[n].agent = a
      BY <1>1, <1>3, <2>1 DEF LastAbout
    <3> QED BY <2>1, <3>1
  <2>2. CASE n \in 1..Len(x)
    <3>1. Len(x) + 1 \in 1..Len(y) /\ Len(x) + 1 > n
      BY <1>1, <2>2
    <3>2. e.agent # a
      BY <1>1, <1>3, <3>1 DEF LastAbout
    <3>3. LastAbout(x, a, n)
      <4>1. \A m \in 1..Len(x) : m \in 1..Len(y)
        BY <1>1
      <4> QED BY <1>1, <1>3, <2>2, <4>1 DEF LastAbout
    <3> QED BY <2>2, <3>2, <3>3
  <2> QED BY <1>1, <2>1, <2>2
<1> QED BY <1>1, <1>2, <1>3 DEF y

LEMMA JournaledOn ==
  ASSUME NEW x, Journaled(x), NEW e, Admitted(e)
  PROVE  Journaled(Append(x, e)) /\ WholeOf(Append(x, e)) = Graph!Reduced(WholeOf(x), e)
         /\ WholeOf(x) \in Graph!Graphs
<1> DEFINE y == Append(x, e)
<1>1. x \in Seq(Graph!Facts) /\ e \in Graph!Facts /\ Opening(x)
  BY FactFacts DEF Journaled
<1>2. Graph!NoSnap \in Snaps /\ Graph!NoSnap.cursor <= Len(x)
  BY <1>1, EmptyGraphs
<1>3. WholeOf(x) \in Graph!Graphs /\ WholeOf(y) = Graph!Reduced(WholeOf(x), e)
  BY <1>1, <1>2, RebuiltFacts DEF WholeOf
<1>4. /\ y \in Seq(Graph!Facts) /\ Opening(y) /\ Len(x) \in Nat /\ Len(y) = Len(x) + 1
      /\ \A n \in 1..Len(x) : y[n] = x[n] /\ x[n] \in Graph!Facts
      /\ y[Len(x) + 1] = e
  BY <1>1, AppendedFacts
<1> HIDE DEF y
<1>5. \A n \in 1..Len(y) : n \in 1..Len(x) \/ n = Len(x) + 1
  BY <1>4
<1>6. \A n \in 1..Len(y) : y[n].parent # NoOne => y[n].parent = Parents[y[n].agent]
  BY <1>4, <1>5, FactFacts DEF Journaled
<1>7. \A a \in Agents : WholeOf(x).node[a].origin # "none" \/ a = e.agent => WholeOf(y).node[a].origin # "none"
  <2>1. NoOne \notin Agents
    BY GraphAssumption DEF Graph!ReplayConstants, Graph!NoOneAssumption
  <2> DEFINE g == WholeOf(x)
             h == WholeOf(y)
  <2>2. g \in Graph!Graphs /\ h = Graph!Reduced(g, e)
    BY <1>3
  <2> HIDE DEF g, h
  <2>3. /\ e.agent = NoOne => h.node = g.node
        /\ e.agent # NoOne => /\ \A a \in Agents : a # e.agent => h.node[a] = g.node[a]
                              /\ h.node[e.agent].origin # "none"
    BY <1>1, <2>2, ReducedFacts
  <2>4. \A a \in Agents : g.node[a].origin # "none" \/ a = e.agent => h.node[a].origin # "none"
    BY <2>1, <2>3
  <2> QED BY <2>4 DEF g, h
<1>8. \A f \in Graph!Facts : f.agent # NoOne => f.agent \in Agents
  BY DEF Graph!Facts
<1>9. \A n \in 1..Len(y) : y[n].agent # NoOne => WholeOf(y).node[y[n].agent].origin # "none"
  BY <1>1, <1>4, <1>5, <1>7, <1>8 DEF Journaled
<1>10. WholeOf(y).cursor = Len(y)
  <2> DEFINE g == WholeOf(x)
             h == WholeOf(y)
  <2>1. g \in Graph!Graphs /\ h = Graph!Reduced(g, e) /\ g.cursor = Len(x)
    BY <1>3 DEF Journaled
  <2> HIDE DEF g, h
  <2>2. h.cursor = Len(y)
    <3>1. Graph!Reduced(g, e).cursor = g.cursor + 1
      BY <1>1, <2>1, ReducedFacts
    <3> QED BY <1>4, <2>1, <3>1
  <2> QED BY <2>2 DEF h
<1>11. Journaled(y)
  BY <1>4, <1>6, <1>9, <1>10 DEF Journaled
<1> QED BY <1>3, <1>11 DEF y

LEMMA ViewedOn ==
  ASSUME NEW x, Journaled(x), NEW e, Admitted(e), NEW v, NEW at \in Nat, at <= Len(x), Viewed(v, at, x)
  PROVE  Viewed(v, at, Append(x, e))
<1> DEFINE y == Append(x, e)
<1>1. x \in Seq(Graph!Facts) /\ e \in Graph!Facts
  BY FactFacts DEF Journaled
<1>2. WholeOf(x) \in Graph!Graphs /\ WholeOf(y) = Graph!Reduced(WholeOf(x), e)
  BY JournaledOn
<1>3. /\ Len(x) \in Nat /\ Len(y) = Len(x) + 1
      /\ \A n \in 1..Len(x) : y[n] = x[n]
      /\ \A a \in Agents, n \in 1..(Len(x) + 1) :
              LastAbout(y, a, n) => \/ n = Len(x) + 1 /\ e.agent = a
                                    \/ n \in 1..Len(x) /\ e.agent # a /\ LastAbout(x, a, n)
  BY <1>1, AppendedFacts
<1> HIDE DEF y
<1>4. \A n \in 1..Len(y) : n <= at => n \in 1..Len(x)
  BY <1>3
<1>5. ASSUME NEW a \in Agents, NEW n \in 1..Len(y), LastAbout(y, a, n), n <= at
      PROVE  v[a].state = WholeOf(y).node[a].state
  <2>1. n \in 1..Len(x) /\ n # Len(x) + 1
    BY <1>3, <1>4, <1>5
  <2>2. LastAbout(x, a, n) /\ e.agent # a
    BY <1>3, <1>5, <2>1
  <2>3. WholeOf(y).node[a] = WholeOf(x).node[a]
    BY <1>1, <1>2, <2>2, ReducedFacts
  <2> QED BY <1>5, <2>1, <2>2, <2>3 DEF Viewed
<1>6. \A a \in Agents : v[a].origin = "none" => \A n \in 1..Len(y) : n <= at => y[n].agent # a
  BY <1>3, <1>4 DEF Viewed
<1>7. v \in Graph!Views /\ \A a \in Agents : v[a].parent \in {NoOne, Parents[a]}
  BY DEF Viewed
<1>8. Viewed(v, at, y)
  BY <1>5, <1>6, <1>7 DEF Viewed
<1> QED BY <1>8 DEF y

LEMMA FaithfulOn ==
  ASSUME NEW x, Journaled(x), NEW e, Admitted(e), Neutral(e, x),
         NEW s, NEW view \in Nat, NEW asked \in Nat, NEW read \in Nat, Faithful(s, x, view, asked, read)
  PROVE  Faithful(s, Append(x, e), view, asked, read)
<1> DEFINE y == Append(x, e)
           g == Rebuilt(s, x)
           h == Rebuilt(s, y)
           w == WholeOf(x)
           z == WholeOf(y)
<1>1. /\ x \in Seq(Graph!Facts) /\ e \in Graph!Facts /\ s \in Snaps /\ s.cursor <= Len(x)
  BY FactFacts DEF Journaled, Faithful
<1>2. w \in Graph!Graphs /\ z = Graph!Reduced(w, e)
  BY JournaledOn
<1>3. g \in Graph!Graphs /\ h = Graph!Reduced(g, e)
  BY <1>1, RebuiltFacts
<1>4. /\ Len(x) \in Nat /\ Len(y) = Len(x) + 1
      /\ \A n \in 1..Len(x) : y[n] = x[n] /\ x[n] \in Graph!Facts
      /\ y[Len(x) + 1] = e
      /\ \A a \in Agents, n \in 1..(Len(x) + 1) :
              LastAbout(y, a, n) => \/ n = Len(x) + 1 /\ e.agent = a
                                    \/ n \in 1..Len(x) /\ e.agent # a /\ LastAbout(x, a, n)
  BY <1>1, AppendedFacts
<1>5. \A n \in 1..Len(y) : n \in 1..Len(x) \/ n = Len(x) + 1
  BY <1>4
<1>6. /\ \A a \in Agents : w.node[a].origin # "none" => g.node[a].origin # "none"
      /\ \A n \in 1..Len(x) : x[n].parent # NoOne => g.node[x[n].agent].parent = x[n].parent
      /\ \A a \in Agents, n \in 1..Len(x) : LastAbout(x, a, n) /\ n \notin (view + 1)..read =>
           g.node[a].state = w.node[a].state
      /\ \A n \in 1..Len(x) : x[n].type \in RunEnds /\ n \notin (asked + 1)..read => g.run = x[n].type
      /\ g.cursor = w.cursor
  BY DEF Faithful
<1> HIDE DEF y, g, h, w, z
<1>7. e.agent # NoOne =>
        /\ e.agent \in Agents /\ h.run = g.run
        /\ \A a \in Agents : a # e.agent => h.node[a] = g.node[a] /\ z.node[a] = w.node[a]
        /\ h.node[e.agent].state = z.node[e.agent].state /\ h.node[e.agent].origin # "none"
        /\ h.node[e.agent].parent = Graph!ParentAfter(g.node[e.agent], e)
  BY <1>1, <1>2, <1>3, ReducedFacts
<1>8. e.agent = NoOne => h.node = g.node /\ z.node = w.node /\ h.run = Graph!RunAfter(g.run, e.type)
  BY <1>1, <1>2, <1>3, ReducedFacts
<1>9. h.cursor = z.cursor
  BY <1>1, <1>2, <1>3, <1>6, ReducedFacts
<1>10. \A a \in Agents : z.node[a].origin # "none" => h.node[a].origin # "none"
  BY <1>6, <1>7, <1>8
<1>11. NoOne \notin Agents
  BY GraphAssumption DEF Graph!ReplayConstants, Graph!NoOneAssumption
<1>12. ASSUME NEW n \in 1..Len(y), y[n].parent # NoOne
       PROVE  h.node[y[n].agent].parent = y[n].parent
  <2>1. CASE n = Len(x) + 1
    <3>1. y[n] = e /\ e.agent \in Agents /\ e.parent # e.agent /\ e.parent # NoOne
      BY <1>4, <1>12, <2>1, FactFacts
    <3> QED BY <1>7, <1>11, <3>1 DEF Graph!ParentAfter
  <2>2. CASE n \in 1..Len(x)
    <3>1. y[n] = x[n] /\ x[n] \in Graph!Facts /\ x[n].parent # NoOne
      BY <1>4, <1>12, <2>2
    <3>2. x[n].parent = Parents[x[n].agent] /\ x[n].agent \in Agents /\ g.node[x[n].agent].parent = x[n].parent
      <4>1. x[n].parent = Parents[x[n].agent]
        BY <2>2, <3>1 DEF Journaled
      <4>2. x[n].agent \in Agents
        BY <3>1, FactFacts, <4>1 DEF Admitted
      <4> QED BY <1>6, <2>2, <3>1, <4>1, <4>2
    <3>3. CASE e.agent = x[n].agent
      <4>1. h.node[e.agent].parent = Graph!ParentAfter(g.node[e.agent], e)
        BY <1>7, <1>11, <3>2, <3>3
      <4>2. e.parent # NoOne => e.parent = Parents[e.agent]
        BY FactFacts
      <4> QED BY <3>1, <3>2, <3>3, <4>1, <4>2 DEF Graph!ParentAfter
    <3>4. CASE e.agent # x[n].agent
      BY <1>6, <1>7, <1>8, <3>1, <3>2, <3>4
    <3> QED BY <3>3, <3>4
  <2> QED BY <1>5, <2>1, <2>2
<1>13. ASSUME NEW a \in Agents, NEW n \in 1..Len(y), LastAbout(y, a, n), n \notin (view + 1)..read
       PROVE  h.node[a].state = z.node[a].state
  <2>1. (n = Len(x) + 1 /\ e.agent = a) \/ (n \in 1..Len(x) /\ e.agent # a /\ LastAbout(x, a, n))
    <3>1. Len(y) = Len(x) + 1 /\ n \in 1..(Len(x) + 1)
      BY <1>4, <1>13
    <3> QED BY <1>4, <1>13, <3>1
  <2>2. CASE e.agent = a
    BY <1>7, <1>11, <2>2
  <2>3. CASE n \in 1..Len(x) /\ e.agent # a /\ LastAbout(x, a, n)
    BY <1>6, <1>7, <1>8, <1>13, <2>3
  <2> QED BY <2>1, <2>2, <2>3
<1>14. ASSUME NEW n \in 1..Len(y), y[n].type \in RunEnds, n \notin (asked + 1)..read
       PROVE  h.run = y[n].type
  <2>1. CASE n = Len(x) + 1
    <3>1. y[n] = e /\ e.type \in RunEnds /\ e.agent = NoOne
      BY <1>4, <1>14, <2>1, FactFacts
    <3>2. Graph!RunAfter(g.run, e.type) = e.type
      BY <3>1 DEF RunEnds, Graph!RunAfter, Graph!RunFinished
    <3> QED BY <1>8, <3>1, <3>2
  <2>2. CASE n \in 1..Len(x)
    <3>1. y[n] = x[n] /\ g.run = x[n].type
      BY <1>4, <1>6, <1>14, <2>2
    <3>2. CASE e.agent # NoOne
      BY <1>7, <3>1, <3>2
    <3>3. CASE e.agent = NoOne
      <4>1. e.type = "checkpoint_committed"
        BY <1>14, <2>2, <3>1, <3>3 DEF Neutral
      <4>2. Graph!RunAfter(g.run, e.type) = g.run
        BY <4>1 DEF Graph!RunAfter, Graph!RunFinished
      <4> QED BY <1>8, <3>1, <3>3, <4>2
    <3> QED BY <3>2, <3>3
  <2> QED BY <1>5, <2>1, <2>2
<1>15. s \in Snaps /\ s.cursor <= Len(y)
  <2>1. s.cursor \in Int
    BY <1>1 DEF Snaps
  <2> QED BY <1>1, <1>4, <2>1
<1>16. Faithful(s, y, view, asked, read)
  BY <1>9, <1>10, <1>12, <1>13, <1>14, <1>15 DEF Faithful, h, z
<1> QED BY <1>16 DEF y

\* What a hook makes of the checkpoint, the journal and the view it has taken.
LEMMA ProjectFaithful ==
  ASSUME NEW x, Journaled(x), NEW s, NEW before \in Nat, NEW earlier \in Nat, NEW since \in Nat,
         Faithful(s, x, before, earlier, since),
         NEW v, NEW at \in Nat, at <= Len(x), Viewed(v, at, x),
         NEW run \in Graph!RunStates, NEW asked \in Nat,
         \A n \in 1..Len(x) : n <= asked /\ x[n].type \in RunEnds => run = x[n].type
  PROVE  LET p == [Graph!ApplyLive(Rebuilt(s, x), v) EXCEPT !.run = run]
         IN Faithful(p, x, at, asked, Len(x))
<1> DEFINE g == Rebuilt(s, x)
           w == WholeOf(x)
           p == [Graph!ApplyLive(g, v) EXCEPT !.run = run]
           node == [a \in Agents |-> IF v[a].origin = "none" THEN g.node[a] ELSE Graph!NodeOf(v[a], g.node[a])]
           h == Rebuilt(p, x)
<1>1. /\ x \in Seq(Graph!Facts) /\ s \in Snaps /\ s.cursor <= Len(x) /\ w.cursor = Len(x) /\ Len(x) \in Nat
      /\ g.cursor = w.cursor
  BY DEF Journaled, Faithful
<1>2. g \in Graph!Graphs
  BY <1>1, RebuiltFacts
<1> HIDE DEF g, w
<1>3. /\ g.node \in [Agents -> Graph!Nodes] /\ v \in [Agents -> Graph!Nodes] /\ g.run \in Graph!RunStates
      /\ g = [run |-> g.run, node |-> g.node, cursor |-> g.cursor]
  BY <1>2 DEF Graph!Graphs, Viewed, Graph!Views
<1>4. ASSUME NEW a \in Agents
      PROVE  /\ node[a] \in Graph!Nodes
             /\ v[a].origin = "none" => node[a] = g.node[a]
             /\ v[a].origin # "none" => /\ node[a].state = v[a].state /\ node[a].origin = v[a].origin
                                        /\ node[a].parent = IF v[a].parent = NoOne THEN g.node[a].parent
                                                            ELSE v[a].parent
  <2>1. g.node[a] \in Graph!Nodes /\ v[a] \in Graph!Nodes
    BY <1>3
  <2>2. Graph!NodeOf(v[a], g.node[a]) \in Graph!Nodes
    BY <2>1 DEF Graph!NodeOf, Graph!Nodes
  <2> QED BY <2>1, <2>2 DEF Graph!NodeOf
<1>5. p = [run |-> run, node |-> node, cursor |-> Len(x)]
  <2>1. Graph!ApplyLive(g, v) = [g EXCEPT !.node = node]
    <3>1. [a \in Agents |-> IF v[a].origin = "none" THEN g.node[a] ELSE Graph!NodeOf(v[a], g.node[a])] = node
      OBVIOUS
    <3> HIDE DEF node
    <3> QED BY <1>2, <3>1 DEF Graph!ApplyLive, Graph!Graphs
  <2> DEFINE l == Graph!ApplyLive(g, v)
  <2>2. node \in [Agents -> Graph!Nodes]
    BY <1>4
  <2> HIDE DEF node
  <2>3. l \in Graph!Graphs /\ l.node = node /\ l.cursor = Len(x)
    BY <1>1, <1>2, <2>1, <2>2 DEF Graph!Graphs
  <2> HIDE DEF l
  <2>4. [l EXCEPT !.run = run] = [run |-> run, node |-> node, cursor |-> Len(x)]
    BY <2>3 DEF Graph!Graphs
  <2> QED BY <2>4 DEF l
<1>6. node \in [Agents -> Graph!Nodes]
  BY <1>4
<1> HIDE DEF node
<1>7. p \in Snaps /\ p.cursor = Len(x) /\ p.node = node /\ p.run = run /\ p # Graph!NoSnap
  <2>1. p \in Snaps /\ p.cursor = Len(x) /\ p.node = node /\ p.run = run
    BY <1>1, <1>5, <1>6 DEF Snaps
  <2>2. Graph!NoSnap.cursor = -1
    BY EmptyGraphs
  <2> HIDE DEF p
  <2> QED BY <1>1, <2>1, <2>2
<1> HIDE DEF p
<1>8. h = Restored(p)
  BY <1>1, <1>7, RebuiltFacts
<1>9. h.run = run /\ h.cursor = Len(x)
      /\ \A a \in Agents : node[a].origin # "none" => h.node[a] = node[a]
  BY <1>7, <1>8 DEF Restored
<1> HIDE DEF h
<1>10. /\ \A a \in Agents : w.node[a].origin # "none" => g.node[a].origin # "none"
       /\ \A n \in 1..Len(x) : x[n].parent # NoOne => g.node[x[n].agent].parent = x[n].parent
  BY DEF Faithful, g, w
<1>11. \A n \in 1..Len(x) : /\ x[n] \in Graph!Facts
                            /\ x[n].parent # NoOne => x[n].agent \in Agents /\ x[n].parent = Parents[x[n].agent]
                            /\ x[n].agent # NoOne => x[n].agent \in Agents /\ w.node[x[n].agent].origin # "none"
  <2> TAKE n \in 1..Len(x)
  <2>1. x[n] \in Graph!Facts /\ (x[n].parent # NoOne => x[n].parent = Parents[x[n].agent])
    BY <1>1 DEF Journaled
  <2>2. Admitted(x[n])
    BY <2>1 DEF Admitted
  <2> QED BY <2>1, <2>2, FactFacts DEF Journaled, w
<1>12. \A a \in Agents : w.node[a].origin # "none" => node[a].origin # "none" /\ h.node[a] = node[a]
  BY <1>4, <1>9, <1>10
<1>13. NoOne \notin Agents
  BY GraphAssumption DEF Graph!ReplayConstants, Graph!NoOneAssumption
<1>14. ASSUME NEW n \in 1..Len(x), x[n].parent # NoOne
       PROVE  h.node[x[n].agent].parent = x[n].parent
  <2> DEFINE a == x[n].agent
  <2>1. a \in Agents /\ x[n].parent = Parents[a] /\ g.node[a].parent = x[n].parent
    BY <1>10, <1>11, <1>14
  <2>2. w.node[a].origin # "none"
    BY <1>11, <1>13, <2>1
  <2> HIDE DEF a
  <2>3. v[a].parent \in {NoOne, Parents[a]}
    BY <2>1 DEF Viewed
  <2>4. h.node[a] = node[a] /\ node[a].parent = x[n].parent
    BY <1>4, <1>12, <2>1, <2>2, <2>3
  <2> QED BY <2>4 DEF a
<1>15. ASSUME NEW a \in Agents, NEW n \in 1..Len(x), LastAbout(x, a, n), n \notin (at + 1)..Len(x)
       PROVE  h.node[a].state = w.node[a].state
  <2>1. n <= at
    BY <1>1, <1>15
  <2>2. x[n].agent = a
    BY <1>15 DEF LastAbout
  <2>3. v[a].origin # "none" /\ v[a].state = w.node[a].state
    BY <1>15, <2>1, <2>2 DEF Viewed, w
  <2>4. h.node[a] = node[a]
    BY <1>11, <1>12, <1>13, <2>2
  <2> QED BY <1>4, <2>3, <2>4
<1>16. \A n \in 1..Len(x) : x[n].type \in RunEnds /\ n \notin (asked + 1)..Len(x) => h.run = x[n].type
  <2> TAKE n \in 1..Len(x)
  <2> HAVE x[n].type \in RunEnds /\ n \notin (asked + 1)..Len(x)
  <2>1. n <= asked
    BY <1>1
  <2> QED BY <1>9, <2>1
<1>17. \A a \in Agents : w.node[a].origin # "none" => h.node[a].origin # "none"
  BY <1>12
<1>18. p \in Snaps /\ p.cursor <= Len(x) /\ h.cursor = w.cursor
  BY <1>1, <1>7, <1>9
<1>19. Faithful(p, x, at, asked, Len(x))
  BY <1>14, <1>15, <1>16, <1>17, <1>18 DEF Faithful, h, w
<1> QED BY <1>19 DEF p, g

Hooks == [pc : {"idle", "view", "status", "project", "commit"}, view : Graph!Views, status : Graph!RunStates,
          at : Nat, asked : Nat, read : Nat, snap : Snaps]
Hooked(k, x) ==
  /\ k.pc \in {"status", "project"} => k.at <= Len(x) /\ Viewed(k.view, k.at, x)
  /\ k.pc = "project" => /\ k.asked <= Len(x)
                         /\ \A n \in 1..Len(x) : n <= k.asked /\ x[n].type \in RunEnds => k.status = x[n].type
  /\ k.pc = "commit" => Faithful(k.snap, x, k.at, k.asked, k.read)
\* A browser has the events up to its cursor.
Events(n, x) == [i \in 1..n |-> [sequence |-> i, type |-> x[i].type, agent |-> x[i].agent]]
Reads(r, x) ==
  /\ r.cursor \in Nat /\ r.cursor <= Len(x) /\ r.seen \in Snaps /\ r.seen.cursor <= Len(x)
  /\ r.got = Events(r.cursor, x)
  /\ r \in [pc : {"idle", "replay"}, cursor : Nat, seen : Snaps, got : {r.got}]

GraphInv ==
  /\ Journaled(facts) /\ shown \in Graph!RunStates
  /\ \A n \in 1..Len(facts) : facts[n].type \in RunEnds => ended /\ shown = facts[n].type
  /\ Viewed(live, Len(facts), facts) /\ \A a \in Agents : live[a].origin = "none" => live[a].state = "pending"
  /\ hook \in [Agents -> Hooks] /\ \A a \in Agents : Hooked(hook[a], facts)
  /\ taken \in [view : Nat, status : Nat, read : Nat]
  /\ Faithful(ckpt, facts, taken.view, taken.status, taken.read)
  /\ Reads(browser, facts)

LEMMA NodeAfterAny ==
  ASSUME NEW was, NEW type \in Graph!AgentFacts
  PROVE  Graph!NodeAfter(was, type) = Graph!NodeAfter("pending", type)
         /\ Graph!NodeAfter(was, type) \in Graph!NodeStates
BY DEF Graph!NodeAfter, Graph!AgentFacts, Graph!NodeStates, Graph!Finished

\* The live swarm behind a fact about one of its Agents.
LEMMA LiveOn ==
  ASSUME NEW x, Journaled(x), NEW e, Admitted(e), NEW v, Viewed(v, Len(x), x), NEW u \in Graph!Views,
         NEW a \in Agents, e.agent = a, \A b \in Agents : b # a => u[b] = v[b],
         u[a].origin # "none", u[a].parent \in {NoOne, Parents[a]},
         u[a].state = Graph!NodeAfter("pending", e.type)
  PROVE  Viewed(u, Len(Append(x, e)), Append(x, e))
<1> DEFINE y == Append(x, e)
<1>1. x \in Seq(Graph!Facts) /\ e \in Graph!Facts /\ NoOne \notin Agents
  BY FactFacts, GraphAssumption DEF Journaled, Graph!ReplayConstants, Graph!NoOneAssumption
<1>2. Len(x) \in Nat /\ Viewed(v, Len(x), y)
  <2>1. Len(x) \in Nat /\ Len(x) <= Len(x)
    BY <1>1
  <2> QED BY <2>1, ViewedOn
<1>3. WholeOf(x) \in Graph!Graphs /\ WholeOf(y) = Graph!Reduced(WholeOf(x), e)
  BY JournaledOn
<1>4. WholeOf(y).node[a].state = Graph!NodeAfter("pending", e.type)
  BY <1>1, <1>3, ReducedFacts
<1>5. /\ Len(y) = Len(x) + 1 /\ y[Len(x) + 1] = e
      /\ \A b \in Agents, n \in 1..(Len(x) + 1) :
              LastAbout(y, b, n) => \/ n = Len(x) + 1 /\ e.agent = b
                                    \/ n \in 1..Len(x) /\ e.agent # b /\ LastAbout(x, b, n)
  BY <1>1, AppendedFacts
<1> HIDE DEF y
<1>6. ASSUME NEW b \in Agents
      PROVE  /\ u[b].parent \in {NoOne, Parents[b]}
             /\ u[b].origin = "none" => \A n \in 1..Len(y) : n <= Len(y) => y[n].agent # b
             /\ \A n \in 1..Len(y) : LastAbout(y, b, n) /\ n <= Len(y) => u[b].state = WholeOf(y).node[b].state
  <2>1. CASE b = a
    BY <1>4, <2>1
  <2>2. CASE b # a
    <3>1. u[b] = v[b] /\ v[b].parent \in {NoOne, Parents[b]}
      BY <1>2, <2>2 DEF Viewed
    <3>2. ASSUME u[b].origin = "none", NEW n \in 1..Len(y)
          PROVE  y[n].agent # b
      <4>1. CASE n = Len(x) + 1
        BY <1>5, <2>2, <4>1
      <4>2. CASE n # Len(x) + 1
        <5>1. n <= Len(x)
          BY <1>2, <1>5, <3>2, <4>2
        <5> QED BY <1>2, <3>1, <3>2, <5>1 DEF Viewed
      <4> QED BY <4>1, <4>2
    <3>3. ASSUME NEW n \in 1..Len(y), LastAbout(y, b, n)
          PROVE  u[b].state = WholeOf(y).node[b].state
      <4>1. n \in 1..(Len(x) + 1) /\ e.agent # b
        BY <1>5, <2>2, <3>3
      <4>2. n <= Len(x)
        BY <1>2, <1>5, <3>3, <4>1
      <4> QED BY <1>2, <3>1, <3>3, <4>2 DEF Viewed
    <3> QED BY <3>1, <3>2, <3>3
  <2> QED BY <2>1, <2>2
<1>7. Viewed(u, Len(y), y)
  BY <1>6 DEF Viewed
<1> QED BY <1>7 DEF y

\* And behind a fact of the attempt.
LEMMA LiveSame ==
  ASSUME NEW x, Journaled(x), NEW e, Admitted(e), NEW v, Viewed(v, Len(x), x), e.agent = NoOne
  PROVE  Viewed(v, Len(Append(x, e)), Append(x, e))
<1> DEFINE y == Append(x, e)
<1>1. x \in Seq(Graph!Facts) /\ e \in Graph!Facts /\ NoOne \notin Agents
  BY FactFacts, GraphAssumption DEF Journaled, Graph!ReplayConstants, Graph!NoOneAssumption
<1>2. Len(x) \in Nat /\ Viewed(v, Len(x), y)
  <2>1. Len(x) \in Nat /\ Len(x) <= Len(x)
    BY <1>1
  <2> QED BY <2>1, ViewedOn
<1>3. Len(y) = Len(x) + 1 /\ y[Len(x) + 1] = e
  BY <1>1, AppendedFacts
<1> HIDE DEF y
<1>4. \A b \in Agents, n \in 1..Len(y) : y[n].agent = b => n <= Len(x)
  BY <1>1, <1>2, <1>3
<1>5. Viewed(v, Len(y), y)
  BY <1>2, <1>4 DEF Viewed, LastAbout
<1> QED BY <1>5 DEF y

LEMMA WriteStep ==
  ASSUME GraphInv, NEW e, Admitted(e), Neutral(e, facts), facts' = Append(facts, e)
  PROVE  /\ Journaled(facts') /\ \A a \in Agents : Hooked(hook[a], facts')
         /\ Faithful(ckpt, facts', taken.view, taken.status, taken.read) /\ Reads(browser, facts')
         /\ Len(facts') = Len(facts) + 1 /\ Len(facts) \in Nat /\ facts'[Len(facts) + 1] = e
         /\ \A n \in 1..Len(facts) : facts'[n] = facts[n]
<1>1. /\ Journaled(facts) /\ facts \in Seq(Graph!Facts) /\ e \in Graph!Facts
  BY FactFacts DEF GraphInv, Journaled
<1>2. /\ Len(facts') = Len(facts) + 1 /\ Len(facts) \in Nat /\ facts'[Len(facts) + 1] = e
      /\ \A n \in 1..Len(facts) : facts'[n] = facts[n]
  BY <1>1, AppendedFacts
<1>3. Journaled(facts')
  BY <1>1, JournaledOn
<1>4. Faithful(ckpt, facts', taken.view, taken.status, taken.read)
  <2>1. taken.view \in Nat /\ taken.status \in Nat /\ taken.read \in Nat
    BY DEF GraphInv
  <2> QED BY <1>1, <2>1, FaithfulOn DEF GraphInv
<1>5. ASSUME NEW a \in Agents
      PROVE  Hooked(hook[a], facts')
  <2> DEFINE k == hook[a]
  <2>1. k.at \in Nat /\ k.asked \in Nat /\ k.read \in Nat /\ Hooked(k, facts)
    BY DEF GraphInv, Hooks
  <2> HIDE DEF k
  <2>2. k.pc \in {"status", "project"} => k.at <= Len(facts') /\ Viewed(k.view, k.at, facts')
    BY <1>1, <1>2, <2>1, ViewedOn DEF Hooked
  <2>3. k.pc = "project" =>
          /\ k.asked <= Len(facts')
          /\ \A n \in 1..Len(facts') : n <= k.asked /\ facts'[n].type \in RunEnds => k.status = facts'[n].type
    <3> SUFFICES ASSUME k.pc = "project"
                 PROVE  /\ k.asked <= Len(facts')
                        /\ \A n \in 1..Len(facts') : n <= k.asked /\ facts'[n].type \in RunEnds => k.status = facts'[n].type
      OBVIOUS
    <3>1. /\ k.asked <= Len(facts)
          /\ \A n \in 1..Len(facts) : n <= k.asked /\ facts[n].type \in RunEnds => k.status = facts[n].type
      BY <2>1 DEF Hooked
    <3>2. \A n \in 1..Len(facts') : n <= k.asked => n \in 1..Len(facts)
      BY <1>2, <2>1, <3>1
    <3>3. k.asked <= Len(facts')
      BY <1>2, <2>1, <3>1
    <3> QED BY <1>2, <3>1, <3>2, <3>3
  <2>4. k.pc = "commit" => Faithful(k.snap, facts', k.at, k.asked, k.read)
    BY <1>1, <2>1, FaithfulOn DEF Hooked
  <2>5. Hooked(k, facts')
    BY <2>2, <2>3, <2>4 DEF Hooked
  <2> QED BY <2>5 DEF k
<1>6. Reads(browser, facts')
  <2> DEFINE r == browser
  <2>1. Reads(r, facts)
    BY DEF GraphInv
  <2> HIDE DEF r
  <2>2. /\ r.cursor \in Nat /\ r.cursor <= Len(facts) /\ r.seen.cursor \in Int /\ r.seen.cursor <= Len(facts)
    BY <2>1 DEF Reads, Snaps
  <2>3. Events(r.cursor, facts') = Events(r.cursor, facts)
    <3>1. \A n \in 1..r.cursor : facts'[n] = facts[n]
      BY <1>2, <2>2
    <3> QED BY <3>1 DEF Events
  <2>4. r.cursor <= Len(facts') /\ r.seen.cursor <= Len(facts')
    BY <1>2, <2>2
  <2>5. Reads(r, facts')
    BY <2>1, <2>3, <2>4 DEF Reads
  <2> QED BY <2>5 DEF r
<1> QED BY <1>2, <1>3, <1>4, <1>5, <1>6

LEMMA GraphStart == Graph!Init => GraphInv
<1> SUFFICES ASSUME Graph!Init PROVE GraphInv
  OBVIOUS
<1> DEFINE e == Graph!RunFact("execution_started")
           x == <<e>>
           w == WholeOf(x)
<1>1. /\ facts = x /\ shown = "running" /\ ckpt = Graph!NoSnap /\ taken = [view |-> 0, status |-> 0, read |-> 0]
      /\ live = [a \in Agents |-> IF Parents[a] = NoOne THEN [Graph!Unknown EXCEPT !.origin = "blueprint"]
                                  ELSE Graph!Unknown]
      /\ hook = [a \in Agents |-> Graph!Idle]
      /\ browser = [pc |-> "idle", cursor |-> 0, seen |-> Graph!NoSnap, got |-> <<>>]
  BY DEF Graph!Init
<1>2. /\ e \in Graph!Facts /\ e.agent = NoOne /\ e.parent = NoOne /\ e.type = "execution_started"
      /\ e.type \notin RunEnds
  BY DEF Graph!RunFact, Graph!Fact, Graph!Facts, Graph!RunFacts, Graph!RunFinished, RunEnds
<1>3. x \in Seq(Graph!Facts) /\ Len(x) = 1 /\ x[1] = e /\ x # <<>> /\ x = Append(<<>>, e) /\ <<>> \in Seq(Graph!Facts)
  BY <1>2
<1>4. Opening(x)
  BY <1>3 DEF Opening
<1> DEFINE g == Graph!EmptyGraph("running")
<1>5. g \in Graph!Graphs /\ g.cursor = 0
  BY EmptyGraphs DEF Graph!EmptyGraph
<1>6. w = Graph!Reduced(g, e)
  <2>1. w = Graph!Replay(g, x)
    BY DEF WholeOf, Rebuilt, Graph!Seeded
  <2> HIDE DEF e, g, w
  <2>2. Graph!Replay(g, Append(<<>>, e)) = Graph!Reduced(Graph!Replay(g, <<>>), e) /\ Graph!Replay(g, <<>>) = g
    <3>1. \A s \in Seq(Graph!Facts) : /\ Graph!Replay(g, <<>>) = g
                                      /\ Graph!Replay(g, Append(s, e)) = Graph!Reduced(Graph!Replay(g, s), e)
      BY <1>2, <1>5, ReplayFacts
    <3> QED BY <1>3, <3>1
  <2> QED BY <1>3, <2>1, <2>2
<1> HIDE DEF e, g, x, w
<1>7. w.cursor = Len(x)
  BY <1>2, <1>3, <1>5, <1>6, ReducedFacts
<1>8. \A n \in 1..Len(x) : n = 1 /\ x[n] = e
  BY <1>3
<1>9. Journaled(x)
  BY <1>2, <1>3, <1>4, <1>7, <1>8 DEF Journaled, w
<1>10. NoOne \notin Agents /\ Parents \in [Agents -> Agents \cup {NoOne}]
  BY GraphAssumption DEF Graph!ReplayConstants, Graph!NoOneAssumption
<1>11. \A a \in Agents, n \in 1..Len(x) : x[n].agent # a
  BY <1>2, <1>8, <1>10
<1>12. /\ live \in Graph!Views
       /\ \A a \in Agents : live[a].parent = NoOne /\ live[a].state = "pending"
  BY <1>1 DEF Graph!Views, Graph!Nodes, Graph!Unknown, Graph!NodeStates
<1>13. Viewed(live, Len(x), x)
  BY <1>11, <1>12 DEF Viewed, LastAbout
<1>14. Faithful(Graph!NoSnap, x, 0, 0, 0)
  BY <1>2, <1>3, <1>8, <1>11, EmptyGraphs DEF Faithful, WholeOf, LastAbout
<1>15. Graph!Idle \in Hooks /\ Graph!Idle.pc = "idle"
  <2>1. [a \in Agents |-> Graph!Unknown] \in Graph!Views /\ Graph!NoSnap \in Snaps
    BY EmptyGraphs DEF Graph!Views
  <2> QED BY <2>1 DEF Graph!Idle, Hooks, Graph!RunStates
<1>16. hook \in [Agents -> Hooks] /\ \A a \in Agents : Hooked(hook[a], x)
  BY <1>1, <1>15 DEF Hooked
<1>17. Reads(browser, x)
  <2>1. Events(0, x) = <<>>
    BY DEF Events
  <2> QED BY <1>1, <1>3, <2>1, EmptyGraphs DEF Reads
<1>18. "running" \in Graph!RunStates
  BY EmptyGraphs
<1>19. \A n \in 1..Len(x) : x[n].type \notin RunEnds
  BY <1>2, <1>8
<1>20. taken \in [view : Nat, status : Nat, read : Nat] /\ taken.view = 0 /\ taken.status = 0 /\ taken.read = 0
  BY <1>1
<1> QED BY <1>1, <1>9, <1>12, <1>13, <1>14, <1>16, <1>17, <1>18, <1>19, <1>20 DEF GraphInv

LEMMA FactTypes ==
  /\ \A a \in Agents, type \in Graph!AgentFacts :
       /\ Admitted(Graph!Fact(type, a, NoOne, FALSE)) /\ Graph!Fact(type, a, NoOne, FALSE).agent = a
       /\ Graph!Fact(type, a, NoOne, FALSE).type = type
  /\ \A a \in Agents : Parents[a] # NoOne =>
       /\ Admitted(Graph!Fact("task:dispatched", a, Parents[a], TRUE))
       /\ Graph!Fact("task:dispatched", a, Parents[a], TRUE).agent = a
       /\ Graph!Fact("task:dispatched", a, Parents[a], TRUE).type = "task:dispatched"
  /\ \A type \in Graph!RunFacts :
       /\ Admitted(Graph!RunFact(type)) /\ Graph!RunFact(type).agent = NoOne /\ Graph!RunFact(type).type = type
<1>1. NoOne \notin Agents /\ Parents \in [Agents -> Agents \cup {NoOne}]
  BY GraphAssumption DEF Graph!ReplayConstants, Graph!NoOneAssumption
<1>2. "task:dispatched" \in Graph!AgentFacts
  BY DEF Graph!AgentFacts
<1> QED BY <1>1, <1>2 DEF Admitted, Graph!Fact, Graph!RunFact, Graph!Facts

\* An Agent's fact and its effect on the live swarm.
LEMMA AgentWrites ==
  ASSUME GraphInv, NEW e, Admitted(e), NEW a \in Agents, e.agent = a, facts' = Append(facts, e),
         live' \in Graph!Views, \A b \in Agents : b # a => live'[b] = live[b],
         live'[a].origin # "none", live'[a].parent \in {NoOne, Parents[a]},
         live'[a].state = Graph!NodeAfter("pending", e.type),
         hook' \in [Agents -> Hooks], \A b \in Agents : hook'[b] = hook[b] \/ hook'[b].pc = "view",
         UNCHANGED <<shown, ckpt, browser, ended, taken>>
  PROVE  GraphInv'
<1>1. NoOne \notin Agents
  BY GraphAssumption DEF Graph!ReplayConstants, Graph!NoOneAssumption
<1>2. Neutral(e, facts)
  BY <1>1 DEF Neutral
<1>3. /\ Journaled(facts') /\ \A b \in Agents : Hooked(hook[b], facts')
      /\ Faithful(ckpt, facts', taken.view, taken.status, taken.read) /\ Reads(browser, facts')
      /\ Len(facts') = Len(facts) + 1 /\ Len(facts) \in Nat /\ facts'[Len(facts) + 1] = e
      /\ \A n \in 1..Len(facts) : facts'[n] = facts[n]
  BY <1>2, WriteStep
<1>4. Viewed(live', Len(facts'), facts')
  <2>1. Journaled(facts) /\ Viewed(live, Len(facts), facts)
    BY DEF GraphInv
  <2> QED BY <2>1, LiveOn
<1>5. \A n \in 1..Len(facts') : facts'[n].type \in RunEnds => ended /\ shown = facts'[n].type
  <2>1. e.type \notin RunEnds
    BY <1>1, FactFacts
  <2>2. \A n \in 1..Len(facts') : n \in 1..Len(facts) \/ n = Len(facts) + 1
    BY <1>3
  <2> QED BY <1>3, <2>1, <2>2 DEF GraphInv
<1>6. \A b \in Agents : Hooked(hook'[b], facts')
  BY <1>3 DEF Hooked
<1>7. \A b \in Agents : live'[b].origin = "none" => live'[b].state = "pending"
  BY DEF GraphInv
<1>8. shown' = shown /\ ckpt' = ckpt /\ browser' = browser /\ ended' = ended /\ taken' = taken
  OBVIOUS
<1>9. shown \in Graph!RunStates /\ taken \in [view : Nat, status : Nat, read : Nat]
  BY DEF GraphInv
<1> QED BY <1>3, <1>4, <1>5, <1>6, <1>7, <1>8, <1>9 DEF GraphInv

LEMMA MovesStep ==
  ASSUME GraphInv, NEW a \in Agents, NEW from, live[a].origin # "none",
         NEW type \in {"agent:running", "agent:completed", "agent:failed", "agent:stopped"},
         Graph!Moves(a, type, from)
  PROVE  GraphInv'
<1> DEFINE e == Graph!Fact(type, a, NoOne, FALSE)
           was == live[a].state
<1>1. /\ facts' = Append(facts, e) /\ live' = [live EXCEPT ![a].state = Graph!NodeAfter(was, type)]
      /\ UNCHANGED <<shown, ckpt, hook, browser, ended, taken>>
  BY DEF Graph!Moves, Graph!Write
<1>2. type \in Graph!AgentFacts
  BY DEF Graph!AgentFacts
<1>3. Admitted(e) /\ e.agent = a /\ e.type = type
  BY <1>2, FactTypes, ZenonT(60)
<1> HIDE DEF e
<1>4. Graph!NodeAfter(was, type) = Graph!NodeAfter("pending", type) /\ Graph!NodeAfter(was, type) \in Graph!NodeStates
  BY <1>2, NodeAfterAny
<1>5. live \in [Agents -> Graph!Nodes] /\ live[a].parent \in {NoOne, Parents[a]}
  BY DEF GraphInv, Viewed, Graph!Views
<1>6. /\ live' \in Graph!Views /\ \A b \in Agents : b # a => live'[b] = live[b]
      /\ live'[a].origin = live[a].origin /\ live'[a].parent = live[a].parent
      /\ live'[a].state = Graph!NodeAfter(was, type)
  BY <1>1, <1>4, <1>5 DEF Graph!Views, Graph!Nodes
<1>7. hook' = hook /\ hook \in [Agents -> Hooks]
  BY <1>1 DEF GraphInv
<1> QED BY <1>1, <1>3, <1>4, <1>5, <1>6, <1>7, AgentWrites, ZenonT(60)

LEMMA DispatchStep ==
  ASSUME GraphInv, NEW a \in Agents, Graph!Dispatch(a)
  PROVE  GraphInv'
<1> DEFINE e == Graph!Fact("task:dispatched", a, Parents[a], TRUE)
           q == [state |-> "queued", parent |-> Parents[a], origin |-> "runtime"]
<1>1. /\ facts' = Append(facts, e) /\ live' = [live EXCEPT ![a] = q] /\ Parents[a] # NoOne
      /\ UNCHANGED <<shown, ckpt, hook, browser, ended, taken>>
  BY DEF Graph!Dispatch, Graph!Write
<1>2. Admitted(e) /\ e.agent = a /\ e.type = "task:dispatched"
  BY <1>1, FactTypes
<1> HIDE DEF e
<1>3. Parents[a] \in Agents \cup {NoOne}
  BY GraphAssumption DEF Graph!ReplayConstants
<1>4. /\ q \in Graph!Nodes /\ q.state = Graph!NodeAfter("pending", "task:dispatched") /\ q.parent = Parents[a]
      /\ q.origin # "none"
  BY <1>3 DEF Graph!Nodes, Graph!NodeStates, Graph!NodeAfter
<1> HIDE DEF q
<1>5. live \in [Agents -> Graph!Nodes]
  BY DEF GraphInv, Viewed, Graph!Views
<1>6. live' \in Graph!Views /\ live'[a] = q /\ \A b \in Agents : b # a => live'[b] = live[b]
  BY <1>1, <1>4, <1>5 DEF Graph!Views
<1>7. hook' = hook /\ hook \in [Agents -> Hooks]
  BY <1>1 DEF GraphInv
<1> QED BY <1>1, <1>2, <1>4, <1>6, <1>7, AgentWrites, ZenonT(60)

LEMMA CheckpointsStep ==
  ASSUME GraphInv, NEW a \in Agents, Graph!Checkpoints(a)
  PROVE  GraphInv'
<1> DEFINE e == Graph!Fact("agent:context_checkpoint", a, NoOne, FALSE)
<1>1. /\ facts' = Append(facts, e) /\ hook' = [hook EXCEPT ![a].pc = "view"] /\ live[a].state = "running"
      /\ UNCHANGED <<shown, live, ckpt, browser, ended, taken>>
  BY DEF Graph!Checkpoints, Graph!Write
<1>2. "agent:context_checkpoint" \in Graph!AgentFacts
  BY DEF Graph!AgentFacts
<1>3. Admitted(e) /\ e.agent = a /\ e.type = "agent:context_checkpoint"
  BY <1>2, FactTypes
<1> HIDE DEF e
<1>4. Graph!NodeAfter("pending", "agent:context_checkpoint") = "running"
  BY DEF Graph!NodeAfter
<1>5. /\ live' = live /\ live \in Graph!Views /\ live[a].parent \in {NoOne, Parents[a]} /\ live[a].origin # "none"
  BY <1>1 DEF GraphInv, Viewed
<1>6. hook' \in [Agents -> Hooks] /\ \A b \in Agents : hook'[b] = hook[b] \/ hook'[b].pc = "view"
  BY <1>1, ZenonT(60) DEF GraphInv, Hooks
<1> QED BY <1>1, <1>3, <1>4, <1>5, <1>6, AgentWrites

\* A hook's own steps and a browser's write no fact.
LEMMA HookMoves ==
  ASSUME GraphInv, NEW a \in Agents, NEW k \in Hooks, Hooked(k, facts), hook' = [hook EXCEPT ![a] = k],
         UNCHANGED <<facts, shown, live, ckpt, browser, ended, taken>>
  PROVE  GraphInv'
<1>1. /\ hook' \in [Agents -> Hooks] /\ \A b \in Agents : hook'[b] = IF b = a THEN k ELSE hook[b]
  BY DEF GraphInv
<1>2. \A b \in Agents : Hooked(hook'[b], facts)
  BY <1>1 DEF GraphInv
<1>3. /\ facts' = facts /\ shown' = shown /\ live' = live /\ ckpt' = ckpt /\ browser' = browser
      /\ ended' = ended /\ taken' = taken
  OBVIOUS
<1> QED BY <1>1, <1>2, <1>3 DEF GraphInv

LEMMA IdleHook == Graph!Idle \in Hooks /\ Graph!Idle.pc = "idle"
<1>1. [a \in Agents |-> Graph!Unknown] \in Graph!Views /\ Graph!NoSnap \in Snaps
  BY EmptyGraphs DEF Graph!Views
<1> QED BY <1>1 DEF Graph!Idle, Hooks, Graph!RunStates

LEMMA HookViewStep ==
  ASSUME GraphInv, NEW a \in Agents, Graph!HookView(a)
  PROVE  GraphInv'
<1> DEFINE k == IF ended THEN Graph!Idle
                ELSE [hook[a] EXCEPT !.pc = "status", !.view = live, !.at = Len(facts)]
<1>1. hook' = [hook EXCEPT ![a] = k] /\ UNCHANGED <<facts, shown, live, ckpt, browser, ended, taken>>
  BY DEF Graph!HookView
<1>2. /\ hook[a] \in Hooks /\ live \in Graph!Views /\ Len(facts) \in Nat /\ Viewed(live, Len(facts), facts)
  BY DEF GraphInv, Viewed, Journaled
<1>3. k \in Hooks /\ Hooked(k, facts)
  <2>1. CASE ended
    BY <2>1, IdleHook DEF Hooked
  <2>2. CASE ~ended
    <3>1. /\ k \in Hooks /\ k.pc = "status" /\ k.view = live /\ k.at = Len(facts)
      BY <1>2, <2>2 DEF Hooks
    <3> HIDE DEF k
    <3> QED BY <1>2, <3>1 DEF Hooked
  <2> QED BY <2>1, <2>2
<1> HIDE DEF k
<1> QED BY <1>1, <1>3, HookMoves

LEMMA HookStatusStep ==
  ASSUME GraphInv, NEW a \in Agents, Graph!HookStatus(a)
  PROVE  GraphInv'
<1> DEFINE h == hook[a]
           k == [h EXCEPT !.pc = "project", !.status = shown, !.asked = Len(facts)]
<1>1. /\ hook' = [hook EXCEPT ![a] = k] /\ h.pc = "status"
      /\ UNCHANGED <<facts, shown, live, ckpt, browser, ended, taken>>
  BY DEF Graph!HookStatus
<1>2. h \in Hooks /\ Hooked(h, facts) /\ Len(facts) \in Nat /\ shown \in Graph!RunStates
  BY DEF GraphInv, Journaled
<1> HIDE DEF h
<1>3. k \in Hooks /\ k.pc = "project" /\ k.status = shown /\ k.asked = Len(facts) /\ k.view = h.view /\ k.at = h.at
  BY <1>2 DEF Hooks
<1> HIDE DEF k
<1>4. Hooked(k, facts)
  BY <1>1, <1>2, <1>3 DEF Hooked, GraphInv
<1> QED BY <1>1, <1>3, <1>4, HookMoves

LEMMA HookProjectStep ==
  ASSUME GraphInv, NEW a \in Agents, Graph!HookProject(a)
  PROVE  GraphInv'
<1> DEFINE h == hook[a]
           p == [Graph!ApplyLive(Rebuilt(ckpt, facts), h.view) EXCEPT !.run = h.status]
           k == [h EXCEPT !.pc = "commit", !.snap = p, !.read = Len(facts)]
<1>1. /\ Journaled(facts) /\ facts \in Seq(Graph!Facts) /\ Opening(facts) /\ Len(facts) \in Nat
      /\ shown \in Graph!RunStates /\ ckpt \in Snaps /\ ckpt.cursor <= Len(facts)
      /\ Faithful(ckpt, facts, taken.view, taken.status, taken.read)
      /\ taken.view \in Nat /\ taken.status \in Nat /\ taken.read \in Nat
      /\ h \in Hooks /\ Hooked(h, facts)
  BY SMTT(40) DEF GraphInv, Journaled, Faithful
<1>2. Graph!Seeded(shown, ckpt, facts) = Rebuilt(ckpt, facts)
  BY <1>1, RebuiltFacts
<1>3. /\ hook' = [hook EXCEPT ![a] = k] /\ h.pc = "project"
      /\ UNCHANGED <<facts, shown, live, ckpt, browser, ended, taken>>
  <2>1. Graph!Project(hook[a]) = p
    BY <1>2 DEF Graph!Project
  <2> QED BY <2>1 DEF Graph!HookProject
<1> HIDE DEF h
<1>4. /\ h.at \in Nat /\ h.at <= Len(facts) /\ Viewed(h.view, h.at, facts) /\ h.status \in Graph!RunStates
      /\ h.asked \in Nat
      /\ \A n \in 1..Len(facts) : n <= h.asked /\ facts[n].type \in RunEnds => h.status = facts[n].type
  BY <1>1, <1>3 DEF Hooked, Hooks
<1>5. Faithful(p, facts, h.at, h.asked, Len(facts))
  BY <1>1, <1>4, ProjectFaithful
<1> HIDE DEF p
<1>6. p \in Snaps
  BY <1>5 DEF Faithful
<1>7. k \in Hooks /\ k.pc = "commit" /\ k.snap = p /\ k.read = Len(facts) /\ k.at = h.at /\ k.asked = h.asked
  BY <1>1, <1>6 DEF Hooks
<1> HIDE DEF k
<1>8. Hooked(k, facts)
  BY <1>5, <1>7 DEF Hooked
<1> QED BY <1>3, <1>7, <1>8, HookMoves

\* The attempt's facts, and the commit of a checkpoint.
LEMMA RunWrites ==
  ASSUME GraphInv, NEW e, Admitted(e), Neutral(e, facts), e.agent = NoOne, facts' = Append(facts, e), live' = live
  PROVE  /\ Journaled(facts') /\ \A a \in Agents : Hooked(hook[a], facts')
         /\ Faithful(ckpt, facts', taken.view, taken.status, taken.read) /\ Reads(browser, facts')
         /\ Viewed(live', Len(facts'), facts')
         /\ \A n \in 1..Len(facts') : facts'[n] = e \/ (n \in 1..Len(facts) /\ facts'[n] = facts[n])
<1>1. /\ Journaled(facts') /\ \A a \in Agents : Hooked(hook[a], facts')
      /\ Faithful(ckpt, facts', taken.view, taken.status, taken.read) /\ Reads(browser, facts')
      /\ Len(facts') = Len(facts) + 1 /\ Len(facts) \in Nat /\ facts'[Len(facts) + 1] = e
      /\ \A n \in 1..Len(facts) : facts'[n] = facts[n]
  BY WriteStep
<1>2. Viewed(live', Len(facts'), facts')
  <2>1. Journaled(facts) /\ Viewed(live, Len(facts), facts)
    BY DEF GraphInv
  <2> QED BY <2>1, LiveSame
<1>3. ASSUME NEW n \in 1..Len(facts')
      PROVE  facts'[n] = e \/ (n \in 1..Len(facts) /\ facts'[n] = facts[n])
  <2>1. n \in 1..Len(facts) \/ n = Len(facts) + 1
    BY <1>1
  <2> QED BY <1>1, <2>1
<1> QED BY <1>1, <1>2, <1>3

LEMMA HookCommitStep ==
  ASSUME GraphInv, NEW a \in Agents, Graph!HookCommit(a)
  PROVE  GraphInv'
<1> DEFINE e == Graph!RunFact("checkpoint_committed")
           h == hook[a]
<1>1. /\ facts' = Append(facts, e) /\ h.pc = "commit" /\ ckpt' = h.snap /\ hook' = [hook EXCEPT ![a] = Graph!Idle]
      /\ taken' = [view |-> h.at, status |-> h.asked, read |-> h.read]
      /\ UNCHANGED <<shown, live, browser, ended>>
  BY DEF Graph!HookCommit, Graph!Write
<1>2. Admitted(e) /\ e.agent = NoOne /\ e.type = "checkpoint_committed" /\ e.type \notin RunEnds
  <2>1. "checkpoint_committed" \in Graph!RunFacts /\ "checkpoint_committed" \notin RunEnds
    BY DEF Graph!RunFacts, RunEnds, Graph!RunFinished
  <2> QED BY <2>1, FactTypes
<1> HIDE DEF e
<1>3. Neutral(e, facts)
  BY <1>2 DEF Neutral
<1>4. /\ Journaled(facts') /\ \A b \in Agents : Hooked(hook[b], facts')
      /\ Reads(browser, facts') /\ Viewed(live', Len(facts'), facts')
      /\ \A n \in 1..Len(facts') : facts'[n] = e \/ (n \in 1..Len(facts) /\ facts'[n] = facts[n])
  BY <1>1, <1>2, <1>3, RunWrites
<1>5. h \in Hooks /\ Faithful(h.snap, facts', h.at, h.asked, h.read)
  BY <1>1, <1>4 DEF GraphInv, Hooked
<1> HIDE DEF h
<1>6. /\ taken' \in [view : Nat, status : Nat, read : Nat]
      /\ Faithful(ckpt', facts', taken'.view, taken'.status, taken'.read)
  BY <1>1, <1>5 DEF Hooks
<1>7. hook' \in [Agents -> Hooks] /\ \A b \in Agents : Hooked(hook'[b], facts')
  <2>1. Hooked(Graph!Idle, facts')
    BY IdleHook DEF Hooked
  <2>2. hook \in [Agents -> Hooks]
    BY DEF GraphInv
  <2>3. hook' \in [Agents -> Hooks] /\ \A b \in Agents : hook'[b] = IF b = a THEN Graph!Idle ELSE hook[b]
    BY <1>1, <2>2, IdleHook
  <2> QED BY <1>4, <2>1, <2>3
<1>8. \A n \in 1..Len(facts') : facts'[n].type \in RunEnds => ended /\ shown = facts'[n].type
  BY <1>2, <1>4 DEF GraphInv
<1>9. shown' = shown /\ live' = live /\ browser' = browser /\ ended' = ended
  BY <1>1
<1>10. shown \in Graph!RunStates /\ \A b \in Agents : live[b].origin = "none" => live[b].state = "pending"
  BY DEF GraphInv
<1> QED BY <1>4, <1>6, <1>7, <1>8, <1>9, <1>10 DEF GraphInv

\* A stop or the outcome.
LEMMA AttemptWrites ==
  ASSUME GraphInv, ~ended, NEW e, Admitted(e), e.agent = NoOne, facts' = Append(facts, e),
         shown' \in Graph!RunStates, e.type \in RunEnds => ended' /\ shown' = e.type,
         UNCHANGED <<live, ckpt, hook, browser, taken>>
  PROVE  GraphInv'
<1>1. \A n \in 1..Len(facts) : facts[n].type \notin RunEnds
  BY DEF GraphInv
<1>2. Neutral(e, facts)
  BY <1>1 DEF Neutral
<1>3. /\ Journaled(facts') /\ \A b \in Agents : Hooked(hook[b], facts')
      /\ Faithful(ckpt, facts', taken.view, taken.status, taken.read)
      /\ Reads(browser, facts') /\ Viewed(live', Len(facts'), facts')
      /\ \A n \in 1..Len(facts') : facts'[n] = e \/ (n \in 1..Len(facts) /\ facts'[n] = facts[n])
  BY <1>2, RunWrites
<1>4. \A n \in 1..Len(facts') : facts'[n].type \in RunEnds => ended' /\ shown' = facts'[n].type
  BY <1>1, <1>3
<1>5. live' = live /\ ckpt' = ckpt /\ hook' = hook /\ browser' = browser /\ taken' = taken
  OBVIOUS
<1>6. /\ hook \in [Agents -> Hooks] /\ taken \in [view : Nat, status : Nat, read : Nat]
      /\ \A b \in Agents : live[b].origin = "none" => live[b].state = "pending"
  BY DEF GraphInv
<1> QED BY <1>3, <1>4, <1>5, <1>6 DEF GraphInv

LEMMA StopStep ==
  ASSUME GraphInv, NEW type \in {"stop_requested", "force_requested"}, Graph!Stop(type)
  PROVE  GraphInv'
<1> DEFINE e == Graph!RunFact(type)
<1>1. /\ ~ended /\ facts' = Append(facts, e) /\ shown' = Graph!RunAfter(shown, type)
      /\ UNCHANGED <<live, ckpt, hook, browser, ended, taken>>
  BY DEF Graph!Stop, Graph!Write
<1>2. type \in Graph!RunFacts /\ type \notin RunEnds
  BY DEF Graph!RunFacts, RunEnds, Graph!RunFinished
<1>3. Admitted(e) /\ e.agent = NoOne /\ e.type = type
  BY <1>2, FactTypes
<1> HIDE DEF e
<1>4. Graph!RunAfter(shown, type) \in Graph!RunStates
  BY DEF Graph!RunAfter, Graph!RunStates, Graph!RunFinished
<1> QED BY <1>1, <1>2, <1>3, <1>4, AttemptWrites

LEMMA EndStep ==
  ASSUME GraphInv, NEW outcome \in Graph!RunFinished, Graph!End(outcome)
  PROVE  GraphInv'
<1> DEFINE e == Graph!RunFact(outcome)
<1>1. /\ ~ended /\ facts' = Append(facts, e) /\ shown' = outcome /\ ended' = TRUE
      /\ UNCHANGED <<live, ckpt, hook, browser, taken>>
  BY DEF Graph!End, Graph!Write
<1>2. outcome \in Graph!RunFacts /\ outcome \in Graph!RunStates
  BY DEF Graph!RunFacts, Graph!RunStates
<1>3. Admitted(e) /\ e.agent = NoOne /\ e.type = outcome
  BY <1>2, FactTypes
<1> HIDE DEF e
<1> QED BY <1>1, <1>2, <1>3, AttemptWrites

LEMMA ReaderAsksStep ==
  ASSUME GraphInv, Graph!ReaderAsks
  PROVE  GraphInv'
<1>1. /\ browser' = [browser EXCEPT !.pc = "replay", !.seen = ckpt]
      /\ UNCHANGED <<facts, shown, live, ckpt, hook, ended, taken>>
  BY DEF Graph!ReaderAsks
<1> DEFINE r == browser
           s == [r EXCEPT !.pc = "replay", !.seen = ckpt]
<1>2. Reads(r, facts) /\ ckpt \in Snaps /\ ckpt.cursor <= Len(facts)
  BY DEF GraphInv, Faithful
<1> HIDE DEF r
<1>3. /\ s \in [pc : {"idle", "replay"}, cursor : Nat, seen : Snaps, got : {r.got}]
      /\ s.cursor = r.cursor /\ s.seen = ckpt /\ s.got = r.got
  BY <1>2 DEF Reads
<1> HIDE DEF s
<1>4. Reads(s, facts)
  BY <1>2, <1>3 DEF Reads
<1>5. browser' = s /\ facts' = facts
  BY <1>1 DEF s, r
<1>6. Reads(browser', facts')
  BY <1>4, <1>5
<1>7. shown' = shown /\ live' = live /\ ckpt' = ckpt /\ hook' = hook /\ ended' = ended /\ taken' = taken
  BY <1>1
<1> QED BY <1>5, <1>6, <1>7 DEF GraphInv

LEMMA EventsJoin ==
  ASSUME NEW x, NEW c \in Nat, NEW k \in Nat
  PROVE  Events(c, x) \o [i \in 1..k |-> [sequence |-> c + i, type |-> x[c + i].type, agent |-> x[c + i].agent]]
           = Events(c + k, x)
<1> DEFINE ev(i) == [sequence |-> i, type |-> x[i].type, agent |-> x[i].agent]
           S == {ev(i) : i \in 1..(c + k)}
           l == [i \in 1..c |-> ev(i)]
           m == [i \in 1..k |-> ev(c + i)]
           n == [i \in 1..(c + k) |-> ev(i)]
<1> HIDE DEF ev
<1>1. /\ \A i \in 1..c : ev(i) \in S
      /\ \A i \in 1..k : ev(c + i) \in S
      /\ \A i \in 1..(c + k) : ev(i) \in S
  OBVIOUS
<1> HIDE DEF S
<1>2. l \in Seq(S) /\ Len(l) = c /\ m \in Seq(S) /\ Len(m) = k /\ n \in Seq(S) /\ Len(n) = c + k
  BY <1>1
<1>3. /\ \A i \in 1..c : l[i] = ev(i)
      /\ \A i \in 1..k : m[i] = ev(c + i)
      /\ \A i \in 1..(c + k) : n[i] = ev(i)
  OBVIOUS
<1> HIDE DEF l, m, n
<1>4. /\ l \o m \in Seq(S) /\ Len(l \o m) = c + k
      /\ \A i \in 1..(c + k) : (l \o m)[i] = IF i <= c THEN l[i] ELSE m[i - c]
  BY <1>2, ConcatProperties
<1>5. \A i \in 1..(c + k) : (l \o m)[i] = n[i]
  <2> TAKE i \in 1..(c + k)
  <2>1. CASE i <= c
    BY <1>3, <1>4, <2>1
  <2>2. CASE ~(i <= c)
    <3>1. i - c \in 1..k /\ c + (i - c) = i
      BY <2>2
    <3> QED BY <1>3, <1>4, <2>2, <3>1
  <2> QED BY <2>1, <2>2
<1>6. l \o m = n
  BY <1>2, <1>4, <1>5, SeqEqual
<1> QED BY <1>6 DEF l, m, n, ev, Events

LEMMA SameCardinality == \A S : Graph!Cardinality(S) = Cardinality(S)
BY DEF Graph!Cardinality, Cardinality

\* A page of events is what follows the cursor.
LEMMA PageFollows ==
  ASSUME Journaled(facts), NEW c \in Nat, c <= Len(facts), NEW s \in Snaps
  PROVE  \E count \in Nat :
           /\ count <= Len(facts) - c /\ Len(Graph!PageBehind(c, s)) = count
           /\ Graph!PageBehind(c, s) = [i \in 1..count |-> [sequence |-> c + i, type |-> facts[c + i].type,
                                                            agent |-> facts[c + i].agent]]
<1> DEFINE N == Len(facts)
           from == Graph!From(c, s)
           rest == Graph!Rest(facts, from)
           new == {n \in (from + 1)..N : n > c}
           count == Graph!Least(PageLimit, Cardinality(new))
           first == N - Cardinality(new)
           page == [i \in 1..count |-> [sequence |-> first + i, type |-> rest[first + i - from].type,
                                        agent |-> rest[first + i - from].agent]]
           more == [i \in 1..count |-> [sequence |-> c + i, type |-> facts[c + i].type, agent |-> facts[c + i].agent]]
<1>1. Graph!PageBehind(c, s) = page
  BY SameCardinality DEF Graph!PageBehind
<1>2. N \in Nat /\ facts \in Seq(Graph!Facts) /\ PageLimit \in Nat \ {0} /\ s.cursor \in Int /\ c <= N
  BY StreamConstants DEF Journaled, Snaps
<1>3. from \in Nat /\ from <= c
  BY <1>2 DEF Graph!From
<1> HIDE DEF from
<1>4. new = (c + 1)..N
  BY <1>2, <1>3
<1>5. Cardinality(new) = N - c
  <2>1. c + 1 \in Int /\ N \in Int
    BY <1>2
  <2>2. Cardinality((c + 1)..N) = IF c + 1 > N THEN 0 ELSE N - (c + 1) + 1
    BY <2>1, FS_Interval
  <2> HIDE DEF new, N
  <2> QED BY <1>2, <1>4, <2>2
<1>6. first = c /\ count \in Nat /\ count <= N - c
  BY <1>2, <1>5 DEF Graph!Least
<1> HIDE DEF new, count, first
<1>7. \A i \in 1..count : rest[first + i - from] = facts[c + i]
  <2> TAKE i \in 1..count
  <2>1. c + i - from \in 1..(N - from) /\ from + (c + i - from) = c + i
    BY <1>2, <1>3, <1>6
  <2>2. \A j \in 1..(N - from) : rest[j] = facts[from + j]
    BY <1>2, <1>3 DEF Graph!Rest
  <2> QED BY <1>6, <2>1, <2>2
<1> HIDE DEF rest
<1>8. page = more
  BY <1>6, <1>7
<1>9. Len(more) = count
  BY <1>6
<1> QED BY <1>1, <1>6, <1>8, <1>9

LEMMA ReaderPagesStep ==
  ASSUME GraphInv, Graph!ReaderPages
  PROVE  GraphInv'
<1> DEFINE r == browser
           c == r.cursor
           page == Graph!PageBehind(c, r.seen)
           s == [r EXCEPT !.pc = "idle", !.cursor = c + Len(page), !.got = r.got \o page]
<1>1. browser' = s /\ UNCHANGED <<facts, shown, live, ckpt, hook, ended, taken>>
  BY DEF Graph!ReaderPages
<1>2. Reads(r, facts) /\ Journaled(facts) /\ Len(facts) \in Nat
  BY DEF GraphInv, Journaled
<1> HIDE DEF r
<1>3. c \in Nat /\ c <= Len(facts) /\ r.seen \in Snaps
  BY <1>2 DEF Reads
<1>4. PICK count \in Nat :
        /\ count <= Len(facts) - c /\ Len(page) = count
        /\ page = [i \in 1..count |-> [sequence |-> c + i, type |-> facts[c + i].type, agent |-> facts[c + i].agent]]
  BY <1>2, <1>3, PageFollows
<1> HIDE DEF page
<1>5. Events(c, facts) \o page = Events(c + count, facts)
  BY <1>3, <1>4, EventsJoin
<1>6. c + count \in Nat /\ c + count <= Len(facts)
  BY <1>2, <1>3, <1>4
<1>7. Reads(s, facts)
  <2>1. r.got \o page = Events(c + count, facts) /\ r.seen \in Snaps /\ r.seen.cursor <= Len(facts)
    BY <1>2, <1>5 DEF Reads
  <2>2. r \in [pc : {"idle", "replay"}, cursor : Nat, seen : Snaps, got : {r.got}]
    BY <1>2 DEF Reads
  <2>3. \A m \in Nat : \A l :
          LET z == [r EXCEPT !.pc = "idle", !.cursor = m, !.got = l]
          IN /\ z \in [pc : {"idle", "replay"}, cursor : Nat, seen : Snaps, got : {l}]
             /\ z.cursor = m /\ z.seen = r.seen /\ z.got = l
    BY <2>2
  <2>4. /\ s \in [pc : {"idle", "replay"}, cursor : Nat, seen : Snaps, got : {r.got \o page}]
        /\ s.cursor = c + count /\ s.seen = r.seen /\ s.got = r.got \o page
    BY <1>4, <1>6, <2>3
  <2> HIDE DEF s
  <2> QED BY <1>6, <2>1, <2>4 DEF Reads
<1> HIDE DEF s
<1>8. Reads(browser', facts') /\ facts' = facts
  BY <1>1, <1>7
<1>9. shown' = shown /\ live' = live /\ ckpt' = ckpt /\ hook' = hook /\ ended' = ended /\ taken' = taken
  BY <1>1
<1> QED BY <1>8, <1>9 DEF GraphInv

LEMMA GraphInvStep ==
  ASSUME GraphInv, [Next]_vars
  PROVE  GraphInv'
<1>1. ASSUME NEW a \in Agents, Graph!Dispatch(a) PROVE GraphInv'
  BY <1>1, DispatchStep
<1>2. ASSUME NEW a \in Agents, Graph!Runs(a) PROVE GraphInv'
  <2>1. live[a].origin # "none" /\ Graph!Moves(a, "agent:running", {"pending", "queued"})
    BY <1>2 DEF Graph!Runs
  <2> QED BY <2>1, MovesStep
<1>3. ASSUME NEW a \in Agents, Graph!Finishes(a) PROVE GraphInv'
  <2>1. PICK type \in {"agent:completed", "agent:failed", "agent:stopped"} : Graph!Moves(a, type, {"running"})
    BY <1>3 DEF Graph!Finishes
  <2>2. live[a].state \in {"running"}
    BY <2>1 DEF Graph!Moves
  <2>3. live[a].origin # "none"
    BY <2>2 DEF GraphInv
  <2> QED BY <2>1, <2>3, MovesStep
<1>4. ASSUME NEW a \in Agents, Graph!Checkpoints(a) PROVE GraphInv'
  BY <1>4, CheckpointsStep
<1>5. ASSUME NEW a \in Agents, Graph!HookView(a) PROVE GraphInv'
  BY <1>5, HookViewStep
<1>6. ASSUME NEW a \in Agents, Graph!HookStatus(a) PROVE GraphInv'
  BY <1>6, HookStatusStep
<1>7. ASSUME NEW a \in Agents, Graph!HookProject(a) PROVE GraphInv'
  BY <1>7, HookProjectStep
<1>8. ASSUME NEW a \in Agents, Graph!HookCommit(a) PROVE GraphInv'
  BY <1>8, HookCommitStep
<1>9. ASSUME NEW type \in {"stop_requested", "force_requested"}, Graph!Stop(type) PROVE GraphInv'
  BY <1>9, StopStep
<1>10. ASSUME NEW outcome \in Graph!RunFinished, Graph!End(outcome) PROVE GraphInv'
  BY <1>10, EndStep
<1>11. Graph!ReaderAsks \/ Graph!ReaderPages => GraphInv'
  BY ReaderAsksStep, ReaderPagesStep
<1>12. Graph!Next => GraphInv'
  BY <1>1, <1>2, <1>3, <1>4, <1>5, <1>6, <1>7, <1>8, <1>9, <1>10, <1>11 DEF Graph!Next
<1>13. CASE UNCHANGED graphing
  <2>1. /\ facts' = facts /\ shown' = shown /\ live' = live /\ ckpt' = ckpt /\ hook' = hook
        /\ browser' = browser /\ ended' = ended /\ taken' = taken
    BY <1>13 DEF graphing
  <2> QED BY <2>1 DEF GraphInv
<1>14. Graph!Next \/ UNCHANGED graphing
  BY DEF Next, vars, Crash
<1> QED BY <1>12, <1>13, <1>14

\* A browser that pages the graph's events receives every fact of the journal
\* once and in order, whichever checkpoints are committed between and inside its
\* requests, for every number of Agents and facts and every page size
\* (RunGraphProjector.events, _replay_prefix).
THEOREM EventsAreInOrder == Spec => []EventsInOrder
<1>1. Init => GraphInv
  BY GraphStart DEF Init
<1>2. GraphInv /\ [Next]_vars => GraphInv'
  BY GraphInvStep
<1>3. GraphInv => EventsInOrder
  BY DEF GraphInv, Reads, Events, EventsInOrder, Graph!EventsInOrder, Graph!Event
<1> QED BY <1>1, <1>2, <1>3, PTL DEF Spec

\* The last fact about an Agent, as the property picks it.
LEMMA LastIsAbout ==
  ASSUME facts \in Seq(Graph!Facts), NEW a \in Agents, Graph!LastOf(a) > 0
  PROVE  LastAbout(facts, a, Graph!LastOf(a))
<1> DEFINE at == {n \in 1..Len(facts) : facts[n].agent = a}
           Latest(n) == n \in at /\ \A m \in at : m <= n
<1>1. Graph!LastOf(a) = IF at = {} THEN 0 ELSE CHOOSE n \in at : \A m \in at : m <= n
  BY DEF Graph!LastOf
<1>2. at # {}
  <2> HIDE DEF at
  <2> QED BY <1>1
<1>3. \E n \in at : \A m \in at : m <= n
  <2> DEFINE T == {k \in 0..Len(facts) : Len(facts) - k \in at}
  <2>1. Len(facts) \in Nat /\ at \subseteq 1..Len(facts)
    OBVIOUS
  <2> HIDE DEF at
  <2>2. T # {} /\ T \subseteq Nat
    <3>1. PICK n \in at : TRUE
      BY <1>2
    <3>2. Len(facts) - n \in 0..Len(facts) /\ Len(facts) - (Len(facts) - n) = n
      BY <2>1, <3>1
    <3>3. Len(facts) - n \in T
      BY <3>2
    <3>4. T \subseteq Nat
      BY <2>1
    <3> QED BY <3>3, <3>4
  <2>3. PICK k \in T : \A j \in T : k <= j
    BY <2>2, LeastNumber
  <2>4. Len(facts) - k \in at
    OBVIOUS
  <2>5. \A m \in at : Len(facts) - m \in T
    <3> TAKE m \in at
    <3>1. Len(facts) - m \in 0..Len(facts) /\ Len(facts) - (Len(facts) - m) = m
      BY <2>1
    <3> QED BY <3>1
  <2>6. \A m \in at : m <= Len(facts) - k
    <3> TAKE m \in at
    <3>1. k <= Len(facts) - m
      BY <2>3, <2>5
    <3>2. k \in Nat /\ m \in Nat
      BY <2>1, <2>2
    <3> QED BY <2>1, <3>1, <3>2
  <2> QED BY <2>4, <2>6
<1>4. Graph!LastOf(a) \in at /\ \A m \in at : m <= Graph!LastOf(a)
  <2> HIDE DEF at
  <2> QED BY <1>1, <1>2, <1>3
<1> QED BY <1>4 DEF LastAbout

\* The graph seeded from the last checkpoint stands where a replay of the whole
\* journal stands, shows every node it shows under the same delegating Agent, and
\* shows what has finished, unless its fact came between the checkpoint's look at
\* the live swarm and its read of the journal (RunGraphProjector._replay, project).
THEOREM SeededGraphsAreReplays == Spec => []SeededIsReplay
<1>1. Init => GraphInv
  BY GraphStart DEF Init
<1>2. GraphInv /\ [Next]_vars => GraphInv'
  BY GraphInvStep
<1>3. GraphInv => SeededIsReplay
  <2> SUFFICES ASSUME GraphInv PROVE SeededIsReplay
    OBVIOUS
  <2>1. /\ facts \in Seq(Graph!Facts) /\ Opening(facts) /\ shown \in Graph!RunStates
        /\ ckpt \in Snaps /\ ckpt.cursor <= Len(facts) /\ Len(facts) \in Nat
        /\ Faithful(ckpt, facts, taken.view, taken.status, taken.read)
    BY DEF GraphInv, Journaled, Faithful
  <2>2. Graph!Shown = Rebuilt(ckpt, facts)
    BY <2>1, RebuiltFacts DEF Graph!Shown
  <2>3. Graph!Whole = WholeOf(facts)
    <3>1. Graph!NoSnap \in Snaps /\ Graph!NoSnap.cursor <= Len(facts)
      BY <2>1, EmptyGraphs
    <3>2. Graph!Seeded(shown, Graph!NoSnap, facts) = WholeOf(facts)
      BY <2>1, <3>1, RebuiltFacts DEF WholeOf
    <3>3. Graph!Seeded(shown, Graph!NoSnap, facts) = Graph!Replay(Graph!EmptyGraph(shown), facts)
      BY DEF Graph!Seeded
    <3> QED BY <3>2, <3>3 DEF Graph!Whole
  <2> DEFINE g == Graph!Shown
             w == Graph!Whole
  <2>4. /\ g.cursor = w.cursor
        /\ \A a \in Agents : w.node[a].origin # "none" => g.node[a].origin # "none"
        /\ \A n \in 1..Len(facts) : facts[n].parent # NoOne => g.node[facts[n].agent].parent = facts[n].parent
        /\ \A a \in Agents, n \in 1..Len(facts) : LastAbout(facts, a, n) /\ n \notin (taken.view + 1)..taken.read =>
             g.node[a].state = w.node[a].state
        /\ \A n \in 1..Len(facts) : facts[n].type \in RunEnds /\ n \notin (taken.status + 1)..taken.read =>
             g.run = facts[n].type
    BY <2>1, <2>2, <2>3 DEF Faithful
  <2>5. Graph!SeededKeepsTree
    BY <2>4 DEF Graph!SeededKeepsTree, Graph!Known
  <2>6. ASSUME NEW a \in Agents, Graph!LastOf(a) > 0, Graph!LastOf(a) \notin (taken.view + 1)..taken.read
        PROVE  g.node[a].state = w.node[a].state
    <3>1. LastAbout(facts, a, Graph!LastOf(a))
      BY <2>1, <2>6, LastIsAbout
    <3>2. Graph!LastOf(a) \in 1..Len(facts)
      BY <3>1 DEF LastAbout
    <3> HIDE DEF g, w
    <3> QED BY <2>4, <2>6, <3>1, <3>2
  <2>7. Graph!FinishedIsShown
    BY <2>4, <2>6 DEF Graph!FinishedIsShown, RunEnds
  <2> QED BY <2>5, <2>7 DEF SeededIsReplay
<1> QED BY <1>1, <1>2, <1>3, PTL DEF Spec

-----------------------------------------------------------------------------
\* The bytes of a journal.

LEMMA OffsetFacts ==
  /\ Offset(1) = 0 /\ Newline = 0
  /\ \A n \in Nat \ {0} : /\ Offset(n) \in Nat /\ Width(n) \in {2, 3} /\ Offset(n + 1) = Offset(n) + Width(n)
                          /\ \A i \in Nat \ {0} : Body(n, i) \in Nat \ {0}
  /\ \A m, n \in Nat \ {0} : m < n => Offset(m) + 2 <= Offset(n)
  /\ \A m, n \in Nat \ {0} : Body(m, 1) = Body(n, 1) => m = n
<1>1. Offset(1) = 0 /\ Newline = 0
  BY DEF Offset, Newline
<1>2. ASSUME NEW n \in Nat \ {0}
      PROVE  /\ Offset(n) \in Nat /\ Width(n) \in {2, 3} /\ Offset(n + 1) = Offset(n) + Width(n)
             /\ \A i \in Nat \ {0} : Body(n, i) \in Nat \ {0}
  <2>1. /\ n \div 2 \in Nat /\ n % 2 \in {0, 1} /\ n = 2 * (n \div 2) + (n % 2)
    BY Halves
  <2>2. (n + 1) \div 2 = n \div 2 + (n % 2)
    OBVIOUS
  <2>3. \A i \in Nat \ {0} : 10 * n + i \in Nat \ {0}
    OBVIOUS
  <2> QED BY <2>1, <2>2, <2>3 DEF Offset, Width, Body
<1>3. ASSUME NEW m \in Nat \ {0}, NEW n \in Nat \ {0}, m < n
      PROVE  Offset(m) + 2 <= Offset(n)
  <2>1. m \div 2 \in Nat /\ n \div 2 \in Nat /\ m \div 2 <= n \div 2
    BY <1>3, Halves
  <2> QED BY <1>3, <2>1 DEF Offset
<1>4. \A m, n \in Nat \ {0} : Body(m, 1) = Body(n, 1) => m = n
  BY DEF Body
<1> QED BY <1>1, <1>2, <1>3, <1>4

\* Every byte belongs to a record.
LEMMA OffsetCover ==
  ASSUME NEW N \in Nat \ {0}, NEW b \in Nat \ {0}, b <= Offset(N + 1)
  PROVE  \E m \in 1..N : Offset(m) < b /\ b <= Offset(m + 1)
<1> DEFINE T == {m \in 1..N : b <= Offset(m + 1)}
<1>1. T \subseteq Nat /\ N \in T
  OBVIOUS
<1>2. PICK m \in T : \A l \in T : m <= l
  BY <1>1, LeastNumber
<1>3. m \in 1..N /\ b <= Offset(m + 1)
  OBVIOUS
<1>4. CASE m = 1
  <2>1. Offset(1) = 0
    BY OffsetFacts
  <2> QED BY <1>3, <1>4, <2>1
<1>5. CASE m # 1
  <2>1. m - 1 \in 1..N /\ m - 1 < m /\ (m - 1) + 1 = m
    BY <1>3, <1>5
  <2>2. m - 1 \notin T
    BY <1>2, <1>3, <2>1
  <2>3. ~(b <= Offset(m))
    BY <2>1, <2>2
  <2>4. m \in Nat \ {0}
    BY <1>3
  <2>5. Offset(m) \in Nat
    BY <2>4, OffsetFacts
  <2> QED BY <1>3, <2>3, <2>5
<1> QED BY <1>4, <1>5

\* What a reader may rely on: where the newlines are, and what lies between.
LaidOut(bytes, L) ==
  /\ bytes \in Seq(Nat) /\ L \in Nat /\ Len(bytes) \in {Offset(L + 1), Offset(L + 1) + 1}
  /\ \A m \in 1..(L + 1) : \A b \in 1..Len(bytes) : Offset(m) < b /\ b <= Offset(m + 1) =>
       bytes[b] = IF b = Offset(m + 1) THEN Newline ELSE Body(m, b - Offset(m))
  /\ \A b \in 1..Len(bytes) : bytes[b] = Newline => \E m \in 1..L : b = Offset(m + 1)

LEMMA BytesAreLaidOut ==
  ASSUME FileInv, NEW k \in Attempts
  PROVE  LaidOut(Bytes(k), Len(journal[k]))
<1> DEFINE L == Len(journal[k])
           Z == Offset(L + 1) + IF k = cur /\ partial # None THEN 1 ELSE 0
           Of(b) == CHOOSE m \in 1..(L + 1) : Offset(m) < b /\ b <= Offset(m + 1)
           Byte(b) == IF b = Offset(Of(b) + 1) THEN Newline ELSE Body(Of(b), b - Offset(Of(b)))
           bytes == [b \in 1..Z |-> Byte(b)]
<1>1. L \in Nat
  BY FileFacts
<1>2. Bytes(k) = bytes
  BY DEF Bytes
<1> HIDE DEF L
<1>3. Offset(L + 1) \in Nat /\ Offset(L + 2) \in Nat /\ Offset(L + 1) + 2 <= Offset(L + 2)
  <2>1. L + 1 \in Nat \ {0} /\ L + 2 \in Nat \ {0} /\ L + 1 < L + 2
    BY <1>1
  <2> QED BY <2>1, OffsetFacts
<1>4. Z \in {Offset(L + 1), Offset(L + 1) + 1} /\ Z \in Nat /\ Z <= Offset(L + 2)
  BY <1>3
<1> HIDE DEF Z
<1>5. ASSUME NEW b \in 1..Z
      PROVE  Of(b) \in 1..(L + 1) /\ Offset(Of(b)) < b /\ b <= Offset(Of(b) + 1)
  <2>1. \E m \in 1..(L + 1) : Offset(m) < b /\ b <= Offset(m + 1)
    <3>1. L + 1 \in Nat \ {0} /\ b \in Nat \ {0} /\ b <= Offset((L + 1) + 1)
      BY <1>1, <1>3, <1>4
    <3> QED BY <3>1, OffsetCover
  <2> QED BY <2>1
<1> HIDE DEF Of
<1>6. ASSUME NEW b \in 1..Z, NEW m \in 1..(L + 1), Offset(m) < b, b <= Offset(m + 1)
      PROVE  Of(b) = m
  <2>1. /\ Of(b) \in Nat \ {0} /\ m \in Nat \ {0} /\ m + 1 \in Nat \ {0} /\ Of(b) + 1 \in Nat \ {0}
        /\ Offset(Of(b)) < b /\ b <= Offset(Of(b) + 1)
    BY <1>1, <1>5
  <2>2. /\ Offset(m) \in Nat /\ Offset(m + 1) \in Nat /\ Offset(Of(b)) \in Nat /\ Offset(Of(b) + 1) \in Nat
    BY <2>1, OffsetFacts
  <2>3. CASE m < Of(b)
    <3>1. m + 1 = Of(b) \/ m + 1 < Of(b)
      BY <2>1, <2>3
    <3>2. Offset(m + 1) <= Offset(Of(b))
      <4>1. CASE m + 1 = Of(b)
        BY <2>2, <4>1
      <4>2. CASE m + 1 < Of(b)
        <5>1. Offset(m + 1) + 2 <= Offset(Of(b))
          BY <2>1, <4>2, OffsetFacts
        <5> QED BY <2>2, <5>1
      <4> QED BY <3>1, <4>1, <4>2
    <3> QED BY <1>4, <1>6, <2>1, <2>2, <3>2
  <2>4. CASE Of(b) < m
    <3>1. Of(b) + 1 = m \/ Of(b) + 1 < m
      BY <2>1, <2>4
    <3>2. Offset(Of(b) + 1) <= Offset(m)
      <4>1. CASE Of(b) + 1 = m
        BY <2>2, <4>1
      <4>2. CASE Of(b) + 1 < m
        <5>1. Offset(Of(b) + 1) + 2 <= Offset(m)
          BY <2>1, <4>2, OffsetFacts
        <5> QED BY <2>2, <5>1
      <4> QED BY <3>1, <4>1, <4>2
    <3> QED BY <1>4, <1>6, <2>1, <2>2, <3>2
  <2> QED BY <2>1, <2>3, <2>4
<1>7. ASSUME NEW b \in 1..Z
      PROVE  /\ Byte(b) \in Nat
             /\ Byte(b) = Newline => b = Offset(Of(b) + 1)
  <2>1. Of(b) \in Nat \ {0} /\ Offset(Of(b)) \in Nat /\ b - Offset(Of(b)) \in Nat \ {0}
    <3>1. Of(b) \in Nat \ {0} /\ Offset(Of(b)) < b
      BY <1>1, <1>5
    <3>2. Offset(Of(b)) \in Nat
      BY <3>1, OffsetFacts
    <3> QED BY <1>4, <3>1, <3>2
  <2>2. Body(Of(b), b - Offset(Of(b))) \in Nat \ {0} /\ Newline = 0
    BY <2>1, OffsetFacts
  <2> QED BY <2>2
<1>8. bytes \in Seq(Nat) /\ Len(bytes) = Z /\ \A b \in 1..Z : bytes[b] = Byte(b)
  <2> HIDE DEF Byte
  <2> QED BY <1>4, <1>7
<1>9. \A m \in 1..(L + 1) : \A b \in 1..Z : Offset(m) < b /\ b <= Offset(m + 1) =>
        Byte(b) = IF b = Offset(m + 1) THEN Newline ELSE Body(m, b - Offset(m))
  BY <1>6
<1>10. \A b \in 1..Z : Byte(b) = Newline => \E m \in 1..L : b = Offset(m + 1)
  <2> TAKE b \in 1..Z
  <2> HAVE Byte(b) = Newline
  <2>1. b = Offset(Of(b) + 1) /\ Of(b) \in 1..(L + 1)
    BY <1>5, <1>7
  <2>2. Of(b) # L + 1
    BY <1>1, <1>3, <1>4, <2>1
  <2>3. Of(b) \in 1..L
    BY <1>1, <2>1, <2>2
  <2> QED BY <2>1, <2>3
<1> HIDE DEF Byte, bytes
<1>11. LaidOut(bytes, L)
  BY <1>1, <1>4, <1>8, <1>9, <1>10 DEF LaidOut
<1> QED BY <1>2, <1>11 DEF L

-----------------------------------------------------------------------------
\* The lines of a journal.

Span(bytes, a, b) == SubSeq(bytes, a + 1, b)
Unbroken(bytes, a, b) == \A x \in (a + 1)..b : bytes[x] # Newline

LEMMA SpanFacts ==
  ASSUME NEW bytes \in Seq(Nat), NEW a \in Nat, NEW b \in Nat, a <= b, b <= Len(bytes)
  PROVE  /\ Span(bytes, a, b) \in Seq(Nat) /\ Len(Span(bytes, a, b)) = b - a
         /\ \A i \in 1..(b - a) : Span(bytes, a, b)[i] = bytes[a + i]
<1>1. \A i \in (a + 1)..b : bytes[i] \in Nat
  OBVIOUS
<1>2. Span(bytes, a, b) = [i \in 1..(b - a) |-> bytes[a + i]]
  BY DEF Span
<1>3. \A i \in 1..(b - a) : bytes[a + i] \in Nat
  OBVIOUS
<1> QED BY <1>2, <1>3

LEMMA SpanIs ==
  ASSUME NEW bytes \in Seq(Nat), NEW a \in Nat, NEW b \in Nat, a <= b, b <= Len(bytes),
         NEW s \in Seq(Nat), Len(s) = b - a, \A i \in 1..(b - a) : s[i] = bytes[a + i]
  PROVE  s = Span(bytes, a, b)
<1>1. /\ Span(bytes, a, b) \in Seq(Nat) /\ Len(Span(bytes, a, b)) = b - a
      /\ \A i \in 1..(b - a) : Span(bytes, a, b)[i] = bytes[a + i]
  BY SpanFacts
<1> DEFINE u == Span(bytes, a, b)
<1> HIDE DEF u
<1>2. u \in Seq(Nat) /\ Len(u) = Len(s) /\ \A i \in 1..Len(s) : u[i] = s[i]
  BY <1>1 DEF u
<1>3. u = s
  BY <1>2
<1> QED BY <1>3 DEF u

LEMMA SpanJoin ==
  ASSUME NEW bytes \in Seq(Nat), NEW a \in Nat, NEW b \in Nat, NEW c \in Nat,
         a <= b, b <= c, c <= Len(bytes)
  PROVE  Span(bytes, a, b) \o Span(bytes, b, c) = Span(bytes, a, c)
<1> DEFINE x == Span(bytes, a, b)
           y == Span(bytes, b, c)
           s == x \o y
           P == b - a
           Q == c - b
<1>1. Len(bytes) \in Nat /\ b <= Len(bytes) /\ a <= c
  OBVIOUS
<1>2. x \in Seq(Nat) /\ Len(x) = P /\ \A i \in 1..P : x[i] = bytes[a + i]
  BY <1>1, SpanFacts
<1>3. y \in Seq(Nat) /\ Len(y) = Q /\ \A i \in 1..Q : y[i] = bytes[b + i]
  BY SpanFacts
<1>4. P \in Nat /\ Q \in Nat /\ P + Q = c - a /\ b = a + P
  OBVIOUS
<1> HIDE DEF x, y, P, Q
<1>5. s \in Seq(Nat) /\ Len(s) = P + Q /\ \A i \in 1..(P + Q) : s[i] = IF i <= P THEN x[i] ELSE y[i - P]
  BY <1>2, <1>3, ConcatProperties, ZenonT(60)
<1> HIDE DEF s
<1>6. ASSUME NEW i \in 1..(P + Q)
      PROVE  s[i] = bytes[a + i]
  <2>1. CASE i <= P
    <3>1. i \in 1..P
      BY <2>1
    <3>2. s[i] = x[i]
      BY <1>5, <2>1
    <3> QED BY <1>2, <3>1, <3>2
  <2>2. CASE ~(i <= P)
    <3>1. i - P \in 1..Q /\ b + (i - P) = a + i
      BY <1>4, <2>2
    <3>2. s[i] = y[i - P]
      BY <1>5, <2>2
    <3> QED BY <1>3, <3>1, <3>2
  <2> QED BY <2>1, <2>2
<1>7. s = Span(bytes, a, c)
  <2>1. Len(s) = c - a /\ \A i \in 1..(c - a) : s[i] = bytes[a + i]
    BY <1>4, <1>5, <1>6
  <2> QED BY <1>1, <1>5, <2>1, SpanIs, ZenonT(60)
<1> QED BY <1>7 DEF s, x, y

LEMMA SpanMore ==
  ASSUME NEW bytes \in Seq(Nat), NEW a \in Nat, NEW b \in Nat, a <= b, b < Len(bytes)
  PROVE  Append(Span(bytes, a, b), bytes[b + 1]) = Span(bytes, a, b + 1)
<1> DEFINE x == Span(bytes, a, b)
           s == Append(x, bytes[b + 1])
<1>0. Len(bytes) \in Nat /\ b <= Len(bytes) /\ b + 1 <= Len(bytes) /\ b + 1 \in Nat /\ a <= b + 1
  OBVIOUS
<1>1. x \in Seq(Nat) /\ Len(x) = b - a /\ \A i \in 1..(b - a) : x[i] = bytes[a + i]
  BY <1>0, SpanFacts
<1> HIDE DEF x
<1>2. bytes[b + 1] \in Nat
  OBVIOUS
<1>3. s \in Seq(Nat) /\ Len(s) = (b + 1) - a
  BY <1>1, <1>2
<1>4. ASSUME NEW i \in 1..((b + 1) - a)
      PROVE  s[i] = bytes[a + i]
  <2>1. CASE i <= b - a
    <3>1. i \in 1..Len(x) /\ s[i] = x[i]
      BY <1>1, <1>2, <2>1
    <3> QED BY <1>1, <3>1
  <2>2. CASE ~(i <= b - a)
    <3>1. i = Len(x) + 1 /\ a + i = b + 1
      BY <1>1, <2>2
    <3>2. s[Len(x) + 1] = bytes[b + 1]
      BY <1>1, <1>2
    <3> QED BY <3>1, <3>2
  <2> QED BY <2>1, <2>2
<1> HIDE DEF s
<1>5. s = Span(bytes, a, b + 1)
  <2> DEFINE c == b + 1
  <2>1. c \in Nat /\ a <= c /\ c <= Len(bytes) /\ Len(s) = c - a /\ \A i \in 1..(c - a) : s[i] = bytes[a + i]
    BY <1>0, <1>3, <1>4
  <2> HIDE DEF c
  <2>2. s = Span(bytes, a, c)
    BY <1>3, <2>1, SpanIs
  <2> QED BY <2>2 DEF c
<1> QED BY <1>5 DEF s, x

LEMMA SpanNone ==
  ASSUME NEW bytes \in Seq(Nat), NEW a \in Nat, a <= Len(bytes)
  PROVE  Span(bytes, a, a) = <<>>
<1>1. Span(bytes, a, a) \in Seq(Nat) /\ Len(Span(bytes, a, a)) = 0
  BY SpanFacts
<1> DEFINE x == Span(bytes, a, a)
<1> HIDE DEF x
<1>2. x \in Seq(Nat) /\ Len(x) = 0
  BY <1>1 DEF x
<1> QED BY <1>2 DEF x

-----------------------------------------------------------------------------
\* What a page reads: whole records 1..e, perhaps with the first byte of one more.
Ends(bytes, L, e, end) ==
  /\ LaidOut(bytes, L) /\ e \in 0..L
  /\ end = Offset(e + 1) \/ (e = L /\ end = Len(bytes))

LEMMA EndsFacts ==
  ASSUME NEW bytes, NEW L, NEW e, NEW end, Ends(bytes, L, e, end)
  PROVE  /\ bytes \in Seq(Nat) /\ Len(bytes) \in Nat /\ L \in Nat /\ e \in Nat /\ e <= L
         /\ end \in Nat /\ end <= Len(bytes) /\ Offset(e + 1) <= end /\ end <= Offset(e + 1) + 1
         /\ Offset(e + 1) \in Nat
         /\ \A m \in 1..e : Offset(m + 1) \in 1..end /\ bytes[Offset(m + 1)] = Newline
         /\ \A b \in 1..end : bytes[b] = Newline => \E m \in 1..e : b = Offset(m + 1)
<1>1. /\ bytes \in Seq(Nat) /\ Len(bytes) \in Nat /\ L \in Nat /\ e \in Nat /\ e <= L
  BY DEF Ends, LaidOut
<1>2. L + 1 \in Nat \ {0} /\ e + 1 \in Nat \ {0} /\ Offset(L + 1) \in Nat /\ Offset(e + 1) \in Nat
  <2>1. L + 1 \in Nat \ {0} /\ e + 1 \in Nat \ {0}
    BY <1>1
  <2> QED BY <2>1, OffsetFacts
<1>3. Offset(e + 1) <= Offset(L + 1)
  <2>1. CASE e = L
    BY <1>2, <2>1
  <2>2. CASE e # L
    <3>1. e + 1 < L + 1
      BY <1>1, <2>2
    <3>2. Offset(e + 1) + 2 <= Offset(L + 1)
      BY <1>2, <3>1, OffsetFacts
    <3> QED BY <1>2, <3>2
  <2> QED BY <2>1, <2>2
<1>4. Len(bytes) = Offset(L + 1) \/ Len(bytes) = Offset(L + 1) + 1
  BY DEF Ends, LaidOut
<1>5. end \in Nat /\ end <= Len(bytes) /\ Offset(e + 1) <= end /\ end <= Offset(e + 1) + 1
  BY <1>2, <1>3, <1>4 DEF Ends
<1>6. ASSUME NEW m \in 1..e
      PROVE  Offset(m + 1) \in 1..end /\ bytes[Offset(m + 1)] = Newline
  <2>1. m \in Nat \ {0} /\ m + 1 \in Nat \ {0} /\ m \in 1..(L + 1)
    BY <1>1
  <2>2. Offset(m) \in Nat /\ Offset(m + 1) \in Nat /\ Offset(m) + 2 <= Offset(m + 1)
    BY <2>1, OffsetFacts
  <2>3. Offset(m + 1) <= Offset(e + 1)
    <3>1. CASE m = e
      BY <1>2, <3>1
    <3>2. CASE m # e
      <4>1. m + 1 < e + 1
        BY <1>1, <3>2
      <4>2. Offset(m + 1) + 2 <= Offset(e + 1)
        BY <1>2, <2>1, <4>1, OffsetFacts
      <4> QED BY <1>2, <2>2, <4>2
    <3> QED BY <3>1, <3>2
  <2>4. Offset(m + 1) \in 1..end /\ Offset(m + 1) \in 1..Len(bytes)
    <3> DEFINE x == Offset(m + 1)
               y == Offset(e + 1)
    <3>1. x \in Nat /\ 1 <= x /\ y \in Nat /\ x <= y /\ y <= end /\ end <= Len(bytes)
      BY <1>2, <1>5, <2>2, <2>3, SMTT(40)
    <3> HIDE DEF x, y
    <3>2. x \in 1..end /\ x \in 1..Len(bytes)
      BY <1>1, <1>5, <3>1
    <3> QED BY <3>2 DEF x
  <2>5. \A b \in 1..Len(bytes) : Offset(m) < b /\ b <= Offset(m + 1) =>
          bytes[b] = IF b = Offset(m + 1) THEN Newline ELSE Body(m, b - Offset(m))
    BY <2>1 DEF Ends, LaidOut
  <2> QED BY <2>2, <2>4, <2>5
<1>7. ASSUME NEW b \in 1..end, bytes[b] = Newline
      PROVE  \E m \in 1..e : b = Offset(m + 1)
  <2>1. b \in 1..Len(bytes)
    BY <1>1, <1>5
  <2>2. PICK m \in 1..L : b = Offset(m + 1)
    BY <1>7, <2>1 DEF Ends, LaidOut
  <2>3. CASE m > e
    <3>1. m + 1 \in Nat \ {0} /\ e + 1 < m + 1
      BY <1>1, <2>3
    <3>2. Offset(e + 1) + 2 <= Offset(m + 1)
      BY <1>2, <3>1, OffsetFacts
    <3> QED BY <1>2, <1>5, <2>2, <3>2, SMTT(40)
  <2>4. CASE m <= e
    BY <1>1, <2>2, <2>4
  <2> QED BY <1>1, <2>3, <2>4
<1> QED BY <1>1, <1>2, <1>5, <1>6, <1>7

LineEnd(e, end, m) == IF m = e + 1 THEN end ELSE Offset(m + 1) - 1
Kept(k, e) == {n \in 1..e : journal[k][n].type # "torn"}
Only(k, e, m) == {m} \cap Kept(k, e)

LEMMA OffsetOrder ==
  ASSUME NEW m \in Nat \ {0}, NEW n \in Nat \ {0}
  PROVE  /\ m < n => Offset(m) < Offset(n) /\ Offset(m + 1) <= Offset(n)
         /\ Offset(m) = Offset(n) => m = n
         /\ Offset(m) \in Nat /\ Offset(m + 1) \in Nat /\ Offset(m) + 2 <= Offset(m + 1)
<1>1. m + 1 \in Nat \ {0} /\ m < m + 1
  OBVIOUS
<1>2. Offset(m) \in Nat /\ Offset(n) \in Nat /\ Offset(m + 1) \in Nat
  BY <1>1, OffsetFacts
<1>3. Offset(m) + 2 <= Offset(m + 1)
  BY <1>1, OffsetFacts
<1>4. m < n => Offset(m) + 2 <= Offset(n)
  BY OffsetFacts
<1>5. n < m => Offset(n) + 2 <= Offset(m)
  BY OffsetFacts
<1>6. m + 1 < n => Offset(m + 1) + 2 <= Offset(n)
  BY <1>1, OffsetFacts
<1>7. m < n => Offset(m) < Offset(n)
  BY <1>2, <1>4
<1>8. m < n => Offset(m + 1) <= Offset(n)
  <2>1. m < n => m + 1 = n \/ m + 1 < n
    OBVIOUS
  <2>2. CASE m + 1 = n
    BY <1>2, <2>2
  <2>3. CASE m + 1 < n
    BY <1>2, <1>6, <2>3
  <2> QED BY <2>1, <2>2, <2>3
<1>9. Offset(m) = Offset(n) => m = n
  <2>1. m = n \/ m < n \/ n < m
    OBVIOUS
  <2> QED BY <1>2, <1>4, <1>5, <2>1
<1> QED BY <1>2, <1>3, <1>7, <1>8, <1>9

\* A line that begins where record m does ends where it does, and begins again
\* with the next.
LEMMA LineIs ==
  ASSUME NEW bytes, NEW L, NEW e, NEW end, Ends(bytes, L, e, end),
         NEW m \in 1..(e + 1), NEW b \in Nat, Offset(m) <= b, b <= end,
         Unbroken(bytes, Offset(m), b), b = end \/ (b < end /\ bytes[b + 1] = Newline)
  PROVE  b = LineEnd(e, end, m) /\ (b < end => m \in 1..e /\ b + 1 = Offset(m + 1))
<1>1. /\ e \in Nat /\ end \in Nat /\ m \in Nat \ {0}
      /\ \A n \in 1..e : Offset(n + 1) \in 1..end /\ bytes[Offset(n + 1)] = Newline
      /\ \A x \in 1..end : bytes[x] = Newline => \E n \in 1..e : x = Offset(n + 1)
  BY EndsFacts
<1>2. Offset(m) \in Nat /\ Offset(m + 1) \in Nat /\ Offset(m) < Offset(m + 1)
  BY <1>1, OffsetOrder
<1>3. ~(m <= e /\ Offset(m + 1) <= b)
  <2> SUFFICES ASSUME m <= e, Offset(m + 1) <= b PROVE FALSE
    OBVIOUS
  <2>1. m \in 1..e
    BY <1>1
  <2>2. bytes[Offset(m + 1)] = Newline
    BY <1>1, <2>1
  <2>3. Offset(m + 1) \in (Offset(m) + 1)..b
    BY <1>2
  <2> QED BY <2>2, <2>3 DEF Unbroken
<1>4. CASE b = end
  <2>1. ~(m <= e)
    <3> SUFFICES ASSUME m <= e PROVE FALSE
      OBVIOUS
    <3>1. m \in 1..e
      BY <1>1
    <3>2. Offset(m + 1) <= b
      BY <1>1, <1>4, <3>1
    <3> QED BY <1>3, <3>2
  <2>2. m = e + 1
    BY <1>1, <2>1
  <2>3. ~(b < end)
    BY <1>1, <1>4
  <2> QED BY <1>4, <2>2, <2>3 DEF LineEnd
<1>5. CASE b < end /\ bytes[b + 1] = Newline
  <2>1. b + 1 \in 1..end
    BY <1>1, <1>5
  <2>2. PICK j \in 1..e : b + 1 = Offset(j + 1)
    BY <1>1, <1>5, <2>1
  <2>3. j \in Nat \ {0} /\ j + 1 \in Nat \ {0} /\ m + 1 \in Nat \ {0}
    BY <1>1
  <2>4. ~(j < m)
    <3> SUFFICES ASSUME j < m PROVE FALSE
      OBVIOUS
    <3>1. Offset(j + 1) <= Offset(m)
      BY <1>1, <2>3, OffsetOrder
    <3> QED BY <1>2, <2>2, <3>1
  <2>5. ~(m < j)
    <3> SUFFICES ASSUME m < j PROVE FALSE
      OBVIOUS
    <3>1. m + 1 < j + 1 /\ m <= e
      BY <1>1, <2>3
    <3>2. Offset(m + 1) < Offset(j + 1)
      BY <2>3, <3>1, OffsetOrder
    <3>3. Offset(m + 1) <= b
      BY <1>2, <2>2, <3>2
    <3> QED BY <1>3, <3>1, <3>3
  <2>6. j = m
    BY <2>3, <2>4, <2>5
  <2>7. m \in 1..e /\ b + 1 = Offset(m + 1) /\ m # e + 1
    BY <1>1, <2>2, <2>6
  <2>8. LineEnd(e, end, m) = b
    BY <1>2, <2>7 DEF LineEnd
  <2> QED BY <2>7, <2>8
<1> QED BY <1>4, <1>5

\* The bytes of a line are the ones of its record.
LEMMA LineRecord ==
  ASSUME NEW k, NEW bytes, NEW e, NEW end, Ends(bytes, Len(journal[k]), e, end), NEW m \in 1..e
  PROVE  RecordsAt(k, Span(bytes, Offset(m), Offset(m + 1) - 1)) = Only(k, e, m)
<1> DEFINE L == Len(journal[k])
           s == Span(bytes, Offset(m), Offset(m + 1) - 1)
           Text(n) == [i \in 1..(Width(n) - 1) |-> Body(n, i)]
<1>1. /\ bytes \in Seq(Nat) /\ Len(bytes) \in Nat /\ L \in Nat /\ e \in Nat /\ e <= L
      /\ end \in Nat /\ end <= Len(bytes) /\ Offset(m + 1) \in 1..end
  BY EndsFacts
<1>2. m \in Nat \ {0} /\ m \in 1..L /\ m \in 1..(L + 1)
  BY <1>1, SMTT(40)
<1>3. Offset(m) \in Nat /\ Offset(m + 1) \in Nat /\ Offset(m) + 2 <= Offset(m + 1)
  BY <1>2, OffsetOrder
<1>4. Width(m) \in {2, 3} /\ Offset(m + 1) = Offset(m) + Width(m)
  BY <1>2, OffsetFacts
<1>5. \A b \in 1..Len(bytes) : Offset(m) < b /\ b <= Offset(m + 1) =>
        bytes[b] = IF b = Offset(m + 1) THEN Newline ELSE Body(m, b - Offset(m))
  BY <1>2 DEF Ends, LaidOut
<1> DEFINE a == Offset(m)
           z == Offset(m + 1) - 1
<1>6. a \in Nat /\ z \in Nat /\ a <= z /\ z <= Len(bytes) /\ z - a = Width(m) - 1 /\ z < end /\ a + Width(m) = z + 1
      /\ a = Offset(m) /\ z + 1 = Offset(m + 1)
  <2> DEFINE x == Offset(m)
             y == Offset(m + 1)
             w == Width(m)
  <2>1. /\ x \in Nat /\ y \in Nat /\ x + 2 <= y /\ w \in {2, 3} /\ y = x + w /\ y \in 1..end /\ end <= Len(bytes)
        /\ end \in Nat /\ Len(bytes) \in Nat
    BY <1>1, <1>3, <1>4
  <2> HIDE DEF x, y, w
  <2>2. /\ x \in Nat /\ y - 1 \in Nat /\ x <= y - 1 /\ y - 1 <= Len(bytes) /\ (y - 1) - x = w - 1
        /\ y - 1 < end /\ x + w = (y - 1) + 1 /\ (y - 1) + 1 = y
    BY <2>1
  <2> QED BY <2>2 DEF x, y, w
<1>7. \A i \in 1..(z - a) : bytes[a + i] = Body(m, i)
  <2> TAKE i \in 1..(z - a)
  <2> DEFINE b == a + i
  <2>1. b \in 1..Len(bytes) /\ Offset(m) < b /\ b <= Offset(m + 1) /\ b # Offset(m + 1) /\ b - Offset(m) = i
    <3> HIDE DEF a, z
    <3>1. Offset(m) = a /\ Offset(m + 1) = z + 1 /\ i \in Int /\ 1 <= i /\ i <= z - a
      BY <1>6
    <3>2. a \in Nat /\ z \in Nat /\ z <= Len(bytes) /\ Len(bytes) \in Nat
      BY <1>1, <1>6
    <3>3. b \in Int /\ 1 <= b /\ b <= Len(bytes) /\ a < b /\ b <= z + 1 /\ b # z + 1 /\ b - a = i
      BY <3>1, <3>2
    <3> QED BY <3>1, <3>2, <3>3
  <2> HIDE DEF b
  <2>2. bytes[b] = Body(m, i)
    BY <1>5, <2>1
  <2> QED BY <2>2 DEF b
<1> HIDE DEF a, z
<1>8. s = Span(bytes, a, z)
  BY DEF a, z
<1> HIDE DEF s, L
<1>9. s \in Seq(Nat) /\ Len(s) = z - a /\ \A i \in 1..(z - a) : s[i] = bytes[a + i]
  <2>1. bytes \in Seq(Nat) /\ a \in Nat /\ z \in Nat /\ a <= z /\ z <= Len(bytes)
    BY <1>1, <1>6
  <2> QED BY <2>1, <1>8, SpanFacts
<1>10. s = Text(m)
  <2>1. s = [i \in 1..Len(s) |-> s[i]]
    BY <1>9
  <2>2. Len(s) = Width(m) - 1 /\ \A i \in 1..Len(s) : s[i] = Body(m, i)
    BY <1>6, <1>7, <1>9
  <2> QED BY <2>1, <2>2
<1>11. ASSUME NEW n \in 1..L, s = Text(n)
       PROVE  n = m
  <2>1. n \in Nat \ {0} /\ Width(n) \in {2, 3}
    <3>1. n \in Nat \ {0}
      BY <1>1
    <3> QED BY <3>1, OffsetFacts
  <2>2. Text(n)[1] = Body(n, 1) /\ Text(m)[1] = Body(m, 1)
    BY <1>4, <2>1
  <2>3. Body(n, 1) = Body(m, 1)
    BY <1>10, <1>11, <2>2
  <2> QED BY <1>2, <2>1, <2>3, OffsetFacts
<1> HIDE DEF Text
<1>12. RecordsAt(k, s) = {n \in 1..L : journal[k][n].type # "torn" /\ s = Text(n)}
  BY DEF RecordsAt, Text, L
<1>13. RecordsAt(k, s) = Only(k, e, m)
  BY <1>2, <1>10, <1>11, <1>12 DEF Kept, Only
<1> QED BY <1>13 DEF s

\* What lies behind the last newline is no record.
LEMMA LastLine ==
  ASSUME NEW k, NEW bytes, NEW e, NEW end, Ends(bytes, Len(journal[k]), e, end)
  PROVE  RecordsAt(k, Span(bytes, Offset(e + 1), end)) = {}
<1> DEFINE L == Len(journal[k])
           a == Offset(e + 1)
           s == Span(bytes, a, end)
           Text(n) == [i \in 1..(Width(n) - 1) |-> Body(n, i)]
<1>1. /\ bytes \in Seq(Nat) /\ Len(bytes) \in Nat /\ L \in Nat /\ e \in Nat /\ e <= L
      /\ end \in Nat /\ end <= Len(bytes) /\ a <= end /\ end <= a + 1 /\ a \in Nat
  BY EndsFacts
<1>2. s \in Seq(Nat) /\ Len(s) = end - a /\ \A i \in 1..(end - a) : s[i] = bytes[a + i]
  BY <1>1, SpanFacts, ZenonT(60)
<1>3. ASSUME NEW n \in 1..L, s = Text(n)
      PROVE  FALSE
  <2>1. n \in Nat \ {0} /\ e + 1 \in Nat \ {0} /\ L + 1 \in Nat \ {0}
    BY <1>1, SMTT(40)
  <2>2. Width(n) \in {2, 3}
    BY <2>1, OffsetFacts
  <2>3. Text(n)[1] = Body(n, 1) /\ 1 \in DOMAIN Text(n)
    BY <2>2
  <2> HIDE DEF Text, s
  <2>4. 1 \in DOMAIN s /\ s[1] = Body(n, 1)
    BY <1>3, <2>3
  <2>5. DOMAIN s = 1..(end - a)
    BY <1>2
  <2>6. end = a + 1 /\ s[1] = bytes[a + 1]
    BY <1>1, <1>2, <2>4, <2>5, SMTT(40)
  <2>7. e = L
    BY <1>1, <2>6 DEF Ends
  <2>8. Offset((L + 1) + 1) \in Nat /\ a + 2 <= Offset((L + 1) + 1)
    BY <2>1, <2>7, OffsetOrder
  <2>9. bytes[a + 1] = Body(L + 1, 1)
    <3>1. \A b \in 1..Len(bytes) : Offset(L + 1) < b /\ b <= Offset((L + 1) + 1) =>
            bytes[b] = IF b = Offset((L + 1) + 1) THEN Newline ELSE Body(L + 1, b - Offset(L + 1))
      <4>1. L + 1 \in 1..(L + 1)
        BY <1>1
      <4> QED BY <4>1 DEF Ends, LaidOut
    <3>2. a + 1 \in 1..Len(bytes) /\ Offset(L + 1) = a
      BY <1>1, <2>6, <2>7
    <3>3. a < a + 1 /\ a + 1 <= Offset((L + 1) + 1) /\ a + 1 # Offset((L + 1) + 1) /\ (a + 1) - a = 1
      BY <1>1, <2>8, SMTT(40)
    <3> HIDE DEF a
    <3> QED BY <3>1, <3>2, <3>3
  <2>10. n = L + 1
    BY <2>1, <2>4, <2>6, <2>9, OffsetFacts
  <2> QED BY <1>1, <2>10
<1> HIDE DEF Text, s
<1>4. RecordsAt(k, s) = {n \in 1..L : journal[k][n].type # "torn" /\ s = Text(n)}
  BY DEF RecordsAt, Text
<1>5. RecordsAt(k, s) = {}
  BY <1>3, <1>4
<1> QED BY <1>5 DEF s

\* Both: the line that begins where record m does.
LEMMA LineRecords ==
  ASSUME NEW k, NEW bytes, NEW e, NEW end, Ends(bytes, Len(journal[k]), e, end), NEW m \in 1..(e + 1)
  PROVE  RecordsAt(k, Span(bytes, Offset(m), LineEnd(e, end, m))) = Only(k, e, m)
<1>1. e \in Nat
  BY EndsFacts
<1>2. CASE m = e + 1
  <2>1. m \notin Kept(k, e)
    BY <1>1, <1>2 DEF Kept
  <2>2. LineEnd(e, end, m) = end
    BY <1>2 DEF LineEnd
  <2>3. Only(k, e, m) = {}
    BY <2>1 DEF Only
  <2>4. RecordsAt(k, Span(bytes, Offset(e + 1), end)) = {}
    BY LastLine
  <2> QED BY <1>2, <2>2, <2>3, <2>4
<1>3. CASE m # e + 1
  <2>1. m \in 1..e
    BY <1>1, <1>3
  <2>2. LineEnd(e, end, m) = Offset(m + 1) - 1
    BY <1>3 DEF LineEnd
  <2>3. RecordsAt(k, Span(bytes, Offset(m), Offset(m + 1) - 1)) = Only(k, e, m)
    <3>1. m \in 1..e /\ Ends(bytes, Len(journal[k]), e, end)
      BY <2>1
    <3> QED BY <3>1, LineRecord
  <2> QED BY <2>2, <2>3
<1> QED BY <1>2, <1>3

\* Different records end at different places.
LEMMA LineEndFacts ==
  ASSUME NEW bytes, NEW L, NEW e, NEW end, Ends(bytes, L, e, end), NEW m \in 1..(e + 1)
  PROVE  /\ LineEnd(e, end, m) \in Nat /\ Offset(m) \in Nat /\ Offset(m) <= LineEnd(e, end, m) /\ LineEnd(e, end, m) <= end
         /\ \A n \in 1..(e + 1) : LineEnd(e, end, m) = LineEnd(e, end, n) => m = n
<1>1. e \in Nat /\ end \in Nat /\ Offset(e + 1) <= end /\ \A n \in 1..e : Offset(n + 1) \in 1..end
  BY EndsFacts
<1>2. ASSUME NEW n \in 1..(e + 1)
      PROVE  /\ LineEnd(e, end, n) \in Nat /\ Offset(n) \in Nat /\ Offset(n) <= LineEnd(e, end, n)
             /\ n # e + 1 => LineEnd(e, end, n) < end /\ LineEnd(e, end, n) + 1 = Offset(n + 1)
             /\ n = e + 1 => LineEnd(e, end, n) = end
  <2>1. n \in Nat \ {0} /\ (n # e + 1 => n \in 1..e)
    BY <1>1
  <2>2. Offset(n) \in Nat /\ Offset(n + 1) \in Nat /\ Offset(n) + 2 <= Offset(n + 1)
    BY <2>1, OffsetOrder
  <2>3. CASE n = e + 1
    BY <1>1, <2>2, <2>3 DEF LineEnd
  <2>4. CASE n # e + 1
    <3>1. Offset(n + 1) \in 1..end
      BY <1>1, <2>1, <2>4
    <3>2. LineEnd(e, end, n) = Offset(n + 1) - 1
      BY <2>4 DEF LineEnd
    <3> QED BY <1>1, <2>2, <2>4, <3>1, <3>2
  <2> QED BY <2>3, <2>4
<1>3. ASSUME NEW n \in 1..(e + 1), LineEnd(e, end, m) = LineEnd(e, end, n)
      PROVE  m = n
  <2>1. m + 1 \in Nat \ {0} /\ n + 1 \in Nat \ {0}
    BY <1>1
  <2>2. CASE m = e + 1 \/ n = e + 1
    BY <1>1, <1>2, <1>3, <2>2
  <2>3. CASE m # e + 1 /\ n # e + 1
    <3>1. Offset(m + 1) = Offset(n + 1)
      BY <1>2, <1>3, <2>3
    <3>2. m + 1 = n + 1
      BY <2>1, <3>1, OffsetOrder
    <3> QED BY <1>1, <3>2
  <2> QED BY <2>2, <2>3
<1>4. LineEnd(e, end, m) <= end
  BY <1>1, <1>2
<1> QED BY <1>2, <1>3, <1>4

-----------------------------------------------------------------------------
\* Cutting bytes into lines.
Cuts == Seq([at : Nat, text : Seq(Nat)]) \ {<<>>}
NewLine(p) == [at |-> p, text |-> <<>>]
CutStep(v, c, p) ==
  IF c = Newline THEN Append(v, NewLine(p)) ELSE [v EXCEPT ![Len(v)].text = Append(@, c)]

LEMMA CutFacts ==
  ASSUME NEW v \in Cuts, NEW c \in Nat, NEW p \in Nat
  PROVE  /\ CutStep(v, c, p) \in Cuts
         /\ c = Newline => /\ Len(CutStep(v, c, p)) = Len(v) + 1
                           /\ \A j \in 1..Len(v) : CutStep(v, c, p)[j] = v[j]
                           /\ CutStep(v, c, p)[Len(v) + 1] = NewLine(p)
         /\ c # Newline => /\ Len(CutStep(v, c, p)) = Len(v)
                           /\ \A j \in 1..(Len(v) - 1) : CutStep(v, c, p)[j] = v[j]
                           /\ CutStep(v, c, p)[Len(v)].at = v[Len(v)].at
                           /\ CutStep(v, c, p)[Len(v)].text = Append(v[Len(v)].text, c)
<1> DEFINE R == [at : Nat, text : Seq(Nat)]
<1>1. v \in Seq(R) /\ v # <<>> /\ Len(v) \in Nat \ {0} /\ v[Len(v)] \in R
  <2>1. v \in Seq(R) /\ v # <<>>
    BY DEF Cuts
  <2> HIDE DEF R
  <2>2. Len(v) \in Nat \ {0}
    BY <2>1
  <2> QED BY <2>1, <2>2
<1>2. NewLine(p) \in R
  BY DEF NewLine
<1>3. CASE c = Newline
  <2> HIDE DEF R
  <2>1. CutStep(v, c, p) = Append(v, NewLine(p))
    BY <1>3 DEF CutStep
  <2>2. /\ Append(v, NewLine(p)) \in Seq(R) /\ Len(Append(v, NewLine(p))) = Len(v) + 1
        /\ \A j \in 1..Len(v) : Append(v, NewLine(p))[j] = v[j]
        /\ Append(v, NewLine(p))[Len(v) + 1] = NewLine(p)
    BY <1>1, <1>2
  <2>3. Append(v, NewLine(p)) # <<>>
    BY <1>1, <2>2
  <2> QED BY <1>3, <2>1, <2>2, <2>3 DEF Cuts, R
<1>4. CASE c # Newline
  <2> DEFINE x == v[Len(v)]
             y == [x EXCEPT !.text = Append(x.text, c)]
             w == [v EXCEPT ![Len(v)] = y]
  <2>1. y \in R /\ y.at = x.at /\ y.text = Append(x.text, c)
    <3>1. x \in R
      BY <1>1
    <3> HIDE DEF x
    <3>2. x.at \in Nat /\ x.text \in Seq(Nat) /\ x = [at |-> x.at, text |-> x.text]
      BY <3>1
    <3>3. Append(x.text, c) \in Seq(Nat)
      BY <3>2
    <3>4. y = [at |-> x.at, text |-> Append(x.text, c)]
      BY <3>2, SMTT(40)
    <3> QED BY <3>2, <3>3, <3>4
  <2>2. CutStep(v, c, p) = w
    BY <1>4 DEF CutStep
  <2> HIDE DEF y, R
  <2>3. w \in Seq(R) /\ Len(w) = Len(v) /\ w[Len(v)] = y /\ \A j \in 1..(Len(v) - 1) : w[j] = v[j]
    BY <1>1, <2>1
  <2> HIDE DEF w
  <2>4. w # <<>>
    BY <1>1, <2>3
  <2> QED BY <1>4, <2>1, <2>2, <2>3, <2>4 DEF Cuts, R
<1> QED BY <1>3, <1>4

CutsBy(data, at, d) ==
  d = [i \in 0..Len(data) |->
        IF i = 0 THEN <<[at |-> at, text |-> <<>>]>>
        ELSE LET lines == d[i - 1]
             IN IF data[i] = Newline THEN Append(lines, [at |-> at + i, text |-> <<>>])
                ELSE [lines EXCEPT ![Len(lines)].text = Append(@, data[i])]]

LEMMA LinesAreCuts ==
  ASSUME NEW data \in Seq(Nat), NEW at \in Nat
  PROVE  \E d : /\ Lines(data, at) = d[Len(data)] /\ d[0] = <<NewLine(at)>>
                /\ \A i \in 0..Len(data) : d[i] \in Cuts
                /\ \A i \in 1..Len(data) : d[i] = CutStep(d[i - 1], data[i], at + i)
<1> DEFINE N == Len(data)
           first == <<NewLine(at)>>
           g == [i \in 1..N |-> [v \in Cuts |-> CutStep(v, data[i], at + i)]]
<1>1. N \in Nat /\ \A i \in 1..N : data[i] \in Nat /\ at + i \in Nat
  OBVIOUS
<1>2. first \in Cuts
  <2>1. NewLine(at) \in [at : Nat, text : Seq(Nat)]
    BY DEF NewLine
  <2>2. first \in Seq([at : Nat, text : Seq(Nat)]) /\ first # <<>>
    BY <2>1
  <2> QED BY <2>2 DEF Cuts
<1>3. g \in Maps(1..N, Cuts) /\ \A i \in 1..N, v \in Cuts : g[i][v] = CutStep(v, data[i], at + i)
  <2>1. \A i \in 1..N, v \in Cuts : CutStep(v, data[i], at + i) \in Cuts
    BY <1>1, CutFacts
  <2> HIDE DEF N
  <2> QED BY <2>1 DEF Maps
<1> HIDE DEF first, g
<1>4. PICK f \in [0..N -> Cuts] : Recursion(f, N, first, g)
  <2> HIDE DEF N
  <2> QED BY <1>1, <1>2, <1>3, RecursionExists
<1>5. f[0] = first /\ \A i \in 1..N : f[i] = g[i][f[i - 1]]
  <2> DEFINE h == [n \in 0..N |-> IF n = 0 THEN first ELSE g[n][f[n - 1]]]
  <2>1. h[0] = first /\ \A i \in 1..N : h[i] = g[i][f[i - 1]]
    BY <1>1
  <2>2. f = h
    BY <1>4 DEF Recursion
  <2> HIDE DEF h
  <2> QED BY <2>1, <2>2
<1>6. \A i \in 1..N : f[i] = CutStep(f[i - 1], data[i], at + i)
  <2> TAKE i \in 1..N
  <2>1. i - 1 \in 0..N
    BY <1>1
  <2>2. f[i - 1] \in Cuts
    BY <2>1, SMTT(40)
  <2> QED BY <1>3, <1>5, <2>2
<1>7. CutsBy(data, at, f)
  <2> DEFINE h == [i \in 0..N |->
        IF i = 0 THEN <<[at |-> at, text |-> <<>>]>>
        ELSE LET lines == f[i - 1]
             IN IF data[i] = Newline THEN Append(lines, [at |-> at + i, text |-> <<>>])
                ELSE [lines EXCEPT ![Len(lines)].text = Append(@, data[i])]]
  <2>1. ASSUME NEW i \in 0..N
        PROVE  f[i] = h[i]
    <3>1. CASE i = 0
      BY <1>5, <3>1 DEF first, NewLine
    <3>2. CASE i # 0
      <4>1. i \in 1..N
        BY <1>1, <3>2
      <4> QED BY <1>6, <3>2, <4>1 DEF CutStep, NewLine
    <3> QED BY <3>1, <3>2
  <2>2. f = [i \in 0..N |-> f[i]] /\ h = [i \in 0..N |-> h[i]]
    OBVIOUS
  <2> HIDE DEF h
  <2>3. f = h
    BY <2>1, <2>2
  <2> QED BY <2>3 DEF CutsBy, h
<1> DEFINE d == CHOOSE x : CutsBy(data, at, x)
<1>8. Lines(data, at) = d[N]
  BY DEF Lines, CutsBy
<1>9. CutsBy(data, at, d)
  BY <1>7
<1> HIDE DEF d
<1>10. d[0] = first /\ \A i \in 1..N : d[i] = CutStep(d[i - 1], data[i], at + i)
  <2> DEFINE h == [i \in 0..N |->
        IF i = 0 THEN <<[at |-> at, text |-> <<>>]>>
        ELSE LET lines == d[i - 1]
             IN IF data[i] = Newline THEN Append(lines, [at |-> at + i, text |-> <<>>])
                ELSE [lines EXCEPT ![Len(lines)].text = Append(@, data[i])]]
  <2>1. d = h
    BY <1>9 DEF CutsBy
  <2>2. h[0] = first
    BY <1>1 DEF first, NewLine
  <2>3. \A i \in 1..N : h[i] = CutStep(d[i - 1], data[i], at + i)
    BY <1>1 DEF CutStep, NewLine
  <2> HIDE DEF h
  <2> QED BY <2>1, <2>2, <2>3, SMTT(40)
<1>11. \A i \in 0..N : d[i] \in Cuts
  <2> DEFINE S == {i \in 0..N : d[i] \in Cuts}
  <2>1. 0 \in S
    BY <1>1, <1>2, <1>10
  <2>2. ASSUME NEW i \in 1..N, i - 1 \in S
        PROVE  i \in S
    <3>1. d[i - 1] \in Cuts /\ data[i] \in Nat /\ at + i \in Nat
      BY <1>1, <2>2
    <3>2. CutStep(d[i - 1], data[i], at + i) \in Cuts
      BY <3>1, CutFacts
    <3> QED BY <1>1, <1>10, <3>2
  <2>3. 0..N \subseteq S
    <3>1. \A i \in 1..N : i - 1 \in S => i \in S
      BY <2>2
    <3> HIDE DEF S, N
    <3> QED BY <1>1, <2>1, <3>1, NumbersUpTo
  <2> QED BY <2>3
<1> HIDE DEF N
<1>12. /\ Lines(data, at) = d[N] /\ d[0] = <<NewLine(at)>> /\ \A i \in 0..N : d[i] \in Cuts
       /\ \A i \in 1..N : d[i] = CutStep(d[i - 1], data[i], at + i)
  BY <1>8, <1>10, <1>11 DEF first
<1> QED BY <1>12 DEF N

\* Lines that cut the bytes between two places at their newlines.
EndOf(x) == x.at + Len(x.text)
Piece(bytes, x, r) ==
  /\ x.at \in Nat /\ x.text \in Seq(Nat) /\ EndOf(x) \in Nat /\ x.at <= EndOf(x) /\ EndOf(x) <= r
  /\ x.text = Span(bytes, x.at, EndOf(x)) /\ Unbroken(bytes, x.at, EndOf(x))
Split(bytes, start, r, v) ==
  /\ v \in Cuts /\ v[1].at = start /\ EndOf(v[Len(v)]) = r
  /\ \A j \in 1..Len(v) : Piece(bytes, v[j], r)
  /\ \A j \in 1..(Len(v) - 1) : v[j + 1].at = EndOf(v[j]) + 1 /\ bytes[EndOf(v[j]) + 1] = Newline

LEMMA CutsLen ==
  ASSUME NEW v \in Cuts
  PROVE  Len(v) \in Nat \ {0}
<1> DEFINE R == [at : Nat, text : Seq(Nat)]
<1>1. v \in Seq(R) /\ v # <<>>
  BY DEF Cuts
<1> HIDE DEF R
<1> QED BY <1>1

LEMMA SplitFirst ==
  ASSUME NEW bytes \in Seq(Nat), NEW start \in Nat, start <= Len(bytes)
  PROVE  Split(bytes, start, start, <<NewLine(start)>>)
<1> DEFINE x == NewLine(start)
           v == <<x>>
<1>1. x = [at |-> start, text |-> <<>>] /\ <<>> \in Seq(Nat) /\ Len(<<>>) = 0
  BY DEF NewLine
<1>2. x.at = start /\ x.text = <<>> /\ EndOf(x) = start /\ x \in [at : Nat, text : Seq(Nat)]
  BY <1>1 DEF EndOf
<1>3. Span(bytes, start, start) = <<>>
  BY SpanNone
<1>4. Unbroken(bytes, start, start)
  BY DEF Unbroken
<1> HIDE DEF x
<1>5. Piece(bytes, x, start)
  BY <1>1, <1>2, <1>3, <1>4 DEF Piece
<1>6. Len(v) = 1 /\ v[1] = x /\ v # <<>> /\ v \in Seq([at : Nat, text : Seq(Nat)])
  BY <1>2
<1>7. v \in Cuts
  BY <1>6 DEF Cuts
<1>8. Split(bytes, start, start, v)
  <2> HIDE DEF v
  <2> QED BY <1>2, <1>5, <1>6, <1>7 DEF Split
<1> QED BY <1>8 DEF x

LEMMA SplitStep ==
  ASSUME NEW bytes \in Seq(Nat), NEW start \in Nat, NEW r \in Nat, start <= r, r < Len(bytes),
         NEW v, Split(bytes, start, r, v)
  PROVE  Split(bytes, start, r + 1, CutStep(v, bytes[r + 1], r + 1))
<1> DEFINE N == Len(v)
           c == bytes[r + 1]
           w == CutStep(v, c, r + 1)
<1>1. /\ v \in Cuts /\ v[1].at = start /\ EndOf(v[N]) = r
      /\ \A j \in 1..N : Piece(bytes, v[j], r)
      /\ \A j \in 1..(N - 1) : v[j + 1].at = EndOf(v[j]) + 1 /\ bytes[EndOf(v[j]) + 1] = Newline
  BY DEF Split
<1>2. N \in Nat \ {0} /\ c \in Nat /\ r + 1 \in Nat /\ r + 1 <= Len(bytes) /\ Len(bytes) \in Nat
  <2>1. N \in Nat \ {0}
    BY <1>1, CutsLen
  <2> QED BY <2>1
<1>3. /\ w \in Cuts
      /\ c = Newline => /\ Len(w) = N + 1
                        /\ \A j \in 1..N : w[j] = v[j]
                        /\ w[N + 1] = NewLine(r + 1)
      /\ c # Newline => /\ Len(w) = N
                        /\ \A j \in 1..(N - 1) : w[j] = v[j]
                        /\ w[N].at = v[N].at
                        /\ w[N].text = Append(v[N].text, c)
  <2> HIDE DEF c
  <2> DEFINE p == r + 1
  <2>1. v \in Cuts /\ c \in Nat /\ p \in Nat
    BY <1>1, <1>2
  <2> HIDE DEF p
  <2>2. /\ CutStep(v, c, p) \in Cuts
        /\ c = Newline => /\ Len(CutStep(v, c, p)) = Len(v) + 1
                          /\ \A j \in 1..Len(v) : CutStep(v, c, p)[j] = v[j]
                          /\ CutStep(v, c, p)[Len(v) + 1] = NewLine(p)
        /\ c # Newline => /\ Len(CutStep(v, c, p)) = Len(v)
                          /\ \A j \in 1..(Len(v) - 1) : CutStep(v, c, p)[j] = v[j]
                          /\ CutStep(v, c, p)[Len(v)].at = v[Len(v)].at
                          /\ CutStep(v, c, p)[Len(v)].text = Append(v[Len(v)].text, c)
    BY <2>1, CutFacts, Zenon
  <2> QED BY <2>2 DEF p
<1> HIDE DEF w, N
<1>4. ASSUME NEW x, Piece(bytes, x, r)
      PROVE  Piece(bytes, x, r + 1)
  <2>1. EndOf(x) \in Nat /\ EndOf(x) <= r
    BY <1>4 DEF Piece
  <2>2. EndOf(x) <= r + 1
    BY <2>1
  <2> QED BY <1>4, <2>2 DEF Piece
<1>5. CASE c = Newline
  <2>1. /\ Len(w) = N + 1 /\ \A j \in 1..N : w[j] = v[j]
        /\ w[N + 1] = NewLine(r + 1) /\ N \in 1..N /\ 1 \in 1..N
    <3>1. N \in 1..N /\ 1 \in 1..N
      BY <1>2
    <3> HIDE DEF c
    <3> QED BY <1>3, <1>5, <3>1, Zenon
  <2>2. Split(bytes, r + 1, r + 1, <<NewLine(r + 1)>>)
    BY <1>2, SplitFirst
  <2>3. Piece(bytes, NewLine(r + 1), r + 1) /\ EndOf(NewLine(r + 1)) = r + 1
    <3> DEFINE u == <<NewLine(r + 1)>>
    <3>1. Len(u) = 1 /\ u[1] = NewLine(r + 1) /\ 1 \in 1..1
      OBVIOUS
    <3> HIDE DEF u
    <3> QED BY <2>2, <3>1 DEF Split, u
  <2>4. NewLine(r + 1).at = r + 1
    BY DEF NewLine
  <2>5. \A j \in 1..(N + 1) : Piece(bytes, w[j], r + 1)
    <3> TAKE j \in 1..(N + 1)
    <3>1. j \in 1..N \/ j = N + 1
      BY <1>2
    <3> QED BY <1>1, <1>4, <2>1, <2>3, <3>1
  <2>6. \A j \in 1..N : w[j + 1].at = EndOf(w[j]) + 1 /\ bytes[EndOf(w[j]) + 1] = Newline
    <3> TAKE j \in 1..N
    <3>1. CASE j = N
      BY <1>1, <1>5, <2>1, <2>4, <3>1
    <3>2. CASE j # N
      <4>1. j \in 1..(N - 1) /\ j + 1 \in 1..N
        BY <1>2, <3>2
      <4> QED BY <1>1, <2>1, <4>1
    <3> QED BY <3>1, <3>2
  <2>7. (N + 1) - 1 = N /\ w[1].at = start /\ EndOf(w[N + 1]) = r + 1
    BY <1>1, <1>2, <2>1, <2>3, SMTT(40)
  <2> QED BY <1>3, <2>1, <2>5, <2>6, <2>7, ZenonT(60) DEF Split, w, c
<1>6. CASE c # Newline
  <2>1. /\ Len(w) = N /\ \A j \in 1..(N - 1) : w[j] = v[j]
        /\ w[N].at = v[N].at /\ w[N].text = Append(v[N].text, c) /\ N \in 1..N
    <3>1. N \in 1..N
      BY <1>2
    <3> HIDE DEF c
    <3> QED BY <1>3, <1>6, <3>1, Zenon
  <2> DEFINE a == v[N].at
             s == v[N].text
             u == v[N]
  <2>2. Piece(bytes, u, r) /\ EndOf(u) = r
    BY <1>1, <2>1
  <2>3. a \in Nat /\ s \in Seq(Nat) /\ a <= r /\ s = Span(bytes, a, r) /\ Unbroken(bytes, a, r) /\ a + Len(s) = r
    <3> HIDE DEF u
    <3>1. /\ u.at \in Nat /\ u.text \in Seq(Nat) /\ u.at <= r /\ u.text = Span(bytes, u.at, r)
          /\ Unbroken(bytes, u.at, r) /\ u.at + Len(u.text) = r
      BY <2>2 DEF Piece, EndOf
    <3> QED BY <3>1 DEF u
  <2> HIDE DEF a, s
  <2>4. Append(s, c) \in Seq(Nat) /\ Len(Append(s, c)) = Len(s) + 1 /\ Len(s) \in Nat
    BY <1>2, <2>3
  <2>5. Append(s, c) = Span(bytes, a, r + 1)
    <3>1. Append(Span(bytes, a, r), bytes[r + 1]) = Span(bytes, a, r + 1)
      BY <2>3, SpanMore
    <3> QED BY <2>3, <3>1
  <2>6. Unbroken(bytes, a, r + 1)
    <3>1. \A x \in (a + 1)..r : bytes[x] # Newline
      BY <2>3 DEF Unbroken
    <3>2. \A x \in (a + 1)..(r + 1) : x \in (a + 1)..r \/ x = r + 1
      BY <1>2, <2>3
    <3> QED BY <1>6, <3>1, <3>2 DEF Unbroken
  <2>7. w[N].at = a /\ w[N].text = Append(s, c) /\ EndOf(w[N]) = r + 1
    <3>1. w[N].at = a /\ w[N].text = Append(s, c)
      BY <2>1 DEF a, s
    <3>2. a + (Len(s) + 1) = r + 1
      BY <2>3, <2>4, SMTT(40)
    <3> QED BY <2>4, <3>1, <3>2 DEF EndOf
  <2>8. Piece(bytes, w[N], r + 1)
    <3>1. a <= r + 1 /\ r + 1 <= r + 1 /\ r + 1 \in Nat
      BY <1>2, <2>3
    <3> QED BY <2>3, <2>4, <2>5, <2>6, <2>7, <3>1 DEF Piece
  <2>9. \A j \in 1..N : Piece(bytes, w[j], r + 1)
    <3> TAKE j \in 1..N
    <3>1. j \in 1..(N - 1) \/ j = N
      BY <1>2
    <3> QED BY <1>1, <1>4, <2>1, <2>8, <3>1
  <2>10. w[1].at = start
    <3>1. CASE N = 1
      BY <1>1, <2>1, <3>1
    <3>2. CASE N # 1
      <4>1. 1 \in 1..(N - 1)
        BY <1>2, <3>2
      <4> QED BY <1>1, <2>1, <4>1
    <3> QED BY <3>1, <3>2
  <2>11. \A j \in 1..(N - 1) : w[j + 1].at = EndOf(w[j]) + 1 /\ bytes[EndOf(w[j]) + 1] = Newline
    <3> TAKE j \in 1..(N - 1)
    <3>1. w[j] = v[j] /\ v[j + 1].at = EndOf(v[j]) + 1 /\ bytes[EndOf(v[j]) + 1] = Newline
      BY <1>1, <2>1
    <3>2. w[j + 1].at = v[j + 1].at
      <4>1. j + 1 \in 1..(N - 1) \/ j + 1 = N
        BY <1>2
      <4> QED BY <2>1, <4>1
    <3> QED BY <3>1, <3>2
  <2> QED BY <1>3, <2>1, <2>7, <2>9, <2>10, <2>11 DEF Split, w, c
<1> QED BY <1>5, <1>6

LEMMA LinesSplit ==
  ASSUME NEW bytes \in Seq(Nat), NEW start \in Nat, NEW r \in Nat, start <= r, r <= Len(bytes)
  PROVE  Split(bytes, start, r, Lines(Span(bytes, start, r), start))
<1> DEFINE data == Span(bytes, start, r)
           N == r - start
<1>1. data \in Seq(Nat) /\ Len(data) = N /\ \A i \in 1..N : data[i] = bytes[start + i]
  BY SpanFacts
<1>2. N \in Nat /\ start + N = r
  OBVIOUS
<1> HIDE DEF data, N
<1>3. PICK d : /\ Lines(data, start) = d[N] /\ d[0] = <<NewLine(start)>>
               /\ \A i \in 1..N : d[i] = CutStep(d[i - 1], data[i], start + i)
  <2>1. \E d : /\ Lines(data, start) = d[Len(data)] /\ d[0] = <<NewLine(start)>>
               /\ \A i \in 0..Len(data) : d[i] \in Cuts
               /\ \A i \in 1..Len(data) : d[i] = CutStep(d[i - 1], data[i], start + i)
    BY <1>1, LinesAreCuts
  <2> QED BY <1>1, <2>1
<1> DEFINE S == {i \in 0..N : Split(bytes, start, start + i, d[i])}
<1>4. 0 \in S
  <2>1. Split(bytes, start, start, <<NewLine(start)>>)
    BY <1>2, SplitFirst
  <2>2. start + 0 = start /\ 0 \in 0..N
    BY <1>2
  <2>3. Split(bytes, start, start + 0, d[0])
    BY <1>3, <2>1, <2>2
  <2> QED BY <2>2, <2>3
<1>5. ASSUME NEW i \in 1..N, i - 1 \in S
      PROVE  i \in S
  <2> DEFINE p == start + (i - 1)
  <2>1. p \in Nat /\ start <= p /\ p < Len(bytes) /\ p + 1 = start + i /\ i \in 0..N
    BY <1>2
  <2>2. Split(bytes, start, p, d[i - 1])
    BY <1>5
  <2> HIDE DEF p
  <2>3. Split(bytes, start, p + 1, CutStep(d[i - 1], bytes[p + 1], p + 1))
    BY <2>1, <2>2, SplitStep
  <2>4. d[i] = CutStep(d[i - 1], bytes[p + 1], p + 1)
    BY <1>1, <1>3, <2>1
  <2> QED BY <2>1, <2>3, <2>4
<1>6. N \in S
  <2>1. \A i \in 1..N : i - 1 \in S => i \in S
    BY <1>5
  <2> HIDE DEF S
  <2>2. 0..N \subseteq S
    BY <1>2, <1>4, <2>1, NumbersUpTo
  <2> QED BY <1>2, <2>2
<1>7. Split(bytes, start, r, d[N])
  BY <1>2, <1>6
<1> QED BY <1>3, <1>7 DEF data

\* An unbroken line from where record m begins to where record x ends is the
\* one record.
LEMMA LineAt ==
  ASSUME NEW bytes, NEW L, NEW e, NEW end, Ends(bytes, L, e, end), NEW m \in 1..(e + 1), NEW x \in 1..(e + 1),
         Offset(m) <= LineEnd(e, end, x), Unbroken(bytes, Offset(m), LineEnd(e, end, x))
  PROVE  m = x
<1> DEFINE b == LineEnd(e, end, x)
<1>1. /\ e \in Nat /\ end \in Nat
      /\ \A n \in 1..e : Offset(n + 1) \in 1..end /\ bytes[Offset(n + 1)] = Newline
  BY EndsFacts
<1>2. b \in Nat /\ b <= end /\ \A n \in 1..(e + 1) : b = LineEnd(e, end, n) => x = n
  BY LineEndFacts
<1>3. b = end \/ (b < end /\ bytes[b + 1] = Newline)
  <2>1. CASE x = e + 1
    BY <2>1 DEF LineEnd
  <2>2. CASE x # e + 1
    <3>1. x \in 1..e /\ b = Offset(x + 1) - 1
      BY <1>1, <2>2 DEF LineEnd
    <3>2. Offset(x + 1) \in 1..end /\ bytes[Offset(x + 1)] = Newline
      BY <1>1, <3>1
    <3>3. b + 1 = Offset(x + 1) /\ b < end
      <4> HIDE DEF b
      <4> QED BY <1>1, <3>1, <3>2
    <3> QED BY <3>2, <3>3
  <2> QED BY <2>1, <2>2
<1>4. b = LineEnd(e, end, m)
  <2>1. Offset(m) <= b /\ Unbroken(bytes, Offset(m), b)
    OBVIOUS
  <2> HIDE DEF b
  <2> QED BY <1>2, <1>3, <2>1, LineIs
<1> QED BY <1>2, <1>4

\* The lines in front of the end of record lo are its and the ones before it.
LEMMA LineNumbers ==
  ASSUME NEW bytes, NEW L, NEW e, NEW end, Ends(bytes, L, e, end), NEW lo \in 1..(e + 1),
         NEW start \in Nat, start <= LineEnd(e, end, lo), NEW v, Split(bytes, start, LineEnd(e, end, lo), v)
  PROVE  /\ \A j \in 1..Len(v) : /\ lo - Len(v) + j \in 1..(e + 1)
                                 /\ EndOf(v[j]) = LineEnd(e, end, lo - Len(v) + j)
                                 /\ j > 1 \/ start = 0 => v[j].at = Offset(lo - Len(v) + j)
         /\ start = 0 => lo = Len(v)
<1> DEFINE r == LineEnd(e, end, lo)
           N == Len(v)
           Is(j) == LineEnd(e, end, lo - N + j)
<1>1. /\ e \in Nat /\ end \in Nat
      /\ \A b \in 1..end : bytes[b] = Newline => \E m \in 1..e : b = Offset(m + 1)
  BY EndsFacts
<1>2. /\ v \in Cuts /\ v[1].at = start /\ EndOf(v[N]) = r
      /\ \A j \in 1..N : Piece(bytes, v[j], r)
      /\ \A j \in 1..(N - 1) : v[j + 1].at = EndOf(v[j]) + 1 /\ bytes[EndOf(v[j]) + 1] = Newline
  BY DEF Split
<1>3. N \in Nat \ {0} /\ lo \in Nat \ {0}
  <2>1. N \in Nat \ {0}
    BY <1>2, CutsLen
  <2> QED BY <1>1, <2>1
<1>4. r \in Nat /\ r <= end
  BY LineEndFacts
<1> HIDE DEF r, N
<1>5. ASSUME NEW j \in 1..N, NEW m \in 1..(e + 1), v[j].at = Offset(m),
             NEW x \in 1..(e + 1), EndOf(v[j]) = LineEnd(e, end, x)
      PROVE  m = x
  <2>1. Offset(m) <= LineEnd(e, end, x) /\ Unbroken(bytes, Offset(m), LineEnd(e, end, x))
    BY <1>2, <1>5 DEF Piece
  <2> QED BY <2>1, LineAt
<1> DEFINE Good(j) == /\ lo - N + j \in 1..(e + 1) /\ EndOf(v[j]) = Is(j)
                      /\ j > 1 => v[j].at = Offset(lo - N + j)
           S == {i \in 0..(N - 1) : EndOf(v[N - i]) = Is(N - i) /\ lo - N + (N - i) \in 1..(e + 1)}
<1>6. ASSUME NEW j \in 2..N, lo - N + j \in 1..(e + 1), EndOf(v[j]) = Is(j)
      PROVE  Good(j) /\ lo - N + (j - 1) \in 1..(e + 1) /\ EndOf(v[j - 1]) = Is(j - 1)
  <2>1. j - 1 \in 1..(N - 1) /\ j - 1 \in 1..N /\ j \in 1..N /\ (j - 1) + 1 = j
    BY <1>3
  <2> DEFINE b == EndOf(v[j - 1])
             m0 == lo - N + j
  <2>2. v[j].at = b + 1 /\ bytes[b + 1] = Newline /\ Piece(bytes, v[j], r)
    BY <1>2, <2>1
  <2>3. b \in Nat
    BY <1>2, <2>1 DEF Piece
  <2> HIDE DEF b
  <2>4. b + 1 \in 1..end
    <3>1. v[j].at <= EndOf(v[j]) /\ EndOf(v[j]) <= r /\ EndOf(v[j]) \in Nat
      BY <2>2 DEF Piece
    <3> QED BY <1>1, <1>4, <2>2, <2>3, <3>1
  <2>5. PICK m \in 1..e : b + 1 = Offset(m + 1)
    BY <1>1, <2>2, <2>4
  <2>6. m + 1 \in 1..(e + 1) /\ m \in 1..(e + 1) /\ m # e + 1
    BY <1>1
  <2>7. m + 1 = lo - N + j
    BY <1>5, <1>6, <2>1, <2>2, <2>5, <2>6
  <2>8. m = lo - N + (j - 1)
    BY <1>1, <1>3, <2>7
  <2>9. LineEnd(e, end, m) = b
    <3>1. LineEnd(e, end, m) = Offset(m + 1) - 1
      BY <2>6 DEF LineEnd
    <3> DEFINE y == Offset(m + 1)
    <3>2. b + 1 = y /\ LineEnd(e, end, m) = y - 1
      BY <2>5, <3>1
    <3> HIDE DEF y
    <3> QED BY <2>3, <3>2
  <2>10. v[j].at = Offset(lo - N + j)
    BY <2>2, <2>5, <2>7
  <2>11. lo - N + (j - 1) \in 1..(e + 1) /\ b = Is(j - 1)
    BY <2>6, <2>8, <2>9
  <2> QED BY <1>6, <2>10, <2>11 DEF b
<1>7. 0 \in S
  <2>1. N - 0 = N /\ lo - N + N = lo /\ 0 \in 0..(N - 1)
    BY <1>3
  <2>2. EndOf(v[N]) = Is(N) /\ lo - N + N \in 1..(e + 1)
    BY <1>2, <2>1 DEF r
  <2> HIDE DEF Is
  <2> QED BY <2>1, <2>2
<1>8. ASSUME NEW i \in 1..(N - 1), i - 1 \in S
      PROVE  i \in S
  <2> DEFINE j == N - (i - 1)
  <2>1. j \in 2..N /\ j - 1 = N - i /\ i \in 0..(N - 1)
    BY <1>3
  <2>2. EndOf(v[j]) = Is(j) /\ lo - N + j \in 1..(e + 1)
    BY <1>8
  <2> HIDE DEF j, Is, Good
  <2>3. lo - N + (j - 1) \in 1..(e + 1) /\ EndOf(v[j - 1]) = Is(j - 1)
    BY <1>6, <2>1, <2>2
  <2> QED BY <2>1, <2>3
<1>9. \A i \in 0..(N - 1) : i \in S
  <2>1. N - 1 \in Nat /\ \A i \in 1..(N - 1) : i - 1 \in S => i \in S
    BY <1>3, <1>8
  <2> HIDE DEF S
  <2>2. 0..(N - 1) \subseteq S
    BY <1>7, <2>1, NumbersUpTo
  <2> QED BY <2>2
<1>10. \A j \in 1..N : lo - N + j \in 1..(e + 1) /\ EndOf(v[j]) = Is(j)
  <2> TAKE j \in 1..N
  <2>1. N - j \in 0..(N - 1) /\ N - (N - j) = j
    BY <1>3
  <2> HIDE DEF Is
  <2> QED BY <1>9, <2>1
<1>11. \A j \in 1..N : j > 1 => v[j].at = Offset(lo - N + j)
  <2> TAKE j \in 1..N
  <2> HAVE j > 1
  <2>1. j \in 2..N
    BY <1>3
  <2> HIDE DEF Is
  <2>2. Good(j)
    BY <1>6, <1>10, <2>1
  <2> QED BY <2>2
<1>12. start = 0 => lo = N /\ v[1].at = Offset(lo - N + 1)
  <2> HAVE start = 0
  <2>1. 1 \in 1..N /\ 1 \in 1..(e + 1)
    BY <1>1, <1>3
  <2>2. v[1].at = Offset(1)
    BY <1>2, OffsetFacts
  <2>3. 1 = lo - N + 1
    BY <1>5, <1>10, <2>1, <2>2
  <2> QED BY <1>3, <2>2, <2>3
<1>13. \A j \in 1..N : j > 1 \/ j = 1
  BY <1>3
<1>14. \A j \in 1..N : /\ lo - N + j \in 1..(e + 1) /\ EndOf(v[j]) = Is(j)
                       /\ j > 1 \/ start = 0 => v[j].at = Offset(lo - N + j)
  BY <1>10, <1>11, <1>12, <1>13
<1> QED BY <1>12, <1>14 DEF N

-----------------------------------------------------------------------------
\* The records a page collects.
Texts == [at : Nat, text : Seq(Nat)]
PageHits == [at : Nat, n : Nat]
HitOf(k, line) == [at |-> line.at, n |-> CHOOSE n \in RecordsAt(k, line.text) : TRUE]
CollectStep(k, line, f) ==
  IF Len(f) > Limit \/ RecordsAt(k, line.text) = {} THEN f ELSE Append(f, HitOf(k, line))
CollectBy(k, lines, found, d) ==
  d = [i \in 0..Len(lines) |->
        IF i = 0 THEN found
        ELSE LET sofar == d[i - 1]
                 line == lines[Len(lines) + 1 - i]
                 records == RecordsAt(k, line.text)
             IN IF Len(sofar) > Limit \/ records = {} THEN sofar
                ELSE Append(sofar, [at |-> line.at, n |-> CHOOSE n \in records : TRUE])]

LEMMA CollectStepType ==
  ASSUME NEW k, Len(journal[k]) \in Nat, NEW line \in Texts, NEW f \in Seq(PageHits)
  PROVE  CollectStep(k, line, f) \in Seq(PageHits)
<1>1. CASE RecordsAt(k, line.text) = {}
  BY <1>1 DEF CollectStep
<1>2. CASE RecordsAt(k, line.text) # {}
  <2> DEFINE m == CHOOSE n \in RecordsAt(k, line.text) : TRUE
  <2>1. m \in RecordsAt(k, line.text)
    BY <1>2
  <2>2. m \in Nat
    BY <2>1 DEF RecordsAt
  <2>3. HitOf(k, line) = [at |-> line.at, n |-> m]
    BY DEF HitOf
  <2> HIDE DEF m
  <2>4. HitOf(k, line) \in PageHits
    BY <2>2, <2>3 DEF Texts, PageHits
  <2>5. Append(f, HitOf(k, line)) \in Seq(PageHits)
    BY <2>4
  <2> QED BY <2>5 DEF CollectStep
<1> QED BY <1>1, <1>2

LEMMA CollectIsSteps ==
  ASSUME NEW k, Len(journal[k]) \in Nat, NEW lines \in Seq(Texts), NEW found \in Seq(PageHits)
  PROVE  \E d : /\ Collect(k, lines, found) = d[Len(lines)] /\ d[0] = found
                /\ \A i \in 0..Len(lines) : d[i] \in Seq(PageHits)
                /\ \A i \in 1..Len(lines) : d[i] = CollectStep(k, lines[Len(lines) + 1 - i], d[i - 1])
<1> DEFINE N == Len(lines)
           V == Seq(PageHits)
           g == [i \in 1..N |-> [f \in V |-> CollectStep(k, lines[N + 1 - i], f)]]
<1>1. N \in Nat /\ \A i \in 1..N : N + 1 - i \in 1..N /\ lines[N + 1 - i] \in Texts
  <2>1. N \in Nat /\ \A j \in 1..N : lines[j] \in Texts
    OBVIOUS
  <2>2. \A i \in 1..N : N + 1 - i \in 1..N
    BY <2>1
  <2> QED BY <2>1, <2>2
<1>2. \A i \in 1..N, f \in V : CollectStep(k, lines[N + 1 - i], f) \in V
  BY <1>1, CollectStepType
<1>3. g \in Maps(1..N, V) /\ \A i \in 1..N, f \in V : g[i][f] = CollectStep(k, lines[N + 1 - i], f)
  <2> HIDE DEF N, V
  <2> QED BY <1>2 DEF Maps
<1> HIDE DEF g
<1>4. PICK f \in [0..N -> V] : Recursion(f, N, found, g)
  <2>1. found \in V
    OBVIOUS
  <2> HIDE DEF N, V
  <2> QED BY <1>1, <1>3, <2>1, RecursionExists
<1> DEFINE Rhs(d, i) == IF i = 0 THEN found
                        ELSE LET sofar == d[i - 1]
                                 line == lines[N + 1 - i]
                                 records == RecordsAt(k, line.text)
                             IN IF Len(sofar) > Limit \/ records = {} THEN sofar
                                ELSE Append(sofar, [at |-> line.at, n |-> CHOOSE n \in records : TRUE])
           h(d) == [i \in 0..N |-> Rhs(d, i)]
<1>5. ASSUME NEW d
      PROVE  /\ CollectBy(k, lines, found, d) <=> d = h(d)
             /\ Rhs(d, 0) = found
             /\ \A i \in 1..N : Rhs(d, i) = CollectStep(k, lines[N + 1 - i], d[i - 1])
  BY DEF CollectBy, CollectStep, HitOf
<1> HIDE DEF Rhs
<1>6. CollectBy(k, lines, found, f)
  <2> DEFINE x == [n \in 0..N |-> IF n = 0 THEN found ELSE g[n][f[n - 1]]]
  <2>1. f = x
    BY <1>4 DEF Recursion
  <2>2. \A i \in 0..N : x[i] = Rhs(f, i)
    <3> TAKE i \in 0..N
    <3>1. CASE i = 0
      BY <1>5, <3>1
    <3>2. CASE i # 0
      <4>1. i \in 1..N /\ i - 1 \in 0..N
        BY <1>1, <3>2
      <4>2. f[i - 1] \in V
        BY <4>1
      <4>3. x[i] = g[i][f[i - 1]]
        BY <3>2
      <4> HIDE DEF x, V
      <4> QED BY <1>3, <1>5, <4>1, <4>2, <4>3
    <3> QED BY <3>1, <3>2
  <2>3. x = [i \in 0..N |-> x[i]]
    OBVIOUS
  <2> HIDE DEF x
  <2>4. x = h(f)
    BY <2>2, <2>3
  <2> QED BY <1>5, <2>1, <2>4
<1> DEFINE d == CHOOSE x : CollectBy(k, lines, found, x)
<1>7. Collect(k, lines, found) = d[N]
  BY DEF Collect, CollectBy
<1>8. CollectBy(k, lines, found, d)
  BY <1>6
<1> HIDE DEF d
<1>9. d[0] = found /\ \A i \in 1..N : d[i] = CollectStep(k, lines[N + 1 - i], d[i - 1])
  <2>1. d = h(d)
    BY <1>5, <1>8
  <2>2. h(d)[0] = Rhs(d, 0) /\ \A i \in 1..N : h(d)[i] = Rhs(d, i)
    BY <1>1
  <2> HIDE DEF h
  <2> QED BY <1>5, <2>1, <2>2
<1>10. \A i \in 0..N : d[i] \in V
  <2> DEFINE S == {i \in 0..N : d[i] \in V}
  <2>1. 0 \in S
    BY <1>1, <1>9
  <2>2. ASSUME NEW i \in 1..N, i - 1 \in S
        PROVE  i \in S
    <3>1. i \in 0..N /\ d[i - 1] \in V
      BY <1>1, <2>2
    <3>2. d[i] = CollectStep(k, lines[N + 1 - i], d[i - 1])
      BY <1>9
    <3> HIDE DEF V
    <3>3. d[i] \in V
      BY <1>2, <3>1, <3>2
    <3> QED BY <3>1, <3>3
  <2>3. 0..N \subseteq S
    <3>1. \A i \in 1..N : i - 1 \in S => i \in S
      BY <2>2
    <3> HIDE DEF S, N
    <3> QED BY <1>1, <2>1, <3>1, NumbersUpTo
  <2> QED BY <2>3
<1> HIDE DEF N, V
<1>11. /\ Collect(k, lines, found) = d[N] /\ d[0] = found /\ \A i \in 0..N : d[i] \in V
       /\ \A i \in 1..N : d[i] = CollectStep(k, lines[N + 1 - i], d[i - 1])
  BY <1>7, <1>9, <1>10
<1> QED BY <1>11 DEF N, V

\* The records found so far: all that are whole in front of the end and behind
\* record lo, newest first, or more than a page of them.
Covers(f, k, e, lo) ==
  /\ f \in Seq(PageHits)
  /\ \A i \in 1..Len(f) : f[i].n \in Kept(k, e) /\ lo < f[i].n /\ f[i].at = Offset(f[i].n)
  /\ \A i, j \in 1..Len(f) : i < j => f[j].n < f[i].n
  /\ \A n \in Kept(k, e) : lo < n =>
       (\E i \in 1..Len(f) : f[i].n = n) \/ (Limit < Len(f) /\ \A i \in 1..Len(f) : n < f[i].n)

LEMMA CoversStep ==
  ASSUME NEW k, NEW bytes, NEW e, NEW end, Ends(bytes, Len(journal[k]), e, end), NEW lo \in 1..(e + 1),
         NEW f, Covers(f, k, e, lo),
         NEW line, line.at = Offset(lo), line.text = Span(bytes, Offset(lo), LineEnd(e, end, lo))
  PROVE  Covers(CollectStep(k, line, f), k, e, lo - 1)
<1> DEFINE K == Kept(k, e)
           g == CollectStep(k, line, f)
<1>1. e \in Nat /\ lo \in Nat \ {0} /\ Limit \in Nat \ {0}
  BY EndsFacts, PagerConstants
<1>2. RecordsAt(k, line.text) = Only(k, e, lo)
  BY LineRecords
<1>3. K \subseteq 1..e
  BY DEF Kept
<1>4. /\ f \in Seq(PageHits) /\ Len(f) \in Nat
      /\ \A i \in 1..Len(f) : f[i].n \in K /\ lo < f[i].n /\ f[i].at = Offset(f[i].n)
      /\ \A i, j \in 1..Len(f) : i < j => f[j].n < f[i].n
      /\ \A n \in K : lo < n =>
           (\E i \in 1..Len(f) : f[i].n = n) \/ (Limit < Len(f) /\ \A i \in 1..Len(f) : n < f[i].n)
  BY DEF Covers
<1>5. \A n \in K : lo - 1 < n => lo < n \/ n = lo
  BY <1>1, <1>3
<1>9. \A i \in 1..Len(f) : lo - 1 < f[i].n
  <2> TAKE i \in 1..Len(f)
  <2>1. f[i].n \in K /\ lo < f[i].n
    BY <1>4
  <2> HIDE DEF K
  <2>2. f[i].n \in 1..e
    BY <1>3, <2>1
  <2> QED BY <1>1, <2>1, <2>2
<1>6. CASE lo \notin K
  <2>1. g = f
    BY <1>2, <1>6 DEF Only, CollectStep
  <2>2. \A i \in 1..Len(f) : lo - 1 < f[i].n
    BY <1>9
  <2>3. \A n \in K : lo - 1 < n => lo < n
    BY <1>5, <1>6
  <2> HIDE DEF K
  <2>4. \A n \in K : lo - 1 < n =>
          (\E i \in 1..Len(f) : f[i].n = n) \/ (Limit < Len(f) /\ \A i \in 1..Len(f) : n < f[i].n)
    BY <1>4, <2>3
  <2> QED BY <1>4, <2>1, <2>2, <2>4 DEF Covers, K
<1>7. CASE lo \in K /\ Limit < Len(f)
  <2>1. g = f
    BY <1>1, <1>4, <1>7 DEF CollectStep
  <2>2. \A i \in 1..Len(f) : lo - 1 < f[i].n
    BY <1>9
  <2> HIDE DEF K
  <2>3. \A n \in K : lo - 1 < n =>
          (\E i \in 1..Len(f) : f[i].n = n) \/ (Limit < Len(f) /\ \A i \in 1..Len(f) : n < f[i].n)
    BY <1>4, <1>5, <1>7
  <2> QED BY <1>4, <2>1, <2>2, <2>3 DEF Covers, K
<1>8. CASE lo \in K /\ ~(Limit < Len(f))
  <2> DEFINE x == [at |-> Offset(lo), n |-> lo]
  <2>1. RecordsAt(k, line.text) = {lo}
    BY <1>2, <1>8 DEF Only
  <2>2. HitOf(k, line) = x
    BY <2>1 DEF HitOf
  <2>3. g = Append(f, x)
    <3>1. ~(Len(f) > Limit \/ RecordsAt(k, line.text) = {})
      BY <1>1, <1>4, <1>8, <2>1
    <3> QED BY <2>2, <3>1 DEF CollectStep
  <2>4. x \in PageHits /\ x.n = lo /\ x.at = Offset(lo)
    <3>1. Offset(lo) \in Nat
      BY <1>1, OffsetFacts
    <3> QED BY <1>1, <3>1 DEF PageHits
  <2> HIDE DEF x, g, K
  <2>5. /\ g \in Seq(PageHits) /\ Len(g) = Len(f) + 1 /\ g[Len(f) + 1] = x
        /\ \A i \in 1..Len(f) : g[i] = f[i]
    BY <1>4, <2>3, <2>4
  <2>6. \A i \in 1..Len(g) : i \in 1..Len(f) \/ i = Len(f) + 1
    BY <1>4, <2>5
  <2>7. \A i \in 1..Len(f) : lo - 1 < f[i].n
    BY <1>9
  <2>8. lo - 1 < lo
    BY <1>1
  <2>9. \A i \in 1..Len(g) : g[i].n \in K /\ lo - 1 < g[i].n /\ g[i].at = Offset(g[i].n)
    BY <1>4, <1>8, <2>4, <2>5, <2>6, <2>7, <2>8
  <2>10. \A i, j \in 1..Len(g) : i < j => g[j].n < g[i].n
    <3> TAKE i, j \in 1..Len(g)
    <3> HAVE i < j
    <3>1. i \in 1..Len(f)
      BY <1>4, <2>5
    <3>2. CASE j \in 1..Len(f)
      BY <1>4, <2>5, <3>1, <3>2
    <3>3. CASE j = Len(f) + 1
      BY <1>4, <2>4, <2>5, <3>1, <3>3
    <3> QED BY <2>6, <3>2, <3>3
  <2>11. \A n \in K : lo - 1 < n => \E i \in 1..Len(g) : g[i].n = n
    <3> TAKE n \in K
    <3> HAVE lo - 1 < n
    <3>1. CASE n = lo
      <4>1. Len(f) + 1 \in 1..Len(g) /\ g[Len(f) + 1].n = n
        BY <1>4, <2>4, <2>5, <3>1
      <4> QED BY <4>1
    <3>2. CASE lo < n
      <4>1. PICK i \in 1..Len(f) : f[i].n = n
        BY <1>4, <1>8, <3>2
      <4>2. i \in 1..Len(g) /\ g[i].n = n
        BY <1>4, <2>5, <4>1
      <4> QED BY <4>2
    <3> QED BY <1>5, <3>1, <3>2
  <2> QED BY <2>5, <2>9, <2>10, <2>11 DEF Covers, K, g
<1> QED BY <1>6, <1>7, <1>8

LEMMA CollectCovers ==
  ASSUME NEW k, NEW bytes, NEW e, NEW end, Ends(bytes, Len(journal[k]), e, end),
         NEW lo \in Nat, NEW lines \in Seq(Texts), NEW found, Covers(found, k, e, lo),
         \A j \in 1..Len(lines) :
           /\ lo - Len(lines) + j \in 1..(e + 1) /\ lines[j].at = Offset(lo - Len(lines) + j)
           /\ lines[j].text = Span(bytes, Offset(lo - Len(lines) + j), LineEnd(e, end, lo - Len(lines) + j))
  PROVE  Covers(Collect(k, lines, found), k, e, lo - Len(lines))
<1> DEFINE N == Len(lines)
<1>1. N \in Nat /\ Len(journal[k]) \in Nat /\ found \in Seq(PageHits) /\ e \in Nat
  BY EndsFacts DEF Covers
<1>2. PICK d : /\ Collect(k, lines, found) = d[N] /\ d[0] = found
               /\ \A i \in 1..N : d[i] = CollectStep(k, lines[N + 1 - i], d[i - 1])
  BY <1>1, CollectIsSteps
<1>3. ASSUME NEW j \in 1..N
      PROVE  /\ lo - N + j \in 1..(e + 1) /\ lines[j].at = Offset(lo - N + j)
             /\ lines[j].text = Span(bytes, Offset(lo - N + j), LineEnd(e, end, lo - N + j))
  OBVIOUS
<1> HIDE DEF N
<1> DEFINE S == {i \in 0..N : Covers(d[i], k, e, lo - i)}
<1>4. 0 \in S
  <2>1. 0 \in 0..N /\ lo - 0 = lo
    BY <1>1
  <2>2. Covers(d[0], k, e, lo - 0)
    BY <1>2, <2>1
  <2> QED BY <2>1, <2>2
<1>5. ASSUME NEW i \in 1..N, i - 1 \in S
      PROVE  i \in S
  <2> DEFINE j == N + 1 - i
             m == lo - (i - 1)
  <2>1. j \in 1..N /\ lo - N + j = m /\ m - 1 = lo - i /\ i \in 0..N
    BY <1>1
  <2>2. Covers(d[i - 1], k, e, m)
    BY <1>5
  <2>3. d[i] = CollectStep(k, lines[j], d[i - 1])
    BY <1>2
  <2> HIDE DEF j, m
  <2>4. m \in 1..(e + 1) /\ lines[j].at = Offset(m) /\ lines[j].text = Span(bytes, Offset(m), LineEnd(e, end, m))
    BY <1>3, <2>1
  <2>5. Covers(CollectStep(k, lines[j], d[i - 1]), k, e, m - 1)
    BY <2>2, <2>4, CoversStep
  <2> QED BY <2>1, <2>3, <2>5
<1>6. N \in S
  <2>1. \A i \in 1..N : i - 1 \in S => i \in S
    BY <1>5
  <2> HIDE DEF S
  <2>2. 0..N \subseteq S
    BY <1>1, <1>4, <2>1, NumbersUpTo
  <2> QED BY <1>1, <2>2
<1>7. Covers(d[N], k, e, lo - N)
  BY <1>6
<1> QED BY <1>2, <1>7 DEF N

-----------------------------------------------------------------------------
\* The walk from the end to the beginning.
Walks(end) == [position : 0..end, carry : Seq(Nat), found : Seq(PageHits)]
WalkFirst(end) == [position |-> end, carry |-> <<>>, found |-> <<>>]
WalkStep(k, bytes, w) ==
  IF w.position = 0 \/ Len(w.found) > Limit THEN w ELSE ReadBlock(k, bytes, w)
WalkBy(k, bytes, end, d) ==
  d = [b \in 0..end |->
        IF b = 0 THEN [position |-> end, carry |-> <<>>, found |-> <<>>]
        ELSE LET w == d[b - 1]
             IN IF w.position = 0 \/ Len(w.found) > Limit THEN w ELSE ReadBlock(k, bytes, w)]

\* Where a block begins, its bytes and its lines.
StartOf(w) == IF w.position > Block THEN w.position - Block ELSE 0
DataOf(bytes, w) == SubSeq(bytes, StartOf(w) + 1, w.position) \o w.carry
LinesOf(bytes, w) == Lines(DataOf(bytes, w), StartOf(w))

LEMMA BlockIs ==
  ASSUME NEW k, NEW bytes, NEW w
  PROVE  ReadBlock(k, bytes, w) =
           IF StartOf(w) > 0
           THEN [position |-> StartOf(w), carry |-> LinesOf(bytes, w)[1].text,
                 found |-> Collect(k, Tail(LinesOf(bytes, w)), w.found)]
           ELSE [position |-> 0, carry |-> <<>>, found |-> Collect(k, LinesOf(bytes, w), w.found)]
BY DEF ReadBlock, Carry, StartOf, LinesOf, DataOf

LEMMA StartFacts ==
  ASSUME NEW w, w.position \in Nat \ {0}
  PROVE  StartOf(w) \in Nat /\ StartOf(w) < w.position
<1>1. Block \in Nat \ {0}
  BY PagerConstants
<1> QED BY <1>1 DEF StartOf

LEMMA CutsTail ==
  ASSUME NEW v \in Cuts
  PROVE  /\ v \in Seq(Texts) /\ v[1] \in Texts /\ Tail(v) \in Seq(Texts) /\ Len(Tail(v)) = Len(v) - 1
         /\ \A j \in 1..(Len(v) - 1) : Tail(v)[j] = v[j + 1]
<1>1. v \in Seq(Texts) /\ v # <<>>
  BY DEF Cuts, Texts
<1> QED BY <1>1

LEMMA CollectType ==
  ASSUME NEW k, Len(journal[k]) \in Nat, NEW lines \in Seq(Texts), NEW found \in Seq(PageHits)
  PROVE  Collect(k, lines, found) \in Seq(PageHits)
<1>1. PICK d : /\ Collect(k, lines, found) = d[Len(lines)]
               /\ \A i \in 0..Len(lines) : d[i] \in Seq(PageHits)
  BY CollectIsSteps
<1>2. Len(lines) \in 0..Len(lines)
  OBVIOUS
<1> QED BY <1>1, <1>2

LEMMA BlockType ==
  ASSUME NEW k, Len(journal[k]) \in Nat, NEW bytes \in Seq(Nat), NEW end \in Nat, end <= Len(bytes),
         NEW w \in Walks(end), w.position # 0
  PROVE  ReadBlock(k, bytes, w) \in Walks(end) /\ ReadBlock(k, bytes, w).position < w.position
<1> DEFINE start == StartOf(w)
           data == DataOf(bytes, w)
           lines == LinesOf(bytes, w)
<1>1. /\ w.position \in Nat \ {0} /\ w.position <= end /\ w.carry \in Seq(Nat) /\ w.found \in Seq(PageHits)
  BY DEF Walks
<1>2. start \in Nat /\ start < w.position
  BY <1>1, StartFacts
<1>3. lines \in Cuts
  <2>1. SubSeq(bytes, start + 1, w.position) \in Seq(Nat)
    <3> DEFINE a == start
               b == w.position
    <3>1. a \in Nat /\ b \in Nat /\ a <= b /\ b <= Len(bytes)
      BY <1>1, <1>2
    <3> HIDE DEF a, b
    <3>2. Span(bytes, a, b) \in Seq(Nat)
      BY <3>1, SpanFacts
    <3> QED BY <3>2 DEF Span, a, b
  <2>2. data \in Seq(Nat)
    <3> DEFINE x == SubSeq(bytes, start + 1, w.position)
               y == w.carry
    <3>1. x \in Seq(Nat) /\ y \in Seq(Nat)
      BY <1>1, <2>1
    <3> HIDE DEF x, y
    <3>2. x \o y \in Seq(Nat)
      BY <3>1, ConcatProperties
    <3> QED BY <3>2 DEF x, y, DataOf
  <2> HIDE DEF data, start
  <2>3. PICK d : Lines(data, start) = d[Len(data)] /\ \A i \in 0..Len(data) : d[i] \in Cuts
    BY <1>2, <2>2, LinesAreCuts
  <2>4. Len(data) \in 0..Len(data)
    BY <2>2
  <2> QED BY <2>3, <2>4 DEF LinesOf, data, start
<1> HIDE DEF start, data, lines
<1>4. lines \in Seq(Texts) /\ lines[1] \in Texts /\ Tail(lines) \in Seq(Texts)
  BY <1>3, CutsTail
<1>5. lines[1].text \in Seq(Nat)
  BY <1>4 DEF Texts
<1>6. Collect(k, lines, w.found) \in Seq(PageHits) /\ Collect(k, Tail(lines), w.found) \in Seq(PageHits)
  BY <1>1, <1>4, CollectType
<1>7. ReadBlock(k, bytes, w) =
        IF start > 0
        THEN [position |-> start, carry |-> lines[1].text, found |-> Collect(k, Tail(lines), w.found)]
        ELSE [position |-> 0, carry |-> <<>>, found |-> Collect(k, lines, w.found)]
  BY BlockIs DEF start, lines
<1> DEFINE f == Collect(k, lines, w.found)
           g == Collect(k, Tail(lines), w.found)
<1> HIDE DEF f, g
<1>8. CASE start > 0
  <2>1. ReadBlock(k, bytes, w) = [position |-> start, carry |-> lines[1].text, found |-> g]
    BY <1>7, <1>8 DEF g
  <2>2. start \in 0..end /\ g \in Seq(PageHits)
    BY <1>1, <1>2, <1>6 DEF g
  <2> QED BY <1>2, <1>5, <2>1, <2>2 DEF Walks
<1>9. CASE ~(start > 0)
  <2>1. ReadBlock(k, bytes, w) = [position |-> 0, carry |-> <<>>, found |-> f]
    BY <1>7, <1>9 DEF f
  <2>2. 0 \in 0..end /\ f \in Seq(PageHits) /\ <<>> \in Seq(Nat) /\ 0 < w.position
    BY <1>1, <1>6 DEF f
  <2> QED BY <2>1, <2>2 DEF Walks
<1> QED BY <1>8, <1>9

LEMMA WalkIsSteps ==
  ASSUME NEW k, Len(journal[k]) \in Nat, NEW bytes \in Seq(Nat), NEW end \in Nat, end <= Len(bytes)
  PROVE  \E d : /\ Walk(k, bytes, end) = d[end].found /\ d[0] = WalkFirst(end)
                /\ \A i \in 0..end : d[i] \in Walks(end)
                /\ \A i \in 1..end : d[i] = WalkStep(k, bytes, d[i - 1])
<1> DEFINE V == Walks(end)
           first == WalkFirst(end)
           g == [i \in 1..end |-> [w \in V |-> WalkStep(k, bytes, w)]]
<1>1. first \in V
  <2>1. end \in 0..end /\ <<>> \in Seq(Nat) /\ <<>> \in Seq(PageHits)
    OBVIOUS
  <2> QED BY <2>1 DEF WalkFirst, Walks
<1>2. \A w \in V : WalkStep(k, bytes, w) \in V
  BY BlockType DEF WalkStep
<1>3. g \in Maps(1..end, V) /\ \A i \in 1..end, w \in V : g[i][w] = WalkStep(k, bytes, w)
  <2> HIDE DEF V
  <2> QED BY <1>2 DEF Maps
<1> HIDE DEF g, first, V
<1>4. PICK f \in [0..end -> V] : Recursion(f, end, first, g)
  BY <1>1, <1>3, RecursionExists
<1> DEFINE Rhs(d, i) == IF i = 0 THEN first
                        ELSE LET w == d[i - 1]
                             IN IF w.position = 0 \/ Len(w.found) > Limit THEN w ELSE ReadBlock(k, bytes, w)
           h(d) == [i \in 0..end |-> Rhs(d, i)]
<1>5. ASSUME NEW d
      PROVE  /\ WalkBy(k, bytes, end, d) <=> d = h(d)
             /\ Rhs(d, 0) = first
             /\ \A i \in 1..end : Rhs(d, i) = WalkStep(k, bytes, d[i - 1])
  BY DEF WalkBy, WalkStep, first, WalkFirst
<1> HIDE DEF Rhs
<1>6. WalkBy(k, bytes, end, f)
  <2> DEFINE x == [n \in 0..end |-> IF n = 0 THEN first ELSE g[n][f[n - 1]]]
  <2>1. f = x
    BY <1>4 DEF Recursion
  <2>2. \A i \in 0..end : x[i] = Rhs(f, i)
    <3> TAKE i \in 0..end
    <3>1. CASE i = 0
      BY <1>5, <3>1
    <3>2. CASE i # 0
      <4>1. i \in 1..end /\ i - 1 \in 0..end
        BY <3>2
      <4>2. f[i - 1] \in V
        BY <4>1
      <4>3. x[i] = g[i][f[i - 1]]
        BY <3>2
      <4> HIDE DEF x
      <4> QED BY <1>3, <1>5, <4>1, <4>2, <4>3, ZenonT(60)
    <3> QED BY <3>1, <3>2
  <2>3. x = [i \in 0..end |-> x[i]]
    OBVIOUS
  <2> HIDE DEF x
  <2>4. x = h(f)
    BY <2>2, <2>3
  <2> QED BY <1>5, <2>1, <2>4
<1> DEFINE d == CHOOSE x : WalkBy(k, bytes, end, x)
<1>7. Walk(k, bytes, end) = d[end].found
  BY DEF Walk, WalkBy
<1>8. WalkBy(k, bytes, end, d)
  BY <1>6
<1> HIDE DEF d
<1>9. d[0] = first /\ \A i \in 1..end : d[i] = WalkStep(k, bytes, d[i - 1])
  <2>1. d = h(d)
    BY <1>5, <1>8
  <2>2. h(d)[0] = Rhs(d, 0) /\ \A i \in 1..end : h(d)[i] = Rhs(d, i)
    OBVIOUS
  <2> HIDE DEF h
  <2> QED BY <1>5, <2>1, <2>2
<1>10. \A i \in 0..end : d[i] \in V
  <2> DEFINE S == {i \in 0..end : d[i] \in V}
  <2>1. 0 \in S
    BY <1>1, <1>9
  <2>2. ASSUME NEW i \in 1..end, i - 1 \in S
        PROVE  i \in S
    <3>1. i \in 0..end /\ d[i - 1] \in V
      BY <2>2
    <3>2. d[i] \in V
      BY <1>2, <1>9, <3>1
    <3> QED BY <3>1, <3>2
  <2>3. 0..end \subseteq S
    <3>1. \A i \in 1..end : i - 1 \in S => i \in S
      BY <2>2
    <3> HIDE DEF S
    <3> QED BY <2>1, <3>1, NumbersUpTo
  <2> QED BY <2>3
<1>11. /\ Walk(k, bytes, end) = d[end].found /\ d[0] = first /\ \A i \in 0..end : d[i] \in V
       /\ \A i \in 1..end : d[i] = WalkStep(k, bytes, d[i - 1])
  BY <1>7, <1>9, <1>10
<1> QED BY <1>11 DEF V, first

\* In front of a walk's position nothing is collected, behind it everything is,
\* and the line it stands in is carried to its end.
Walking(k, bytes, e, end, w) ==
  /\ w.position = 0 => Covers(w.found, k, e, 0)
  /\ w.position # 0 => \E lo \in 1..(e + 1) :
       /\ w.position <= LineEnd(e, end, lo) /\ w.carry = Span(bytes, w.position, LineEnd(e, end, lo))
       /\ Covers(w.found, k, e, lo)

LEMMA WalkingFirst ==
  ASSUME NEW k, NEW bytes, NEW e, NEW end, Ends(bytes, Len(journal[k]), e, end)
  PROVE  Walking(k, bytes, e, end, WalkFirst(end))
<1> DEFINE w == WalkFirst(end)
<1>1. /\ bytes \in Seq(Nat) /\ e \in Nat /\ end \in Nat /\ end <= Len(bytes)
      /\ \A m \in 1..e : Offset(m + 1) \in 1..end
  BY EndsFacts
<1>2. w.position = end /\ w.carry = <<>> /\ w.found = <<>>
  BY DEF WalkFirst
<1>3. ASSUME NEW lo, \A n \in Kept(k, e) : ~(lo < n)
      PROVE  Covers(w.found, k, e, lo)
  <2>1. <<>> \in Seq(PageHits) /\ Len(<<>>) = 0
    OBVIOUS
  <2> HIDE DEF w
  <2> QED BY <1>2, <1>3, <2>1 DEF Covers
<1> HIDE DEF w
<1>4. ASSUME end = 0
      PROVE  Covers(w.found, k, e, 0)
  <2>1. e = 0
    BY <1>1, <1>4
  <2>2. Kept(k, e) = {}
    BY <2>1 DEF Kept
  <2> QED BY <1>3, <2>2
<1>5. e + 1 \in 1..(e + 1) /\ LineEnd(e, end, e + 1) = end
  BY <1>1 DEF LineEnd
<1>6. Covers(w.found, k, e, e + 1)
  <2>1. \A n \in Kept(k, e) : ~(e + 1 < n)
    BY <1>1 DEF Kept
  <2> QED BY <1>3, <2>1
<1>7. Span(bytes, end, end) = <<>>
  BY <1>1, SpanNone
<1>8. Walking(k, bytes, e, end, w)
  BY <1>1, <1>2, <1>4, <1>5, <1>6, <1>7 DEF Walking
<1> QED BY <1>8 DEF w

LEMMA WalkingBlock ==
  ASSUME NEW k, NEW bytes, NEW e, NEW end, Ends(bytes, Len(journal[k]), e, end),
         NEW w \in Walks(end), w.position # 0, Walking(k, bytes, e, end, w)
  PROVE  Walking(k, bytes, e, end, ReadBlock(k, bytes, w))
<1> DEFINE start == StartOf(w)
           v == LinesOf(bytes, w)
           N == Len(v)
           q == w.position
<1>1. bytes \in Seq(Nat) /\ e \in Nat /\ end \in Nat /\ end <= Len(bytes) /\ Len(bytes) \in Nat
  BY EndsFacts
<1>2. q \in Nat \ {0} /\ q <= end
  BY DEF Walks
<1>3. PICK lo \in 1..(e + 1) : /\ q <= LineEnd(e, end, lo) /\ w.carry = Span(bytes, q, LineEnd(e, end, lo))
                              /\ Covers(w.found, k, e, lo)
  BY DEF Walking
<1> DEFINE r == LineEnd(e, end, lo)
<1>4. r \in Nat /\ r <= end
  BY LineEndFacts
<1>5. start \in Nat /\ start < q
  BY <1>2, StartFacts
<1>6. Split(bytes, start, r, v)
  <2>1. SubSeq(bytes, start + 1, q) = Span(bytes, start, q)
    BY DEF Span
  <2>2. DataOf(bytes, w) = Span(bytes, start, q) \o Span(bytes, q, r)
    BY <1>3, <2>1 DEF DataOf
  <2>3. start <= q /\ q <= r /\ r <= Len(bytes) /\ start <= r
    <3> HIDE DEF r, q, start
    <3>1. q <= r
      BY <1>3 DEF r, q
    <3> QED BY <1>1, <1>2, <1>4, <1>5, <3>1
  <2> HIDE DEF r, q, start
  <2>4. Span(bytes, start, q) \o Span(bytes, q, r) = Span(bytes, start, r)
    BY <1>1, <1>2, <1>4, <1>5, <2>3, SpanJoin, ZenonT(60)
  <2>5. Split(bytes, start, r, Lines(Span(bytes, start, r), start))
    BY <1>1, <1>4, <1>5, <2>3, LinesSplit
  <2>6. v = Lines(Span(bytes, start, r), start)
    BY <2>2, <2>4 DEF LinesOf, start
  <2> QED BY <2>5, <2>6
<1>7. start <= r
  <2>1. q <= r
    BY <1>3
  <2> HIDE DEF r, q, start
  <2> QED BY <1>2, <1>4, <1>5, <2>1
<1>8. /\ \A j \in 1..N : /\ lo - N + j \in 1..(e + 1) /\ EndOf(v[j]) = LineEnd(e, end, lo - N + j)
                         /\ j > 1 \/ start = 0 => v[j].at = Offset(lo - N + j)
      /\ start = 0 => lo = N
  <2> HIDE DEF start, v
  <2> QED BY <1>5, <1>6, <1>7, LineNumbers
<1>9. v \in Cuts /\ v[1].at = start /\ \A j \in 1..N : Piece(bytes, v[j], r)
  BY <1>6 DEF Split
<1>10. /\ v \in Seq(Texts) /\ Tail(v) \in Seq(Texts) /\ N \in Nat \ {0} /\ Len(Tail(v)) = N - 1
       /\ \A j \in 1..(N - 1) : Tail(v)[j] = v[j + 1]
  BY <1>9, CutsLen, CutsTail
<1>11. \A j \in 1..N : v[j].text = Span(bytes, v[j].at, LineEnd(e, end, lo - N + j)) /\ v[j].at <= EndOf(v[j])
  BY <1>8, <1>9 DEF Piece
<1>12. ReadBlock(k, bytes, w) =
         IF start > 0
         THEN [position |-> start, carry |-> v[1].text, found |-> Collect(k, Tail(v), w.found)]
         ELSE [position |-> 0, carry |-> <<>>, found |-> Collect(k, v, w.found)]
  BY BlockIs
<1> HIDE DEF start, v, r, q
<1>13. lo \in Nat
  BY <1>1
<1>14. CASE start = 0
  <2>1. \A j \in 1..N : /\ lo - N + j \in 1..(e + 1) /\ v[j].at = Offset(lo - N + j)
                        /\ v[j].text = Span(bytes, Offset(lo - N + j), LineEnd(e, end, lo - N + j))
    BY <1>8, <1>11, <1>14
  <2>2. Covers(Collect(k, v, w.found), k, e, lo - N)
    BY <1>3, <1>10, <1>13, <2>1, CollectCovers, ZenonT(60)
  <2>3. lo - N = 0
    BY <1>8, <1>13, <1>14
  <2> DEFINE f == Collect(k, v, w.found)
  <2> HIDE DEF f
  <2>4. ReadBlock(k, bytes, w) = [position |-> 0, carry |-> <<>>, found |-> f]
    BY <1>12, <1>14 DEF f
  <2>5. Covers(f, k, e, 0)
    BY <2>2, <2>3 DEF f
  <2> QED BY <2>4, <2>5 DEF Walking
<1>15. CASE start # 0
  <2> DEFINE T == Tail(v)
             f == Collect(k, T, w.found)
             m == lo - (N - 1)
  <2>1. start > 0
    BY <1>5, <1>15
  <2>2. ASSUME NEW j \in 1..(N - 1)
        PROVE  /\ lo - (N - 1) + j \in 1..(e + 1) /\ T[j].at = Offset(lo - (N - 1) + j)
               /\ T[j].text = Span(bytes, Offset(lo - (N - 1) + j), LineEnd(e, end, lo - (N - 1) + j))
    <3>1. j + 1 \in 1..N /\ j + 1 > 1 /\ lo - N + (j + 1) = lo - (N - 1) + j
      BY <1>10, <1>13
    <3>2. T[j] = v[j + 1]
      BY <1>10
    <3> HIDE DEF T, N
    <3> QED BY <1>8, <1>11, <3>1, <3>2
  <2>3. T \in Seq(Texts) /\ Len(T) = N - 1
    BY <1>10
  <2> HIDE DEF T, N
  <2>4. Covers(Collect(k, T, w.found), k, e, lo - (N - 1))
    <3>1. \A j \in 1..Len(T) :
            /\ lo - Len(T) + j \in 1..(e + 1) /\ T[j].at = Offset(lo - Len(T) + j)
            /\ T[j].text = Span(bytes, Offset(lo - Len(T) + j), LineEnd(e, end, lo - Len(T) + j))
      BY <2>2, <2>3
    <3>2. Covers(Collect(k, T, w.found), k, e, lo - Len(T))
      BY <1>3, <1>13, <2>3, <3>1, CollectCovers
    <3> QED BY <2>3, <3>2
  <2>5. 1 \in 1..N /\ lo - N + 1 = m
    BY <1>10, <1>13
  <2> HIDE DEF m, f
  <2>6. /\ m \in 1..(e + 1) /\ EndOf(v[1]) = LineEnd(e, end, m)
        /\ v[1].text = Span(bytes, start, LineEnd(e, end, m)) /\ start <= LineEnd(e, end, m)
    BY <1>8, <1>9, <1>11, <2>5
  <2>7. Covers(f, k, e, m)
    BY <2>4 DEF f, m
  <2>8. ReadBlock(k, bytes, w) = [position |-> start, carry |-> v[1].text, found |-> f]
    BY <1>12, <2>1 DEF f, T
  <2> QED BY <1>15, <2>6, <2>7, <2>8 DEF Walking
<1> QED BY <1>14, <1>15

\* Records behind a full page are older than the page.
LEMMA CoversFull ==
  ASSUME NEW k, NEW e, NEW lo \in Nat, NEW f, Covers(f, k, e, lo), Limit < Len(f)
  PROVE  Covers(f, k, e, 0)
<1> DEFINE K == Kept(k, e)
<1>1. K \subseteq Nat
  BY DEF Kept
<1>2. /\ f \in Seq(PageHits)
      /\ \A i \in 1..Len(f) : f[i].n \in K /\ lo < f[i].n /\ f[i].at = Offset(f[i].n)
      /\ \A i, j \in 1..Len(f) : i < j => f[j].n < f[i].n
      /\ \A n \in K : lo < n =>
           (\E i \in 1..Len(f) : f[i].n = n) \/ (Limit < Len(f) /\ \A i \in 1..Len(f) : n < f[i].n)
  BY DEF Covers
<1> HIDE DEF K
<1>3. \A i \in 1..Len(f) : 0 < f[i].n /\ f[i].n \in Nat
  <2> TAKE i \in 1..Len(f)
  <2>1. f[i].n \in K /\ lo < f[i].n
    BY <1>2
  <2>2. f[i].n \in Nat
    BY <1>1, <2>1
  <2> QED BY <2>1, <2>2
<1>4. \A n \in K : ~(lo < n) => \A i \in 1..Len(f) : n < f[i].n
  BY <1>1, <1>2, <1>3
<1> QED BY <1>2, <1>3, <1>4 DEF Covers, K

LEMMA WalkCovers ==
  ASSUME NEW k, NEW bytes, NEW e, NEW end, Ends(bytes, Len(journal[k]), e, end)
  PROVE  Covers(Walk(k, bytes, end), k, e, 0)
<1>1. /\ bytes \in Seq(Nat) /\ Len(journal[k]) \in Nat /\ e \in Nat /\ end \in Nat /\ end <= Len(bytes)
  BY EndsFacts
<1>2. PICK d : /\ Walk(k, bytes, end) = d[end].found /\ d[0] = WalkFirst(end)
               /\ \A i \in 0..end : d[i] \in Walks(end)
               /\ \A i \in 1..end : d[i] = WalkStep(k, bytes, d[i - 1])
  BY <1>1, WalkIsSteps
<1> DEFINE Done(i) == d[i].position <= end - i \/ Limit < Len(d[i].found)
           S == {i \in 0..end : Walking(k, bytes, e, end, d[i]) /\ Done(i)}
<1>3. 0 \in S
  <2>1. Walking(k, bytes, e, end, d[0])
    BY <1>2, WalkingFirst
  <2>2. d[0].position = end /\ end <= end - 0 /\ 0 \in 0..end
    BY <1>1, <1>2 DEF WalkFirst
  <2> QED BY <2>1, <2>2
<1>4. ASSUME NEW i \in 1..end, i - 1 \in S
      PROVE  i \in S
  <2> DEFINE w == d[i - 1]
             x == ReadBlock(k, bytes, w)
  <2>1. i \in 0..end /\ i - 1 \in 0..end
    BY <1>1
  <2>2. w \in Walks(end) /\ d[i] = WalkStep(k, bytes, w)
    BY <1>2, <2>1
  <2>3. Walking(k, bytes, e, end, w) /\ (w.position <= end - (i - 1) \/ Limit < Len(w.found))
    BY <1>4
  <2>4. w.position \in Nat /\ Len(w.found) \in Nat /\ Limit \in Nat
    BY <1>1, <2>2, PagerConstants, SMTT(40) DEF Walks
  <2> HIDE DEF w, x
  <2>5. CASE w.position = 0 \/ Len(w.found) > Limit
    <3>1. d[i] = w
      BY <2>2, <2>5 DEF WalkStep
    <3>2. w.position <= end - i \/ Limit < Len(w.found)
      BY <1>1, <2>1, <2>4, <2>5
    <3> QED BY <2>1, <2>3, <3>1, <3>2
  <2>6. CASE ~(w.position = 0 \/ Len(w.found) > Limit)
    <3>1. d[i] = x
      BY <2>2, <2>6 DEF WalkStep, x
    <3>2. Walking(k, bytes, e, end, x)
      BY <2>2, <2>3, <2>6, WalkingBlock DEF x
    <3>3. x \in Walks(end) /\ x.position < w.position
      BY <1>1, <2>2, <2>6, BlockType DEF x
    <3>4. x.position \in Nat
      BY <1>1, <3>3 DEF Walks
    <3>5. x.position <= end - i
      BY <1>1, <2>3, <2>4, <2>6, <3>3, <3>4, SMTT(40)
    <3> QED BY <2>1, <3>1, <3>2, <3>5
  <2> QED BY <2>5, <2>6
<1>5. end \in S
  <2>1. \A i \in 1..end : i - 1 \in S => i \in S
    BY <1>4
  <2> HIDE DEF S
  <2>2. 0..end \subseteq S
    BY <1>1, <1>3, <2>1, NumbersUpTo
  <2> QED BY <1>1, <2>2
<1> DEFINE w == d[end]
<1>6. Walking(k, bytes, e, end, w) /\ (w.position <= end - end \/ Limit < Len(w.found)) /\ w \in Walks(end)
  BY <1>1, <1>2, <1>5
<1> HIDE DEF w
<1>7. w.position \in Nat
  BY <1>1, <1>6 DEF Walks
<1>8. CASE w.position = 0
  BY <1>2, <1>6, <1>8 DEF Walking, w
<1>9. CASE w.position # 0
  <2>1. Limit < Len(w.found)
    BY <1>1, <1>6, <1>7, <1>9
  <2>2. PICK lo \in 1..(e + 1) : Covers(w.found, k, e, lo)
    BY <1>6, <1>9 DEF Walking
  <2>3. lo \in Nat
    BY <1>1
  <2>4. Covers(w.found, k, e, 0)
    BY <2>1, <2>2, <2>3, CoversFull
  <2> QED BY <1>2, <2>4 DEF w
<1> QED BY <1>8, <1>9

-----------------------------------------------------------------------------
\* Pages in a row.

\* The pages read so far hold every record of K, or, when
\* more are to come, every one from the last of them on.
Paged(g, more, before, K) ==
  /\ g \in Seq(Nat) /\ more \in BOOLEAN
  /\ \A i \in 1..Len(g) : g[i] \in K
  /\ \A i, j \in 1..Len(g) : i < j => g[j] < g[i]
  /\ ~more => \A n \in K : \E i \in 1..Len(g) : g[i] = n
  /\ more => /\ Len(g) > 0 /\ before = Offset(g[Len(g)])
             /\ \A n \in K : g[Len(g)] <= n => \E i \in 1..Len(g) : g[i] = n

EndOfPage(k, before) == IF before < Len(Bytes(k)) THEN before ELSE Len(Bytes(k))
PageRecords(p) == [i \in 1..Len(p.page) |-> p.page[i].n]

LEMMA PageIsPaged ==
  ASSUME NEW k, NEW before, NEW e, Ends(Bytes(k), Len(journal[k]), e, EndOfPage(k, before))
  PROVE  LET p == ReadBefore(k, before) IN Paged(PageRecords(p), p.more, p.before, Kept(k, e))
<1> DEFINE p == ReadBefore(k, before)
           f == Walk(k, Bytes(k), EndOfPage(k, before))
           more == Len(f) > Limit
           M == IF more THEN Limit ELSE Len(f)
           g == PageRecords(p)
           K == Kept(k, e)
<1>1. Covers(f, k, e, 0)
  BY WalkCovers
<1>2. p = [page |-> SubSeq(f, 1, M), more |-> more, before |-> IF more THEN f[Limit].at ELSE 0]
  BY DEF ReadBefore, EndOfPage
<1> HIDE DEF p
<1>3. K \subseteq Nat /\ \A n \in K : 0 < n
  BY DEF Kept
<1> HIDE DEF f, K
<1>4. /\ f \in Seq(PageHits) /\ Len(f) \in Nat
      /\ \A i \in 1..Len(f) : f[i].n \in K /\ f[i].at = Offset(f[i].n)
      /\ \A i, j \in 1..Len(f) : i < j => f[j].n < f[i].n
      /\ \A n \in K : 0 < n =>
           (\E i \in 1..Len(f) : f[i].n = n) \/ (Limit < Len(f) /\ \A i \in 1..Len(f) : n < f[i].n)
  BY <1>1 DEF Covers, K
<1>5. Limit \in Nat \ {0}
  BY PagerConstants
<1>6. M \in Nat /\ M <= Len(f) /\ more \in BOOLEAN /\ (more <=> Limit < Len(f))
  BY <1>4, <1>5
<1>7. Len(p.page) = M /\ \A i \in 1..M : p.page[i] = f[i]
  <2> DEFINE s == SubSeq(f, 1, M)
             b == f[Limit].at
  <2> HIDE DEF s, b, M, more
  <2>1. p.page = SubSeq(f, 1, M)
    <3>1. p = [page |-> s, more |-> more, before |-> IF more THEN b ELSE 0]
      BY <1>2 DEF s, b
    <3> QED BY <3>1 DEF s
  <2>2. SubSeq(f, 1, M) \in Seq(PageHits) /\ Len(SubSeq(f, 1, M)) = M /\ \A i \in 1..M : SubSeq(f, 1, M)[i] = f[i]
    BY <1>4, <1>6
  <2> QED BY <2>1, <2>2
<1>8. p.more = more /\ (more => p.before = f[Limit].at /\ M = Limit)
  <2>1. more => M = Limit
    OBVIOUS
  <2> DEFINE s == SubSeq(f, 1, M)
             b == f[Limit].at
  <2> HIDE DEF s, b, M, more
  <2>2. p = [page |-> s, more |-> more, before |-> IF more THEN b ELSE 0]
    BY <1>2 DEF s, b
  <2>3. p.more = more /\ p.before = IF more THEN b ELSE 0
    BY <2>2
  <2> QED BY <2>1, <2>3 DEF b
<1>9. ~more => M = Len(f)
  OBVIOUS
<1> HIDE DEF M, more
<1>10. \A i \in 1..M : i \in 1..Len(f) /\ f[i].n \in K /\ f[i].n \in Nat
  <2> TAKE i \in 1..M
  <2>1. i \in 1..Len(f)
    BY <1>4, <1>6
  <2> QED BY <1>3, <1>4, <2>1
<1>11. g \in Seq(Nat) /\ Len(g) = M /\ \A i \in 1..M : g[i] = f[i].n
  <2>1. g = [i \in 1..M |-> f[i].n]
    BY <1>7 DEF PageRecords
  <2> HIDE DEF g
  <2> QED BY <1>6, <1>10, <2>1
<1> HIDE DEF g
<1>12. \A i \in 1..Len(g) : g[i] \in K
  BY <1>10, <1>11
<1>13. \A i, j \in 1..Len(g) : i < j => g[j] < g[i]
  <2> TAKE i, j \in 1..Len(g)
  <2> HAVE i < j
  <2>1. i \in 1..Len(f) /\ j \in 1..Len(f) /\ g[i] = f[i].n /\ g[j] = f[j].n
    BY <1>10, <1>11
  <2> QED BY <1>4, <2>1
<1>14. ASSUME ~more, NEW n \in K
       PROVE  \E i \in 1..Len(g) : g[i] = n
  <2>1. PICK i \in 1..Len(f) : f[i].n = n
    BY <1>3, <1>4, <1>6, <1>14
  <2>2. i \in 1..Len(g) /\ g[i] = n
    BY <1>9, <1>11, <1>14, <2>1
  <2> QED BY <2>2
<1>15. ASSUME more
       PROVE  /\ Len(g) > 0 /\ p.before = Offset(g[Len(g)])
              /\ \A n \in K : g[Len(g)] <= n => \E i \in 1..Len(g) : g[i] = n
  <2>1. M = Limit /\ Limit \in 1..M /\ Limit < Len(f) /\ Limit \in 1..Len(f) /\ g[Limit] = f[Limit].n /\ Len(g) = Limit
    BY <1>4, <1>5, <1>6, <1>8, <1>11, <1>15
  <2>2. p.before = Offset(f[Limit].n)
    BY <1>4, <1>8, <1>15, <2>1
  <2>3. ASSUME NEW n \in K, g[Len(g)] <= n
        PROVE  \E i \in 1..Len(g) : g[i] = n
    <3>1. f[Limit].n <= n /\ n \in Nat /\ f[Limit].n \in Nat
      BY <1>3, <1>10, <2>1, <2>3
    <3>2. PICK i \in 1..Len(f) : f[i].n = n
      BY <1>3, <1>4, <2>1, <3>1
    <3>3. ~(Limit < i)
      BY <1>4, <2>1, <3>1, <3>2
    <3>4. i \in 1..M
      BY <1>4, <1>5, <2>1, <3>3
    <3>5. i \in 1..Len(g) /\ g[i] = n
      BY <1>11, <3>2, <3>4
    <3> QED BY <3>5
  <2> QED BY <1>5, <2>1, <2>2, <2>3
<1> DEFINE b == p.before
<1> HIDE DEF b
<1>16. Paged(g, more, b, Kept(k, e))
  BY <1>6, <1>11, <1>12, <1>13, <1>14, <1>15 DEF Paged, K, b
<1> QED BY <1>8, <1>16 DEF g, b, p

\* A page that ends where the last one began continues it.
LEMMA PagesJoin ==
  ASSUME NEW k, NEW e \in Nat, NEW g, NEW b, Paged(g, TRUE, b, Kept(k, e)),
         NEW h, NEW more, NEW c, Paged(h, more, c, Kept(k, g[Len(g)] - 1))
  PROVE  Paged(g \o h, more, c, Kept(k, e))
<1> DEFINE N == Len(g)
           P == Len(h)
           z == g[N]
           w == g \o h
<1>1. /\ g \in Seq(Nat) /\ N \in Nat \ {0}
      /\ \A i \in 1..N : g[i] \in Kept(k, e)
      /\ \A i, j \in 1..N : i < j => g[j] < g[i]
      /\ \A n \in Kept(k, e) : z <= n => \E i \in 1..N : g[i] = n
  <2>1. g \in Seq(Nat) /\ Len(g) > 0
    BY DEF Paged
  <2>2. Len(g) \in Nat \ {0}
    BY <2>1
  <2> QED BY <2>1, <2>2 DEF Paged
<1>2. /\ h \in Seq(Nat) /\ P \in Nat /\ more \in BOOLEAN
      /\ \A i \in 1..P : h[i] \in Kept(k, z - 1)
      /\ \A i, j \in 1..P : i < j => h[j] < h[i]
  BY DEF Paged
<1> HIDE DEF N, P
<1>3. N \in 1..N /\ z \in Kept(k, e) /\ z \in 1..e
  <2>1. N \in 1..N
    BY <1>1
  <2> QED BY <1>1, <2>1 DEF Kept
<1>4. \A n : n \in Kept(k, z - 1) <=> n \in Kept(k, e) /\ n < z
  <2> HIDE DEF z
  <2>1. \A n : n \in 1..(z - 1) <=> n \in 1..e /\ n < z
    BY <1>3
  <2> QED BY <2>1 DEF Kept
<1>5. \A n \in Kept(k, e) : n \in Nat
  BY DEF Kept
<1>6. /\ w \in Seq(Nat) /\ Len(w) = N + P
      /\ \A i \in 1..(N + P) : w[i] = IF i <= N THEN g[i] ELSE h[i - N]
  BY <1>1, <1>2, ConcatProperties DEF N, P
<1> HIDE DEF w, z
<1>7. \A i \in 1..Len(w) : (i \in 1..N /\ w[i] = g[i]) \/ (i - N \in 1..P /\ N < i /\ w[i] = h[i - N])
  <2> TAKE i \in 1..Len(w)
  <2>1. i \in 1..(N + P) /\ ((i \in 1..N /\ i <= N) \/ (i - N \in 1..P /\ N < i /\ ~(i <= N)))
    BY <1>1, <1>2, <1>6
  <2> QED BY <1>6, <2>1
<1>8. \A i \in 1..N : i \in 1..Len(w) /\ w[i] = g[i]
  BY <1>1, <1>2, <1>6
<1>9. \A i \in 1..P : N + i \in 1..Len(w) /\ w[N + i] = h[i]
  <2> TAKE i \in 1..P
  <2>1. N + i \in 1..(N + P) /\ ~(N + i <= N) /\ (N + i) - N = i
    BY <1>1, <1>2
  <2> QED BY <1>6, <2>1
<1>10. \A i \in 1..N : z <= g[i] /\ g[i] \in Nat /\ z \in Nat
  <2> TAKE i \in 1..N
  <2>1. g[i] \in Nat /\ z \in Nat
    BY <1>1, <1>3, <1>5
  <2>2. i = N \/ i < N
    BY <1>1
  <2>3. z = g[N]
    BY DEF z
  <2> QED BY <1>1, <1>3, <2>1, <2>2, <2>3
<1>11. \A i \in 1..P : h[i] < z /\ h[i] \in Kept(k, e)
  BY <1>2, <1>4
<1>12. \A i \in 1..Len(w) : w[i] \in Kept(k, e)
  BY <1>1, <1>7, <1>11
<1>13. \A i, j \in 1..Len(w) : i < j => w[j] < w[i]
  <2> TAKE i, j \in 1..Len(w)
  <2> HAVE i < j
  <2>1. CASE j \in 1..N /\ w[j] = g[j]
    <3>1. i \in 1..N /\ w[i] = g[i]
      BY <1>1, <1>8, <2>1
    <3> QED BY <1>1, <2>1, <3>1
  <2>2. CASE j - N \in 1..P /\ N < j /\ w[j] = h[j - N]
    <3>1. CASE i \in 1..N /\ w[i] = g[i]
      <4>1. h[j - N] < z /\ z <= g[i] /\ g[i] \in Nat /\ z \in Nat /\ h[j - N] \in Nat
        BY <1>5, <1>10, <1>11, <2>2, <3>1
      <4> QED BY <2>2, <3>1, <4>1
    <3>2. CASE i - N \in 1..P /\ N < i /\ w[i] = h[i - N]
      <4>1. i - N < j - N
        BY <1>1, <1>6
      <4> QED BY <1>2, <2>2, <3>2, <4>1
    <3> QED BY <1>7, <3>1, <3>2
  <2> QED BY <1>7, <2>1, <2>2
<1>14. ASSUME NEW n \in Kept(k, e), n < z => \E i \in 1..P : h[i] = n
       PROVE  \E i \in 1..Len(w) : w[i] = n
  <2>1. n \in Nat /\ z \in Nat
    BY <1>3, <1>5
  <2>2. CASE n < z
    BY <1>9, <1>14, <2>2
  <2>3. CASE ~(n < z)
    <3>1. PICK i \in 1..N : g[i] = n
      BY <1>1, <2>1, <2>3
    <3> QED BY <1>8, <3>1
  <2> QED BY <2>2, <2>3
<1>15. ASSUME ~more
       PROVE  \A n \in Kept(k, e) : \E i \in 1..Len(w) : w[i] = n
  <2>1. \A n \in Kept(k, z - 1) : \E i \in 1..P : h[i] = n
    BY <1>15 DEF Paged, z, P, N
  <2> QED BY <1>4, <1>14, <2>1
<1>16. ASSUME more
       PROVE  /\ Len(w) > 0 /\ c = Offset(w[Len(w)])
              /\ \A n \in Kept(k, e) : w[Len(w)] <= n => \E i \in 1..Len(w) : w[i] = n
  <2>1. /\ P > 0 /\ c = Offset(h[P])
        /\ \A n \in Kept(k, z - 1) : h[P] <= n => \E i \in 1..P : h[i] = n
    BY <1>16 DEF Paged, z, P, N
  <2>2. P \in 1..P /\ w[Len(w)] = h[P] /\ Len(w) > 0
    <3>1. P \in 1..P
      BY <1>2, <2>1
    <3> QED BY <1>1, <1>2, <1>6, <1>9, <2>1, <3>1
  <2>3. \A n \in Kept(k, e) : h[P] <= n => \E i \in 1..Len(w) : w[i] = n
    BY <1>4, <1>14, <2>1
  <2> QED BY <2>1, <2>2, <2>3
<1>17. Paged(w, more, c, Kept(k, e))
  BY <1>2, <1>6, <1>12, <1>13, <1>15, <1>16 DEF Paged
<1> QED BY <1>17 DEF w

PagerInv ==
  /\ pager = [more |-> pager.more, before |-> pager.before, attempt |-> pager.attempt,
              known |-> pager.known, got |-> pager.got]
  /\ pager.attempt = 0 => ~pager.more
  /\ pager.attempt # 0 =>
       /\ pager.attempt \in 1..cur /\ pager.known \in 0..Len(journal[pager.attempt])
       /\ Paged(pager.got, pager.more, pager.before, Kept(pager.attempt, pager.known))

LEMMA KeptStays ==
  ASSUME FileInv, FileInv', Grows, NEW k \in 1..cur, NEW e \in 0..Len(journal[k])
  PROVE  Kept(k, e)' = Kept(k, e) /\ k \in 1..cur' /\ e \in 0..Len(journal'[k])
<1>1. k \in Attempts /\ Len(journal[k]) \in Nat /\ Len(journal'[k]) \in Nat /\ cur \in 0..2 /\ cur' \in cur..2
  <2>1. k \in Attempts /\ Len(journal[k]) \in Nat /\ cur \in 0..2
    BY FileFacts
  <2>2. Len(journal'[k]) \in Nat
    BY <2>1 DEF FileInv, FileTypeOK
  <2> QED BY <2>1, <2>2 DEF Grows
<1>2. Len(journal[k]) <= Len(journal'[k]) /\ \A n \in 1..Len(journal[k]) : journal'[k][n] = journal[k][n]
  BY DEF Grows
<1>3. \A n \in 1..e : n \in 1..Len(journal[k])
  BY <1>1
<1>4. Kept(k, e)' = Kept(k, e)
  BY <1>2, <1>3 DEF Kept
<1> QED BY <1>1, <1>2, <1>4

LEMMA FirstPageStep ==
  ASSUME FileInv, FirstPage
  PROVE  PagerInv'
<1> DEFINE L == Len(journal[cur])
           p == ReadBefore(cur, Whole)
           bytes == Bytes(cur)
<1>1. cur \in 1..2 /\ cur \in Attempts /\ L \in Nat /\ L <= MaxRecords /\ MaxRecords \in Nat \ {0}
  BY FileFacts, JournalConstants DEF FirstPage, FileInv
<1>2. LaidOut(bytes, L)
  BY <1>1, BytesAreLaidOut
<1>3. EndOfPage(cur, Whole) = Len(bytes)
  <2>1. L + 1 \in Nat \ {0} /\ MaxRecords + 1 \in Nat \ {0} /\ MaxRecords + 2 \in Nat \ {0} /\ MaxRecords + 1 < MaxRecords + 2
        /\ L + 1 < MaxRecords + 2
    BY <1>1
  <2>2. Offset(L + 1) \in Nat /\ Offset(MaxRecords + 2) \in Nat /\ Offset(L + 1) + 2 <= Offset(MaxRecords + 2)
    BY <2>1, OffsetFacts
  <2>3. Len(bytes) \in {Offset(L + 1), Offset(L + 1) + 1}
    BY <1>2 DEF LaidOut
  <2> HIDE DEF L, bytes
  <2>4. ~(Offset(MaxRecords + 2) < Len(bytes))
    BY <2>2, <2>3
  <2> QED BY <2>4 DEF EndOfPage, Whole, bytes
<1>4. Ends(bytes, L, L, Len(bytes))
  <2>1. L \in 0..L
    BY <1>1
  <2> QED BY <1>2, <2>1 DEF Ends
<1>5. Paged(PageRecords(p), p.more, p.before, Kept(cur, L))
  BY <1>3, <1>4, PageIsPaged
<1>6. /\ pager' = [more |-> p.more, before |-> p.before, attempt |-> cur, known |-> L, got |-> PageRecords(p)]
      /\ journal' = journal /\ cur' = cur
  BY DEF FirstPage, file, PageRecords
<1> HIDE DEF p
<1>7. /\ pager'.more = p.more /\ pager'.before = p.before /\ pager'.attempt = cur /\ pager'.known = L
      /\ pager'.got = PageRecords(p)
  BY <1>6
<1>8. Kept(cur, L)' = Kept(cur, L)
  BY <1>6 DEF Kept
<1> HIDE DEF L
<1>9. cur \in 1..cur /\ L \in 0..L /\ cur # 0 /\ L = Len(journal[cur])
  BY <1>1 DEF L
<1>10. Kept(pager.attempt, pager.known)' = Kept(cur, L)
  BY <1>6, <1>7 DEF Kept
<1>11. pager' = [more |-> pager'.more, before |-> pager'.before, attempt |-> pager'.attempt,
                 known |-> pager'.known, got |-> pager'.got]
  BY <1>6, <1>7
<1>12. Paged(pager'.got, pager'.more, pager'.before, Kept(pager.attempt, pager.known)')
  BY <1>5, <1>7, <1>10
<1> QED BY <1>6, <1>7, <1>9, <1>11, <1>12 DEF PagerInv

LEMMA OlderPageStep ==
  ASSUME FileInv, PagerInv, OlderPage
  PROVE  PagerInv'
<1> DEFINE k == pager.attempt
           e == pager.known
           g == pager.got
           L == Len(journal[k])
           p == ReadBefore(k, pager.before)
           bytes == Bytes(k)
           z == g[Len(g)]
<1>1. pager.more /\ k \in 1..cur /\ e \in 0..L /\ Paged(g, TRUE, pager.before, Kept(k, e))
  <2>1. pager.more /\ pager.more \in BOOLEAN
    BY DEF OlderPage, PagerInv, Paged
  <2> QED BY <2>1 DEF PagerInv
<1>2. k \in Attempts /\ L \in Nat /\ e \in Nat /\ e <= L
  BY <1>1, FileFacts
<1>3. LaidOut(bytes, L)
  BY <1>2, BytesAreLaidOut
<1>4. z \in 1..e /\ pager.before = Offset(z)
  <2>1. g \in Seq(Nat) /\ Len(g) > 0 /\ pager.before = Offset(z) /\ \A i \in 1..Len(g) : g[i] \in Kept(k, e)
    BY <1>1 DEF Paged
  <2> DEFINE N == Len(g)
  <2>2. N \in 1..N
    BY <2>1
  <2> HIDE DEF N
  <2>3. g[N] \in Kept(k, e)
    BY <2>1, <2>2 DEF N
  <2> QED BY <2>1, <2>3 DEF Kept, N
<1> HIDE DEF z
<1>5. EndOfPage(k, pager.before) = Offset(z)
  <2>1. z \in Nat \ {0} /\ L + 1 \in Nat \ {0} /\ z < L + 1
    BY <1>2, <1>4
  <2>2. Offset(z) \in Nat /\ Offset(L + 1) \in Nat /\ Offset(z) + 2 <= Offset(L + 1)
    BY <2>1, OffsetFacts
  <2>3. Len(bytes) \in {Offset(L + 1), Offset(L + 1) + 1}
    BY <1>3 DEF LaidOut
  <2> HIDE DEF L, bytes
  <2>4. Offset(z) < Len(bytes)
    BY <2>2, <2>3
  <2> QED BY <1>4, <2>4 DEF EndOfPage, bytes
<1>6. Ends(bytes, L, z - 1, Offset(z))
  <2>1. z - 1 \in 0..L /\ (z - 1) + 1 = z
    BY <1>2, <1>4
  <2> QED BY <1>3, <2>1 DEF Ends
<1>7. Paged(PageRecords(p), p.more, p.before, Kept(k, z - 1))
  BY <1>5, <1>6, PageIsPaged
<1> DEFINE h == PageRecords(p)
<1>8. /\ pager' = [pager EXCEPT !.more = p.more, !.before = p.before, !.got = @ \o h]
      /\ journal' = journal /\ cur' = cur
  BY DEF OlderPage, file, PageRecords
<1> HIDE DEF p, h
<1>9. Paged(g \o h, p.more, p.before, Kept(k, e))
  <2>1. Paged(h, p.more, p.before, Kept(k, g[Len(g)] - 1))
    BY <1>7 DEF h, z
  <2> HIDE DEF g, k, e
  <2> QED BY <1>1, <1>2, <2>1, PagesJoin
<1>10. /\ pager' = [more |-> p.more, before |-> p.before, attempt |-> k, known |-> e, got |-> g \o h]
  <2>1. pager = [more |-> pager.more, before |-> pager.before, attempt |-> k, known |-> e, got |-> g]
    BY DEF PagerInv
  <2> QED BY <1>8, <2>1
<1>11. /\ pager'.more = p.more /\ pager'.before = p.before /\ pager'.attempt = k /\ pager'.known = e
       /\ pager'.got = g \o h
  BY <1>10
<1>12. k # 0 /\ k \in 1..cur' /\ e \in 0..Len(journal'[k])
  <2>1. k # 0
    BY <1>1
  <2> QED BY <1>1, <1>8, <2>1
<1> HIDE DEF k, e, g
<1>13. Kept(pager.attempt, pager.known)' = Kept(k, e)
  BY <1>8, <1>11 DEF Kept
<1>14. pager' = [more |-> pager'.more, before |-> pager'.before, attempt |-> pager'.attempt,
                 known |-> pager'.known, got |-> pager'.got]
  BY <1>10, <1>11
<1>15. Paged(pager'.got, pager'.more, pager'.before, Kept(pager.attempt, pager.known)')
  BY <1>9, <1>11, <1>13
<1> QED BY <1>11, <1>12, <1>14, <1>15 DEF PagerInv

LEMMA PagerWaits ==
  ASSUME FileInv, FileInv', Grows, PagerInv, UNCHANGED pager
  PROVE  PagerInv'
<1>1. CASE pager.attempt = 0
  BY <1>1 DEF PagerInv
<1>2. CASE pager.attempt # 0
  <2> DEFINE k == pager.attempt
             e == pager.known
  <2>1. k \in 1..cur /\ e \in 0..Len(journal[k]) /\ Paged(pager.got, pager.more, pager.before, Kept(k, e))
    BY <1>2 DEF PagerInv
  <2>2. k' = k /\ e' = e
    OBVIOUS
  <2> HIDE DEF k, e
  <2>3. {n \in 1..e : journal'[k][n].type # "torn"} = Kept(k, e) /\ k \in 1..cur' /\ e \in 0..Len(journal'[k])
    BY <2>1, KeptStays DEF Kept
  <2>4. Kept(pager.attempt, pager.known)' = Kept(k, e)
    BY <2>3 DEF Kept, k, e
  <2>5. pager'.attempt = k /\ pager'.known = e
    BY DEF k, e
  <2>6. Paged(pager'.got, pager'.more, pager'.before, Kept(pager.attempt, pager.known)')
    BY <2>1, <2>4
  <2>7. pager' = [more |-> pager'.more, before |-> pager'.before, attempt |-> pager'.attempt,
                  known |-> pager'.known, got |-> pager'.got]
    BY DEF PagerInv
  <2> QED BY <2>3, <2>5, <2>6, <2>7, <1>2 DEF PagerInv, k
<1> QED BY <1>1, <1>2

LEMMA PagerInvStep == FileInv /\ FileInv' /\ PagerInv /\ [Next]_vars => PagerInv'
<1> SUFFICES ASSUME FileInv, FileInv', PagerInv, [Next]_vars PROVE PagerInv'
  OBVIOUS
<1>1. CASE FirstPage
  BY <1>1, FirstPageStep
<1>2. CASE OlderPage
  BY <1>2, OlderPageStep
<1>3. CASE ~FirstPage /\ ~OlderPage
  <2>1. UNCHANGED pager
    BY <1>3 DEF Next, Crash, Pager, vars, paging
  <2>2. Grows
    BY NextMoves, FileStep
  <2> QED BY <2>1, <2>2, PagerWaits
<1> QED BY <1>1, <1>2, <1>3

\* Pages of any size, read in blocks of any size while the journal grows, hold
\* every record that was whole when the first was read, newest first and once,
\* but the torn ones; until the last page is read, every one from the oldest of
\* them on (read_journal_before).
THEOREM PagesCover == Spec => []PagesCoverJournal
<1>1. Init => FileInv /\ PagerInv
  <2> SUFFICES ASSUME Init PROVE FileInv /\ PagerInv
    OBVIOUS
  <2>1. pager = [more |-> FALSE, before |-> Whole, attempt |-> 0, known |-> 0, got |-> <<>>]
    BY DEF Init, PagerInit
  <2> HIDE DEF Whole
  <2>2. PagerInv
    BY <2>1 DEF PagerInv
  <2> QED BY <2>2, FileStart DEF Init
<1>2. FileInv /\ PagerInv /\ [Next]_vars => (FileInv /\ PagerInv)'
  BY NextMoves, FileStep, PagerInvStep
<1>3. FileInv /\ PagerInv => PagesCoverJournal
  <2> SUFFICES ASSUME FileInv, PagerInv, pager.attempt # 0 PROVE PagesCoverJournal
    BY DEF PagesCoverJournal
  <2> DEFINE g == pager.got
             K == {n \in 1..pager.known : journal[pager.attempt][n].type # "torn"}
             seen == {g[i] : i \in 1..Len(g)}
  <2>1. Paged(g, pager.more, pager.before, K)
    BY DEF PagerInv, Kept
  <2>2. K \subseteq Nat
    OBVIOUS
  <2> HIDE DEF g, K
  <2>3. /\ Len(g) \in Nat /\ \A i \in 1..Len(g) : g[i] \in K
        /\ \A i, j \in 1..Len(g) : i < j => g[j] < g[i]
        /\ ~pager.more => \A n \in K : \E i \in 1..Len(g) : g[i] = n
        /\ pager.more => Len(g) > 0 /\ \A n \in K : g[Len(g)] <= n => \E i \in 1..Len(g) : g[i] = n
    BY <2>1 DEF Paged
  <2>4. \A i \in 1..(Len(g) - 1) : g[i] > g[i + 1]
    <3> TAKE i \in 1..(Len(g) - 1)
    <3>1. i \in 1..Len(g) /\ i + 1 \in 1..Len(g) /\ i < i + 1
      BY <2>3
    <3>2. g[i] \in Nat /\ g[i + 1] \in Nat /\ g[i + 1] < g[i]
      BY <2>2, <2>3, <3>1
    <3> QED BY <3>2
  <2>5. seen \subseteq K /\ (~pager.more => seen = K)
    BY <2>3
  <2>6. ASSUME NEW n \in K \ seen, NEW m \in seen
        PROVE  n < m
    <3>1. pager.more
      BY <2>5
    <3>2. PICK i \in 1..Len(g) : g[i] = m
      OBVIOUS
    <3>3. Len(g) \in 1..Len(g)
      BY <2>3, <3>1
    <3>4. n \in Nat /\ m \in Nat /\ g[Len(g)] \in Nat
      BY <2>2, <2>3, <3>2, <3>3
    <3>5. ~(g[Len(g)] <= n)
      BY <2>3, <3>1
    <3>6. g[Len(g)] <= m
      <4>1. i = Len(g) \/ i < Len(g)
        BY <2>3
      <4>2. i < Len(g) => g[Len(g)] < g[i]
        BY <2>3, <3>3
      <4> QED BY <3>2, <3>4, <4>1, <4>2
    <3> QED BY <3>4, <3>5, <3>6
  <2> HIDE DEF seen
  <2>7. /\ \A i \in 1..(Len(g) - 1) : g[i] > g[i + 1]
        /\ seen \subseteq K /\ (~pager.more => seen = K)
        /\ \A n \in K \ seen : \A m \in seen : n < m
    BY <2>4, <2>5, <2>6
  <2> QED BY <2>7 DEF PagesCoverJournal, g, K, seen
<1> QED BY <1>1, <1>2, <1>3, PTL DEF Spec

=============================================================================
