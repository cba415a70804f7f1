----------------------------- MODULE AgentFilesProofs -----------------------------
(***************************************************************************)
(* Theorems about the two things an Agent's run writes beside its journal: *)
(* the versions of its context and the buffered stream of its deltas.      *)
(***************************************************************************)
EXTENDS AgentContextProps, TraceBufferProps, SequenceTheorems, WellFoundedInduction, TLAPS

-----------------------------------------------------------------------------
\* Induction over a set of numbers, without an operator for the claim.
LEMMA LeastNumber ==
  ASSUME NEW T, T \subseteq Nat, T # {}
  PROVE  \E n \in T : \A m \in T : n <= m
<1> DEFINE R == OpToRel(<, Nat)
<1>1. IsWellFoundedOn(R, Nat)
  BY NatLessThanWellFounded
<1>2. \A a, b \in Nat : a < b => <<a, b>> \in R
  BY DEF OpToRel
<1> HIDE DEF R
<1>3. PICK x \in T : \A y \in T : ~ (<<y, x>> \in R)
  BY <1>1, WFMin
<1>4. \A m \in T : x <= m
  <2> TAKE m \in T
  <2>1. m \in Nat /\ x \in Nat /\ <<m, x>> \notin R
    BY <1>3
  <2> QED BY <2>1, <1>2
<1> QED BY <1>4

LEMMA SetOfNumbers ==
  ASSUME NEW S, 0 \in S, \A n \in Nat : n \in S => n + 1 \in S
  PROVE  Nat \subseteq S
<1> SUFFICES ASSUME ~ (Nat \subseteq S) PROVE FALSE
  OBVIOUS
<1> DEFINE T == Nat \ S
<1>1. T \subseteq Nat /\ T # {}
  OBVIOUS
<1>2. PICK n \in T : \A m \in T : n <= m
  <2> HIDE DEF T
  <2> QED BY <1>1, LeastNumber
<1>3. n # 0 /\ n - 1 \in Nat /\ n - 1 \in S
  BY <1>2
<1> QED BY <1>2, <1>3

-----------------------------------------------------------------------------
\* Sequences, whatever their elements are.

LEMMA SequenceFacts ==
  ASSUME NEW s, IsSequence(s)
  PROVE  /\ Len(s) \in Nat /\ DOMAIN s = 1..Len(s) /\ s = [i \in 1..Len(s) |-> s[i]]
         /\ \A i \in DOMAIN s : s[i] \in ToSet(s)
BY LenProperties DEF IsSequence, ToSet

LEMMA AnySequence ==
  ASSUME NEW S, NEW s \in Seq(S)
  PROVE  IsSequence(s) /\ ToSet(s) \subseteq S
<1>1. Len(s) \in Nat /\ DOMAIN s = 1..Len(s) /\ s \in [1..Len(s) -> S]
  BY LenProperties
<1>2. s \in [1..Len(s) -> ToSet(s)]
  BY <1>1 DEF ToSet
<1>3. s \in Seq(ToSet(s))
  BY <1>1, <1>2, SeqDef
<1> QED BY <1>1, <1>3 DEF IsSequence, ToSet

LEMMA FunctionIsSequence ==
  ASSUME NEW n \in Nat, NEW f, DOMAIN f = 1..n, f = [i \in 1..n |-> f[i]]
  PROVE  IsSequence(f) /\ Len(f) = n
<1>1. f \in [1..n -> ToSet(f)]
  BY DEF ToSet
<1>2. f \in Seq(ToSet(f))
  BY <1>1, SeqDef
<1> QED BY <1>1, <1>2, LenProperties DEF IsSequence

LEMMA AppendedFacts ==
  ASSUME NEW s, IsSequence(s), NEW x
  PROVE  LET g == Append(s, x) IN
         /\ IsSequence(g) /\ Len(g) = Len(s) + 1 /\ DOMAIN g = 1..(Len(s) + 1)
         /\ \A i \in DOMAIN s : g[i] = s[i]
         /\ g[Len(s) + 1] = x /\ ToSet(g) = ToSet(s) \cup {x}
<1> DEFINE S == ToSet(s) \cup {x}
           g == Append(s, x)
<1>1. s \in Seq(S) /\ x \in S
  BY SequenceFacts, SeqMonotonic DEF IsSequence
<1> HIDE DEF S
<1>2. /\ g \in Seq(S) /\ Len(g) = Len(s) + 1
      /\ \A i \in 1..Len(s) : g[i] = s[i]
      /\ g[Len(s) + 1] = x
  BY <1>1, AppendProperties
<1>3. Len(s) \in Nat /\ DOMAIN s = 1..Len(s) /\ DOMAIN g = 1..(Len(s) + 1)
  BY <1>2, SequenceFacts, LenProperties
<1>4. IsSequence(g)
  BY <1>2, AnySequence
<1> HIDE DEF g
<1>5. ToSet(g) = ToSet(s) \cup {x}
  BY <1>2, <1>3 DEF ToSet
<1> QED BY <1>2, <1>3, <1>4, <1>5 DEF g

LEMMA PartFacts ==
  ASSUME NEW S, NEW s \in Seq(S), NEW m \in 1..(Len(s) + 1), NEW k \in (m - 1)..Len(s)
  PROVE  /\ SubSeq(s, m, k) \in Seq(S) /\ Len(SubSeq(s, m, k)) = k - m + 1
         /\ \A j \in 1..(k - m + 1) : SubSeq(s, m, k)[j] = s[m + j - 1]
<1>1. Len(s) \in Nat /\ m \in Int /\ k \in Int /\ \A j \in m..k : s[j] \in S
  <2>1. Len(s) \in Nat /\ s \in [1..Len(s) -> S]
    BY LenProperties
  <2>2. m \in Int /\ k \in Int /\ \A j \in m..k : j \in 1..Len(s)
    BY <2>1
  <2> QED BY <2>1, <2>2
<1>2. /\ SubSeq(s, m, k) \in Seq(S) /\ Len(SubSeq(s, m, k)) = IF m <= k THEN k - m + 1 ELSE 0
      /\ \A j \in 1..(k - m + 1) : SubSeq(s, m, k)[j] = s[m + j - 1]
  BY <1>1, SubSeqProperties
<1> QED BY <1>1, <1>2

\* One operation keeps every message but the one it is about.
LEMMA EditedFacts ==
  ASSUME NEW s, IsSequence(s), NEW kind \in Kinds, NEW record, record.ordinal \in DOMAIN s, NEW text
  PROVE  LET t == Edited(s, kind, record, text) IN
         IsSequence(t) /\ ToSet(s) \ {s[record.ordinal]} \subseteq ToSet(t)
<1> DEFINE i == record.ordinal
           n == Len(s)
           S == ToSet(s)
<1>1. n \in Nat /\ DOMAIN s = 1..n /\ s \in Seq(S) /\ i \in 1..n /\ \A j \in 1..n : s[j] \in S
  BY SequenceFacts DEF IsSequence
<1>2. CASE kind = "replace"
  <2> DEFINE t == [s EXCEPT ![i].text = text]
  <2>1. DOMAIN t = 1..n /\ t = [j \in 1..n |-> t[j]] /\ \A j \in 1..n : j # i => t[j] = s[j]
    BY <1>1, SequenceFacts
  <2> HIDE DEF t
  <2>2. IsSequence(t) /\ S \ {s[i]} \subseteq ToSet(t)
    BY <1>1, <2>1, FunctionIsSequence DEF ToSet
  <2> QED BY <1>2, <2>2 DEF Edited, t
<1>3. CASE kind = "delete"
  <2> DEFINE a == SubSeq(s, 1, i - 1)
             c == SubSeq(s, i + 1, n)
             t == a \o c
  <2>1. /\ a \in Seq(S) /\ Len(a) = i - 1 /\ \A j \in 1..(i - 1) : a[j] = s[j]
        /\ c \in Seq(S) /\ Len(c) = n - i /\ \A j \in 1..(n - i) : c[j] = s[i + j]
    <3>1. /\ a \in Seq(S) /\ Len(a) = (i - 1) - 1 + 1 /\ \A j \in 1..((i - 1) - 1 + 1) : a[j] = s[1 + j - 1]
      <4>1. 1 \in 1..(n + 1) /\ i - 1 \in (1 - 1)..n
        BY <1>1
      <4> QED BY <1>1, <4>1, PartFacts
    <3>2. /\ c \in Seq(S) /\ Len(c) = n - (i + 1) + 1 /\ \A j \in 1..(n - (i + 1) + 1) : c[j] = s[(i + 1) + j - 1]
      <4> PICK m : m = i + 1
        OBVIOUS
      <4>1. m \in 1..(n + 1) /\ n \in (m - 1)..n
        BY <1>1
      <4>2. /\ SubSeq(s, m, n) \in Seq(S) /\ Len(SubSeq(s, m, n)) = n - m + 1
            /\ \A j \in 1..(n - m + 1) : SubSeq(s, m, n)[j] = s[m + j - 1]
        BY <1>1, <4>1, PartFacts
      <4> QED BY <4>2
    <3> HIDE DEF a, c
    <3>3. (i - 1) - 1 + 1 = i - 1 /\ n - (i + 1) + 1 = n - i
      BY <1>1
    <3>4. (\A j \in 1..(i - 1) : 1 + j - 1 = j) /\ \A j \in 1..(n - i) : (i + 1) + j - 1 = i + j
      BY <1>1
    <3> QED BY <3>1, <3>2, <3>3, <3>4
  <2> HIDE DEF a, c
  <2>2. /\ t \in Seq(S) /\ Len(t) = n - 1
        /\ \A j \in 1..(n - 1) : t[j] = IF j <= i - 1 THEN a[j] ELSE c[j - (i - 1)]
    <3>1. /\ t \in Seq(S) /\ Len(t) = Len(a) + Len(c)
          /\ \A j \in 1..(Len(a) + Len(c)) : t[j] = IF j <= Len(a) THEN a[j] ELSE c[j - Len(a)]
      BY <2>1, ConcatProperties
    <3>2. Len(a) + Len(c) = n - 1
      BY <1>1, <2>1
    <3> HIDE DEF t
    <3> QED BY <2>1, <3>1, <3>2
  <2> HIDE DEF t
  <2>3. \A j \in 1..n : j # i => \E k \in 1..(n - 1) : t[k] = s[j]
    <3> TAKE j \in 1..n
    <3> HAVE j # i
    <3>1. CASE j < i
      <4>1. t[j] = s[j] /\ j \in 1..(n - 1)
        BY <1>1, <2>1, <2>2, <3>1
      <4> QED BY <4>1
    <3>2. CASE j > i
      <4>1. /\ j - 1 \in 1..(n - 1) /\ ~ (j - 1 <= i - 1) /\ (j - 1) - (i - 1) = j - i
            /\ j - i \in 1..(n - i) /\ i + (j - i) = j
        BY <1>1, <3>2
      <4>2. t[j - 1] = c[j - i] /\ c[j - i] = s[j]
        BY <2>1, <2>2, <4>1
      <4> QED BY <4>1, <4>2
    <3> QED BY <1>1, <3>1, <3>2
  <2>4. IsSequence(t) /\ DOMAIN t = 1..(n - 1)
    BY <2>2, AnySequence, LenProperties
  <2>5. S \ {s[i]} \subseteq ToSet(t)
    <3> SUFFICES ASSUME NEW x \in S \ {s[i]} PROVE x \in ToSet(t)
      OBVIOUS
    <3>1. PICK j \in 1..n : x = s[j]
      BY <1>1 DEF ToSet
    <3>2. PICK k \in 1..(n - 1) : t[k] = s[j]
      BY <2>3, <3>1
    <3> QED BY <2>4, <3>1, <3>2 DEF ToSet
  <2>6. Edited(s, kind, record, text) = t
    BY <1>3 DEF Edited, RemoveAt, t, a, c
  <2> QED BY <2>4, <2>5, <2>6
<1>4. CASE kind \in {"insert", "insert_tool"}
  <2> PICK x : x = Message(0, IF kind = "insert" THEN "user" ELSE "tool", text)
    OBVIOUS
  <2> DEFINE U == S \cup {x}
             a == SubSeq(s, 1, i)
             c == SubSeq(s, i + 1, n)
             b == a \o <<x>>
             t == b \o c
  <2>1. /\ a \in Seq(U) /\ Len(a) = i /\ \A j \in 1..i : a[j] = s[j]
        /\ c \in Seq(U) /\ Len(c) = n - i /\ \A j \in 1..(n - i) : c[j] = s[i + j]
    <3>1. /\ a \in Seq(S) /\ Len(a) = i - 1 + 1 /\ \A j \in 1..(i - 1 + 1) : a[j] = s[1 + j - 1]
      <4>1. 1 \in 1..(n + 1) /\ i \in (1 - 1)..n
        BY <1>1
      <4> QED BY <1>1, <4>1, PartFacts
    <3>2. /\ c \in Seq(S) /\ Len(c) = n - (i + 1) + 1 /\ \A j \in 1..(n - (i + 1) + 1) : c[j] = s[(i + 1) + j - 1]
      <4> PICK m : m = i + 1
        OBVIOUS
      <4>1. m \in 1..(n + 1) /\ n \in (m - 1)..n
        BY <1>1
      <4>2. /\ SubSeq(s, m, n) \in Seq(S) /\ Len(SubSeq(s, m, n)) = n - m + 1
            /\ \A j \in 1..(n - m + 1) : SubSeq(s, m, n)[j] = s[m + j - 1]
        BY <1>1, <4>1, PartFacts
      <4> QED BY <4>2
    <3> HIDE DEF a, c
    <3>3. i - 1 + 1 = i /\ n - (i + 1) + 1 = n - i
      BY <1>1
    <3>4. (\A j \in 1..i : 1 + j - 1 = j) /\ \A j \in 1..(n - i) : (i + 1) + j - 1 = i + j
      BY <1>1
    <3> QED BY <3>1, <3>2, <3>3, <3>4, SeqMonotonic
  <2>2. <<x>> \in Seq(U) /\ Len(<<x>>) = 1
    BY DEF U
  <2> HIDE DEF a, c, U
  <2>3. /\ b \in Seq(U) /\ Len(b) = i + 1 /\ \A j \in 1..i : b[j] = a[j]
    <3>1. /\ b \in Seq(U) /\ Len(b) = i + 1
          /\ \A j \in 1..(i + 1) : b[j] = IF j <= i THEN a[j] ELSE <<x>>[j - i]
      <4>1. /\ b \in Seq(U) /\ Len(b) = Len(a) + Len(<<x>>)
            /\ \A j \in 1..(Len(a) + Len(<<x>>)) : b[j] = IF j <= Len(a) THEN a[j] ELSE <<x>>[j - Len(a)]
        BY <2>1, <2>2, ConcatProperties
      <4> HIDE DEF b
      <4> QED BY <2>1, <2>2, <4>1
    <3> HIDE DEF b
    <3> QED BY <1>1, <3>1
  <2> HIDE DEF b
  <2>4. /\ t \in Seq(U) /\ Len(t) = n + 1
        /\ \A j \in 1..(n + 1) : t[j] = IF j <= i + 1 THEN b[j] ELSE c[j - (i + 1)]
    <3>1. /\ t \in Seq(U) /\ Len(t) = Len(b) + Len(c)
          /\ \A j \in 1..(Len(b) + Len(c)) : t[j] = IF j <= Len(b) THEN b[j] ELSE c[j - Len(b)]
      BY <2>1, <2>3, ConcatProperties
    <3>2. Len(b) + Len(c) = n + 1
      BY <1>1, <2>1, <2>3
    <3> HIDE DEF t
    <3> QED BY <2>3, <3>1, <3>2
  <2> HIDE DEF t
  <2>5. \A j \in 1..n : \E k \in 1..(n + 1) : t[k] = s[j]
    <3> TAKE j \in 1..n
    <3>1. CASE j <= i
      <4>1. t[j] = b[j] /\ b[j] = a[j] /\ a[j] = s[j] /\ j \in 1..(n + 1)
        BY <1>1, <2>1, <2>3, <2>4, <3>1
      <4> QED BY <4>1
    <3>2. CASE j > i
      <4>1. /\ j + 1 \in 1..(n + 1) /\ ~ (j + 1 <= i + 1) /\ (j + 1) - (i + 1) = j - i
            /\ j - i \in 1..(n - i) /\ i + (j - i) = j
        <5>1. j \in Int /\ i \in Int /\ n \in Int /\ j <= n /\ 1 <= i /\ j > i
          BY <1>1, <3>2
        <5> HIDE DEF i, n
        <5> QED BY <5>1
      <4>2. t[j + 1] = c[j - i] /\ c[j - i] = s[j]
        BY <2>1, <2>4, <4>1
      <4> QED BY <4>1, <4>2
    <3> QED BY <1>1, <3>1, <3>2
  <2>6. IsSequence(t) /\ DOMAIN t = 1..(n + 1)
    BY <2>4, AnySequence, LenProperties
  <2>7. S \ {s[i]} \subseteq ToSet(t)
    <3> SUFFICES ASSUME NEW y \in S \ {s[i]} PROVE y \in ToSet(t)
      OBVIOUS
    <3>1. PICK j \in 1..n : y = s[j]
      BY <1>1 DEF ToSet
    <3>2. PICK k \in 1..(n + 1) : t[k] = s[j]
      BY <2>5
    <3> QED BY <2>6, <3>1, <3>2 DEF ToSet
  <2>8. Edited(s, kind, record, text) = t
    <3>1. Edited(s, kind, record, text) = InsertAt(s, i + 1, x)
      BY <1>4 DEF Edited
    <3>2. SubSeq(s, 1, (i + 1) - 1) = SubSeq(s, 1, i)
      BY <1>1
    <3> QED BY <3>1, <3>2 DEF InsertAt, t, a, b, c
  <2> QED BY <2>6, <2>7, <2>8
<1> QED BY <1>2, <1>3, <1>4 DEF Kinds

-----------------------------------------------------------------------------
\* A batch, one operation after the other.

AppliedBy(messages, steps, n, f) ==
  f = [i \in 0..n |-> IF i = 0 THEN [refused |-> FALSE, messages |-> messages] ELSE Edit1(f[i - 1], steps[i])]

LEMMA BatchIsDefined ==
  ASSUME NEW messages, NEW steps
  PROVE  \A n \in Nat : \E f : AppliedBy(messages, steps, n, f)
<1> DEFINE S == {n \in Nat : \E f : AppliedBy(messages, steps, n, f)}
           start == [refused |-> FALSE, messages |-> messages]
<1>1. 0 \in S
  <2> DEFINE f == [i \in 0..0 |-> start]
  <2>1. AppliedBy(messages, steps, 0, f)
    BY DEF AppliedBy
  <2> QED BY <2>1
<1>2. ASSUME NEW n \in Nat, n \in S
      PROVE  n + 1 \in S
  <2>1. PICK f : AppliedBy(messages, steps, n, f)
    BY <1>2
  <2> DEFINE g == [i \in 0..(n + 1) |-> IF i = n + 1 THEN Edit1(f[n], steps[i]) ELSE f[i]]
             h == [i \in 0..(n + 1) |-> IF i = 0 THEN start ELSE Edit1(g[i - 1], steps[i])]
  <2>2. \A i \in 0..(n + 1) : g[i] = h[i]
    <3> TAKE i \in 0..(n + 1)
    <3>1. i = 0 \/ (i # n + 1 /\ i \in 0..n /\ i - 1 \in 0..n) \/ i = n + 1
      OBVIOUS
    <3>2. i \in 0..n => f[i] = IF i = 0 THEN start ELSE Edit1(f[i - 1], steps[i])
      BY <2>1 DEF AppliedBy
    <3>3. \A j \in 0..n : g[j] = f[j]
      OBVIOUS
    <3>4. i = n + 1 => i - 1 = n /\ n \in 0..n /\ i # 0
      OBVIOUS
    <3>5. g[i] = (IF i = n + 1 THEN Edit1(f[n], steps[i]) ELSE f[i]) /\ h[i] = IF i = 0 THEN start ELSE Edit1(g[i - 1], steps[i])
      OBVIOUS
    <3> HIDE DEF g, h, start
    <3> QED BY <3>1, <3>2, <3>3, <3>4, <3>5
  <2>3. g = h
    <3>1. g = [i \in 0..(n + 1) |-> g[i]] /\ h = [i \in 0..(n + 1) |-> h[i]]
      OBVIOUS
    <3> HIDE DEF g, h
    <3> QED BY <2>2, <3>1
  <2> HIDE DEF g
  <2>4. AppliedBy(messages, steps, n + 1, g)
    BY <2>3 DEF AppliedBy
  <2> QED BY <2>4
<1> HIDE DEF S
<1>3. Nat \subseteq S
  BY <1>1, <1>2, SetOfNumbers
<1> QED BY <1>3 DEF S

\* Whatever a batch does, it does to messages its operations name.
LEMMA BatchFacts ==
  ASSUME NEW messages, IsSequence(messages), NEW steps, Len(steps) \in Nat, NEW seen,
         \A i \in 1..Len(steps) : steps[i].kind \in Kinds /\ steps[i].record \in seen
  PROVE  LET done == EditAll(messages, steps).messages IN
         IsSequence(done) /\ ToSet(messages) \ ToSet(done) \subseteq {s.message : s \in seen}
<1> DEFINE n == Len(steps)
           f == CHOOSE g : AppliedBy(messages, steps, n, g)
           Good(x) == /\ DOMAIN x = {"refused", "messages"} /\ IsSequence(x.messages)
                      /\ ToSet(messages) \ ToSet(x.messages) \subseteq {s.message : s \in seen}
           S == {i \in Nat : i <= n => Good(f[i])}
<1>1. EditAll(messages, steps) = f[n]
  BY DEF EditAll, AppliedBy
<1>2. AppliedBy(messages, steps, n, f)
  <2>1. \E g : AppliedBy(messages, steps, n, g)
    BY BatchIsDefined
  <2> QED BY <2>1
<1> HIDE DEF f
<1>3. \A i \in 0..n : f[i] = IF i = 0 THEN [refused |-> FALSE, messages |-> messages] ELSE Edit1(f[i - 1], steps[i])
  BY <1>2 DEF AppliedBy
<1>4. 0 \in S
  <2>1. f[0] = [refused |-> FALSE, messages |-> messages]
    <3>1. 0 \in 0..n
      OBVIOUS
    <3> HIDE DEF n
    <3> QED BY <1>3, <3>1
  <2>2. Good(f[0])
    BY <2>1
  <2> QED BY <2>2
<1>5. ASSUME NEW x, Good(x), NEW step, step.kind \in Kinds, step.record \in seen
      PROVE  Good(Edit1(x, step))
  <2>1. CASE x.refused \/ ~ IsActive(step.record, x.messages)
    <3> DEFINE y == [x EXCEPT !.refused = TRUE]
    <3>1. Edit1(x, step) = y
      BY <2>1 DEF Edit1
    <3>2. DOMAIN y = {"refused", "messages"} /\ y.messages = x.messages
      BY <1>5
    <3> HIDE DEF y
    <3> QED BY <1>5, <3>1, <3>2
  <2>2. CASE ~ (x.refused \/ ~ IsActive(step.record, x.messages))
    <3> DEFINE t == Edited(x.messages, step.kind, step.record, step.text)
               y == [x EXCEPT !.messages = t]
    <3>1. Edit1(x, step) = y
      BY <2>2, <1>5 DEF Edit1
    <3>2. step.record.ordinal \in DOMAIN x.messages /\ x.messages[step.record.ordinal] = step.record.message
      BY <2>2 DEF IsActive
    <3>3. IsSequence(t) /\ ToSet(x.messages) \ {step.record.message} \subseteq ToSet(t)
      BY <1>5, <3>2, EditedFacts
    <3> HIDE DEF t
    <3>4. DOMAIN y = {"refused", "messages"} /\ y.messages = t
      BY <1>5
    <3> HIDE DEF y
    <3>5. ToSet(messages) \ ToSet(t) \subseteq {s.message : s \in seen}
      BY <1>5, <3>3
    <3> QED BY <3>1, <3>3, <3>4, <3>5
  <2> QED BY <2>1, <2>2
<1>6. ASSUME NEW i \in Nat, i \in S
      PROVE  i + 1 \in S
  <2> SUFFICES ASSUME i + 1 <= n PROVE Good(f[i + 1])
    OBVIOUS
  <2>1. Good(f[i]) /\ i + 1 \in 1..n /\ (i + 1) - 1 = i /\ i + 1 \in 0..n
    BY <1>6
  <2>2. f[i + 1] = Edit1(f[i], steps[i + 1])
    BY <1>3, <2>1
  <2> HIDE DEF Good
  <2> QED BY <1>5, <2>1, <2>2
<1>7. Nat \subseteq S
  <2> HIDE DEF S
  <2> QED BY <1>4, <1>6, SetOfNumbers
<1>8. Good(f[n])
  BY <1>7
<1> QED BY <1>1, <1>8

-----------------------------------------------------------------------------
\* What is saved.

LEMMA StoredFacts ==
  ASSUME NEW c, disk' = Stored(c)
  PROVE  /\ DOMAIN disk' = DiskFields /\ disk'.exists /\ disk'.messages = c.messages /\ disk'.revision = c.revision
         /\ disk'.archive = disk.archive \cup c.archive
         /\ Archived' = Archived \cup {m.text : m \in c.archive}
         /\ AllTexts(disk)' = AllTexts(c) \cup Archived
<1>1. /\ DOMAIN disk' = DiskFields /\ disk'.exists /\ disk'.messages = c.messages /\ disk'.revision = c.revision
      /\ disk'.archive = disk.archive \cup c.archive
  BY DEF Stored, DiskFields
<1>2. Archived' = Archived \cup {m.text : m \in c.archive}
  BY <1>1 DEF Archived
<1>3. AllTexts(disk)' = Says(c.messages) \cup Archived'
  BY <1>1 DEF AllTexts, Says, Archived
<1> QED BY <1>1, <1>2, <1>3 DEF AllTexts

LEMMA LoadedFacts ==
  /\ DOMAIN Loaded(disk) = LiveFields /\ Loaded(disk).messages = disk.messages
  /\ Loaded(disk).archive = disk.archive /\ Loaded(disk).revision = disk.revision
  /\ AllTexts(Loaded(disk)) = AllTexts(disk)
BY DEF Loaded, LiveFields, AllTexts

\* A checkpoint that is loaded fits itself.
LEMMA LoadedFits == DiskInv => Fits(Loaded(disk)) /\ Kept(Loaded(disk))
<1> SUFFICES ASSUME DiskInv PROVE Fits(Loaded(disk)) /\ Kept(Loaded(disk))
  OBVIOUS
<1> PICK c : c = Loaded(disk)
  OBVIOUS
<1>1. DOMAIN c = LiveFields /\ c.messages = disk.messages /\ c.revision = disk.revision /\ AllTexts(c) = AllTexts(disk)
  BY LoadedFacts
<1>2. Archived \subseteq AllTexts(disk) /\ Says(disk.messages) \subseteq AllTexts(disk)
  BY DEF Archived, AllTexts
<1> QED BY <1>1, <1>2 DEF Fits, Kept, DiskInv, CoveredBy

\* A save of a context that fits.
LEMMA SaveFits ==
  ASSUME DiskInv, NEW c, Fits(c), disk' = Stored(c), UNCHANGED revisions
  PROVE  DiskInv' /\ Fits(c)' /\ Kept(c)'
<1>1. /\ DOMAIN disk' = DiskFields /\ disk'.exists /\ disk'.messages = c.messages /\ disk'.revision = c.revision
      /\ Archived' = Archived \cup {m.text : m \in c.archive}
      /\ AllTexts(disk)' = AllTexts(c) \cup Archived
  BY StoredFacts
<1>2. AllTexts(c) \cup Archived' = AllTexts(c) \cup Archived /\ Says(c.messages) \subseteq AllTexts(c)
  BY <1>1 DEF AllTexts
<1>3. CoveredBy(c.revision, AllTexts(c) \cup Archived) /\ c.revision \in 0..Len(revisions) /\ IsSequence(c.messages)
      /\ DOMAIN c = LiveFields
  BY DEF Fits
<1>4. DiskInv'
  BY <1>1, <1>3 DEF DiskInv, CoveredBy
<1> QED BY <1>1, <1>2, <1>3, <1>4 DEF Fits, Kept, CoveredBy

\* A context that says more fits as well.
LEMMA MoreFits ==
  ASSUME NEW c, Fits(c), NEW d, DOMAIN d = LiveFields, IsSequence(d.messages), d.revision = c.revision,
         AllTexts(c) \subseteq AllTexts(d)
  PROVE  Fits(d) /\ (Kept(c) => Kept(d))
BY DEF Fits, Kept, CoveredBy

LEMMA AppendFits ==
  ASSUME NEW c, Fits(c), NEW role
  PROVE  /\ Fits(Append1(c, role)) /\ (Kept(c) => Kept(Append1(c, role)))
         /\ Append1(c, role).revision = c.revision
<1> PICK x : x = Message(c.round + 1, role, texts + 1)
  OBVIOUS
<1> PICK s : s = Append(c.messages, x)
  OBVIOUS
<1> DEFINE d == [[c EXCEPT !.round = c.round + 1] EXCEPT !.messages = s]
<1>1. DOMAIN c = LiveFields /\ IsSequence(c.messages)
  BY DEF Fits
<1>2. Append1(c, role) = d
  BY <1>1 DEF Append1, LiveFields
<1>3. DOMAIN d = LiveFields /\ d.messages = s /\ d.archive = c.archive /\ d.revision = c.revision
  BY <1>1 DEF LiveFields
<1>4. IsSequence(s) /\ ToSet(s) = ToSet(c.messages) \cup {x}
  BY <1>1, AppendedFacts
<1> HIDE DEF d
<1>5. AllTexts(c) \subseteq AllTexts(d)
  BY <1>3, <1>4 DEF AllTexts, Says
<1> QED BY <1>2, <1>3, <1>4, <1>5, MoreFits

LEMMA ShrunkFits ==
  ASSUME NEW c, Fits(c)
  PROVE  LET d == [c EXCEPT !.messages = <<>>, !.archive = @ \cup ToSet(c.messages)] IN
         Fits(d) /\ (Kept(c) => Kept(d)) /\ d.revision = c.revision
<1> DEFINE d == [c EXCEPT !.messages = <<>>, !.archive = @ \cup ToSet(c.messages)]
<1>1. DOMAIN c = LiveFields
  BY DEF Fits
<1>2. DOMAIN d = LiveFields /\ d.messages = <<>> /\ d.archive = c.archive \cup ToSet(c.messages) /\ d.revision = c.revision
  BY <1>1 DEF LiveFields
<1> HIDE DEF d
<1>3. AllTexts(c) \subseteq AllTexts(d)
  BY <1>2 DEF AllTexts, Says
<1>4. IsSequence(d.messages)
  BY <1>2, EmptySeq, AnySequence
<1>5. Fits(d) /\ (Kept(c) => Kept(d)) /\ d.revision = c.revision
  BY <1>2, <1>3, <1>4, MoreFits
<1> QED BY <1>5 DEF d

-----------------------------------------------------------------------------
\* Steps that leave the calls alone.

Inv == DiskInv /\ LiveInv /\ ToolInv
Activating == \E e \in Tools : tool[e].pc = "activate"

LEMMA QuietCalls ==
  ASSUME ToolInv, ~Waiting \/ lock = Nobody \/ run # "running"
  PROVE  \A e \in Tools : tool[e].pc = "idle"
<1>1. \A e \in Tools : tool[e].pc \in Working \cup {"idle"} /\ (tool[e].pc \in Working => lock = e /\ run = "running")
  BY DEF ToolInv, ToolShape, Grounded
<1>2. Nobody \notin Tools
  BY ContextConstants
<1> QED BY <1>1, <1>2 DEF Waiting

\* Calls of which none is at work stay as they are.
LEMMA IdleCallsStay ==
  ASSUME ToolInv, \A e \in Tools : tool[e].pc = "idle", UNCHANGED tool
  PROVE  ToolInv'
BY DEF ToolInv, ToolShape, Working

\* Beside a call at work the context on disk keeps its revision.
LEMMA CallsStay ==
  ASSUME ToolInv, UNCHANGED <<tool, lock, run, revisions>>, raced' = (raced \/ Busy),
         run = "running" /\ disk.exists /\ live.revision = disk.revision =>
           disk'.exists /\ disk'.revision = disk.revision /\ live'.revision = disk.revision
  PROVE  ToolInv'
<1> SUFFICES ASSUME NEW e \in Tools, tool'[e].pc \in Working PROVE Grounded(e)'
  BY DEF ToolInv, ToolShape
<1>1. Grounded(e) /\ tool[e].pc \in Working
  BY DEF ToolInv
<1>2. disk'.exists /\ disk'.revision = disk.revision /\ live'.revision = disk.revision /\ raced'
  BY <1>1 DEF Grounded, Busy
<1> QED BY <1>1, <1>2 DEF Grounded, Follows

\* A context in memory that fits.
LEMMA MemoryFits ==
  ASSUME DiskInv, NEW c, Fits(c), Kept(c) \/ raced' \/ Activating', live' = c, UNCHANGED files
  PROVE  DiskInv' /\ LiveInv'
<1>1. DiskInv' /\ Fits(c)' /\ (Kept(c) => Kept(c)')
  BY DEF files, DiskInv, CoveredBy, Fits, Kept, Follows, Archived, AllTexts
<1>2. Fits(live)' /\ (Kept(c) => Kept(live)')
  BY <1>1 DEF Fits, Kept
<1> QED BY <1>1, <1>2 DEF LiveInv, Activating

\* A context in memory that is saved.
LEMMA MemorySaved ==
  ASSUME DiskInv, NEW c, Fits(c), live' = c, disk' = Stored(c), UNCHANGED revisions
  PROVE  DiskInv' /\ LiveInv' /\ disk'.exists /\ disk'.revision = c.revision
<1>1. DiskInv' /\ Fits(c)' /\ Kept(c)'
  BY SaveFits
<1>2. disk'.exists /\ disk'.revision = c.revision
  BY StoredFacts
<1>3. Fits(live)' /\ Kept(live)'
  BY <1>1 DEF Fits, Kept
<1> QED BY <1>1, <1>2, <1>3 DEF LiveInv

LEMMA QuietStep ==
  ASSUME Inv, Admit \/ CheckIdle \/ CheckCompact
  PROVE  Inv'
<1>1. /\ UNCHANGED <<live, disk, revisions, tool, lock, raced>> /\ run # "running"
      /\ run' # "running" /\ (intake # "append" => intake' # "append")
  BY DEF Admit, CheckIdle, CheckCompact, Busy, files
<1>2. ToolInv'
  BY <1>1, QuietCalls, IdleCallsStay DEF Inv
<1>3. DiskInv' /\ (Loose => Loose') /\ (Fits(live) => Fits(live)') /\ (Kept(live) => Kept(live)')
  BY <1>1 DEF Inv, DiskInv, CoveredBy, Fits, Kept, Follows, Archived, AllTexts, Loose
<1>4. LiveInv'
  BY <1>1, <1>3 DEF Inv, LiveInv
<1> QED BY <1>2, <1>3, <1>4 DEF Inv

\* What the memory is, behind the load of an empty one.
LEMMA LoadFits ==
  ASSUME Inv, NEW c, c = IF live.messages = <<>> /\ disk.exists THEN Loaded(disk) ELSE live
  PROVE  Fits(c) /\ (Kept(c) \/ raced \/ Activating)
<1>1. CASE live.messages = <<>> /\ disk.exists
  BY <1>1, LoadedFits DEF Inv
<1>2. CASE ~(live.messages = <<>> /\ disk.exists)
  <2>1. c = live /\ ~Loose
    BY <1>2 DEF Loose
  <2> QED BY <2>1 DEF Inv, LiveInv, Activating, Fits, Kept
<1> QED BY <1>1, <1>2

LEMMA BeginStep ==
  ASSUME Inv, Begin
  PROVE  Inv'
<1> PICK c : c = IF live.messages = <<>> /\ disk.exists THEN Loaded(disk) ELSE live
  OBVIOUS
<1>1. live' = c /\ UNCHANGED <<files, tool, raced>> /\ run # "running"
  BY DEF Begin
<1>2. Fits(c) /\ (Kept(c) \/ raced \/ Activating)
  BY LoadFits
<1>3. DiskInv' /\ LiveInv'
  BY <1>1, <1>2, MemoryFits DEF Inv, Activating
<1>4. ToolInv'
  BY <1>1, QuietCalls, IdleCallsStay DEF Inv
<1> QED BY <1>3, <1>4 DEF Inv

\* Inside a run, or between load and append of an import, the memory fits.
LEMMA RunFits ==
  ASSUME Inv, run = "running" \/ intake = "append"
  PROVE  Fits(live) /\ (Kept(live) \/ raced \/ Activating)
BY DEF Inv, LiveInv, Loose, Activating

LEMMA SayStep ==
  ASSUME Inv, Say
  PROVE  Inv'
<1> PICK c : c = live
  OBVIOUS
<1> PICK d : d = Append1(c, "assistant")
  OBVIOUS
<1>1. live' = d /\ UNCHANGED <<files, tool, raced>> /\ run = "running" /\ ~Waiting
  BY DEF Say
<1>2. Fits(c) /\ (Kept(c) \/ raced \/ Activating)
  BY <1>1, RunFits DEF Fits, Kept
<1>3. Fits(d) /\ (Kept(c) => Kept(d))
  BY <1>2, AppendFits
<1>4. DiskInv' /\ LiveInv'
  BY <1>1, <1>2, <1>3, MemoryFits DEF Inv, Activating
<1>5. ToolInv'
  BY <1>1, QuietCalls, IdleCallsStay DEF Inv
<1> QED BY <1>4, <1>5 DEF Inv

LEMMA SaveRoundStep ==
  ASSUME Inv, SaveRound
  PROVE  Inv'
<1> PICK c : c = live
  OBVIOUS
<1>1. /\ live' = c /\ UNCHANGED <<tool, raced, revisions>> /\ run = "running" /\ ~Waiting
      /\ disk' = Stored(c) \/ UNCHANGED disk
  BY DEF SaveRound
<1>2. Fits(c) /\ (Kept(c) \/ raced \/ Activating)
  BY <1>1, RunFits DEF Fits, Kept
<1>3. ToolInv'
  BY <1>1, QuietCalls, IdleCallsStay DEF Inv
<1>4. DiskInv' /\ LiveInv'
  BY <1>1, <1>2, MemoryFits, MemorySaved DEF Inv, Activating, files
<1> QED BY <1>3, <1>4 DEF Inv

LEMMA ImportLoadStep ==
  ASSUME Inv, ImportLoad
  PROVE  Inv'
<1> PICK c : c = IF disk.exists THEN Loaded(disk) ELSE live
  OBVIOUS
<1>1. live' = c /\ UNCHANGED <<files, tool, lock, run>> /\ raced' = (raced \/ Busy)
  BY DEF ImportLoad, Races
<1>2. Fits(c) /\ (Kept(c) \/ raced \/ Activating)
  <2>1. CASE disk.exists
    BY <2>1, LoadedFits DEF Inv
  <2>2. CASE ~disk.exists
    BY <2>2 DEF Inv, LiveInv, Loose, Activating, Fits, Kept
  <2> QED BY <2>1, <2>2
<1>3. DiskInv' /\ LiveInv'
  BY <1>1, <1>2, MemoryFits DEF Inv, Activating
<1>4. disk.exists => live'.revision = disk.revision
  BY <1>1, LoadedFacts
<1>5. ToolInv'
  BY <1>1, <1>4, CallsStay DEF Inv, files
<1> QED BY <1>3, <1>5 DEF Inv

LEMMA ImportAppendStep ==
  ASSUME Inv, ImportAppend
  PROVE  Inv'
<1> PICK c : c = live
  OBVIOUS
<1> PICK d : d = live'
  OBVIOUS
<1>1. /\ d = c \/ d = Append1(c, "user")
      /\ UNCHANGED <<revisions, tool, lock, run>> /\ raced' = (raced \/ Busy) /\ intake = "append"
      /\ disk' = Stored(d) \/ UNCHANGED disk
  BY DEF ImportAppend, Races, Saves, SaveFails
<1>2. Fits(c) /\ (Kept(c) \/ raced \/ Activating)
  BY <1>1, RunFits DEF Fits, Kept
<1>3. Fits(d) /\ (Kept(c) => Kept(d)) /\ d.revision = c.revision
  BY <1>1, <1>2, AppendFits
<1>4. Activating => raced'
  BY <1>1 DEF Inv, ToolInv, Activating, Working, Grounded, Busy
<1>5. DiskInv' /\ LiveInv'
  <2>1. CASE UNCHANGED disk
    BY <1>1, <1>2, <1>3, <1>4, <2>1, MemoryFits DEF Inv, files
  <2>2. CASE disk' = Stored(d)
    BY <1>1, <1>3, <2>2, MemorySaved DEF Inv
  <2> QED BY <1>1, <2>1, <2>2
<1>6. (disk'.exists = disk.exists /\ disk'.revision = disk.revision) \/ (disk'.exists /\ disk'.revision = d.revision)
  <2>1. CASE UNCHANGED disk
    <3>1. disk' = disk
      BY <2>1
    <3> QED BY <3>1
  <2>2. CASE disk' = Stored(d)
    BY <2>2, StoredFacts
  <2> QED BY <1>1, <2>1, <2>2
<1>7. ToolInv'
  BY <1>1, <1>3, <1>6, CallsStay DEF Inv
<1> QED BY <1>5, <1>7 DEF Inv

LEMMA ShrinkStep ==
  ASSUME Inv, Shrink
  PROVE  Inv'
<1> PICK c : c = IF live.messages = <<>> /\ disk.exists THEN Loaded(disk) ELSE live
  OBVIOUS
<1> PICK d : d = live'
  OBVIOUS
<1>1. /\ UNCHANGED <<files, tool, lock, run>> /\ raced' = (raced \/ Busy)
      /\ d = c \/ d = [c EXCEPT !.messages = <<>>, !.archive = @ \cup ToSet(c.messages)]
  BY DEF Shrink, Races
<1>2. Fits(c) /\ (Kept(c) \/ raced \/ Activating)
  BY LoadFits
<1>3. Fits(d) /\ (Kept(c) => Kept(d)) /\ d.revision = c.revision
  <2> PICK y : y = [c EXCEPT !.messages = <<>>, !.archive = @ \cup ToSet(c.messages)]
    OBVIOUS
  <2>1. Fits(y) /\ (Kept(c) => Kept(y)) /\ y.revision = c.revision
    BY <1>2, ShrunkFits
  <2>2. CASE d = c
    BY <1>2, <2>2 DEF Fits, Kept
  <2>3. CASE d = y
    BY <2>1, <2>3 DEF Fits, Kept
  <2> QED BY <1>1, <2>2, <2>3
<1>4. DiskInv' /\ LiveInv'
  BY <1>1, <1>2, <1>3, MemoryFits DEF Inv, Activating
<1>5. c.revision \in {live.revision, disk.revision}
  BY LoadedFacts
<1>6. ToolInv'
  BY <1>1, <1>3, <1>5, CallsStay DEF Inv, files
<1> QED BY <1>4, <1>6 DEF Inv

-----------------------------------------------------------------------------
\* Steps of a call.

LEMMA OthersAreIdle ==
  ASSUME ToolInv, NEW e \in Tools, lock = Nobody \/ tool[e].pc \in Working
  PROVE  \A o \in Tools \ {e} : tool[o].pc = "idle"
<1>1. \A o \in Tools : tool[o].pc \in Working \cup {"idle"} /\ (tool[o].pc \in Working => lock = o)
  BY DEF ToolInv, ToolShape, Grounded
<1>2. Nobody \notin Tools
  BY ContextConstants
<1> QED BY <1>1, <1>2

\* One call takes another shape while the others rest.
LEMMA CallMoves ==
  ASSUME ToolInv, NEW e \in Tools, \A o \in Tools \ {e} : tool[o].pc = "idle",
         NEW x, ToolShape(x), tool' = [tool EXCEPT ![e] = x], x.pc \in Working => Grounded(e)'
  PROVE  ToolInv'
<1>1. DOMAIN tool' = Tools /\ tool'[e] = x /\ \A o \in Tools \ {e} : tool'[o] = tool[o]
  BY DEF ToolInv
<1>2. \A o \in Tools : ToolShape(tool'[o])
  BY <1>1 DEF ToolInv
<1>3. \A o \in Tools : tool'[o].pc \in Working => o = e
  BY <1>1 DEF Working
<1>4. \A o \in Tools : tool'[o].pc \in Working => Grounded(o)'
  BY <1>1, <1>3
<1> QED BY <1>1, <1>2, <1>4 DEF ToolInv, ToolShape

LEMMA InspectStep ==
  ASSUME Inv, NEW e \in Tools, Inspect(e)
  PROVE  Inv'
<1> PICK c : c = live
  OBVIOUS
<1>1. live' = c /\ UNCHANGED <<revisions, raced>> /\ run = "running" /\ lock = Nobody
  BY DEF Inspect
<1>2. Fits(c) /\ (Kept(c) \/ raced \/ Activating)
  BY <1>1, RunFits DEF Fits, Kept
<1>3. \A o \in Tools : tool[o].pc = "idle"
  BY <1>1, QuietCalls DEF Inv
<1>4. ~ Activating
  BY <1>3 DEF Activating
<1>5. CASE UNCHANGED disk /\ UNCHANGED tool
  <2>1. DiskInv' /\ LiveInv'
    BY <1>1, <1>2, <1>4, <1>5, MemoryFits DEF Inv, files
  <2>2. ToolInv'
    BY <1>3, <1>5, IdleCallsStay DEF Inv
  <2> QED BY <2>1, <2>2 DEF Inv
<1>6. CASE disk' = Stored(c) /\ tool' = [tool EXCEPT ![e].seen = [revision |-> live.revision, records |-> Records(live.messages)]]
  <2>1. DiskInv' /\ LiveInv'
    BY <1>1, <1>2, <1>6, MemorySaved DEF Inv
  <2> PICK y : y = [revision |-> live.revision, records |-> Records(live.messages)]
    OBVIOUS
  <2> DEFINE x == [tool[e] EXCEPT !.seen = y]
  <2>2. tool' = [tool EXCEPT ![e] = x]
    BY <1>6
  <2>3. ToolShape(x) /\ x.pc = "idle"
    <3>1. ToolShape(tool[e]) /\ tool[e].pc = "idle"
      BY <1>3 DEF Inv, ToolInv
    <3>2. DOMAIN x = DOMAIN tool[e] /\ x.pc = tool[e].pc /\ x.work = tool[e].work
      BY <3>1 DEF ToolShape
    <3> HIDE DEF x
    <3> QED BY <3>1, <3>2 DEF ToolShape
  <2> HIDE DEF x
  <2>4. ToolInv'
    BY <1>3, <2>2, <2>3, CallMoves DEF Inv, Working
  <2> QED BY <2>1, <2>4 DEF Inv
<1> QED BY <1>1, <1>5, <1>6 DEF Inspect, SaveFails, Saves

\* The steps of a batch, for the facts above.
LEMMA StepsFacts ==
  ASSUME NEW batch \in Batches, NEW records, NEW targets \in [DOMAIN batch -> ToSet(records)]
  PROVE  LET steps == Steps(batch, targets) IN
         /\ Len(steps) \in Nat
         /\ \A i \in 1..Len(steps) : steps[i].kind \in Kinds /\ steps[i].record \in ToSet(records)
<1> DEFINE n == Len(batch)
           steps == Steps(batch, targets)
<1>1. batch \in Seq(Kinds)
  BY ContextConstants
<1>2. n \in Nat /\ DOMAIN batch = 1..n /\ \A i \in 1..n : batch[i] \in Kinds
  BY <1>1, LenProperties
<1>3. DOMAIN steps = 1..n /\ steps = [i \in 1..n |-> steps[i]]
  BY <1>2 DEF Steps
<1>4. \A i \in 1..n : steps[i].kind = batch[i] /\ steps[i].record = targets[i]
  BY <1>2 DEF Steps
<1> HIDE DEF steps, n
<1>5. Len(steps) = n
  BY <1>2, <1>3, FunctionIsSequence
<1> QED BY <1>2, <1>4, <1>5 DEF steps

\* An edit begins: the live context is on disk, the call holds the lock.
LEMMA EditBegins ==
  ASSUME Inv, NEW e \in Tools, Take(e), UNCHANGED <<live, revisions, run, raced>>, disk' = Stored(live), lock' = e,
         NEW pc, NEW work, tool' = [tool EXCEPT ![e].pc = pc, ![e].work = work],
         pc = "snapshot" \/ (pc \in {"baseline", "baseline_only"} /\ live.revision = NoRevision),
         DOMAIN work = {"parent", "before", "messages"}, IsSequence(work.before), IsSequence(work.messages),
         work.parent = live.revision
  PROVE  Inv'
<1> PICK c : c = live
  OBVIOUS
<1>1. Fits(c)
  BY RunFits DEF Fits, Take
<1>2. DiskInv' /\ LiveInv' /\ disk'.exists /\ disk'.revision = c.revision
  BY <1>1, MemorySaved DEF Inv
<1>3. \A o \in Tools : tool[o].pc = "idle"
  BY QuietCalls DEF Inv, Take
<1> DEFINE x == [[tool[e] EXCEPT !.pc = pc] EXCEPT !.work = work]
<1>4. tool' = [tool EXCEPT ![e] = x]
  BY DEF Inv, ToolInv
<1>5. DOMAIN x = {"pc", "seen", "work"} /\ x.pc = pc /\ x.work = work
  BY DEF Inv, ToolInv, ToolShape
<1> HIDE DEF x
<1>6. ToolShape(x)
  BY <1>5 DEF ToolShape, Working
<1>7. tool'[e] = x
  BY <1>4 DEF Inv, ToolInv
<1>8. Grounded(e)'
  BY <1>2, <1>5, <1>7 DEF Grounded, Take
<1>9. ToolInv'
  BY <1>3, <1>4, <1>6, <1>8, CallMoves DEF Inv
<1> QED BY <1>2, <1>9 DEF Inv

LEMMA ApplyStep ==
  ASSUME Inv, NEW e \in Tools, Apply(e)
  PROVE  Inv'
<1> PICK c : c = live
  OBVIOUS
<1>1. live' = c /\ UNCHANGED <<revisions, raced, run>> /\ run = "running" /\ lock = Nobody /\ Take(e)
  BY DEF Apply, Take
<1>2. Fits(c) /\ (Kept(c) \/ raced \/ Activating)
  BY <1>1, RunFits DEF Fits, Kept
<1>3. \A o \in Tools : tool[o].pc = "idle"
  BY <1>1, QuietCalls DEF Inv
<1>4. CASE UNCHANGED tool /\ (UNCHANGED disk \/ disk' = Stored(c))
  <2>1. DiskInv' /\ LiveInv'
    BY <1>1, <1>2, <1>3, <1>4, MemoryFits, MemorySaved DEF Inv, files, Activating
  <2>2. ToolInv'
    BY <1>3, <1>4, IdleCallsStay DEF Inv
  <2> QED BY <2>1, <2>2 DEF Inv
<1>5. ASSUME NEW batch \in Batches, NEW targets \in [DOMAIN batch -> ToSet(tool[e].seen.records)],
             disk' = Stored(live), lock' = e,
             NEW pc, pc = "snapshot" \/ (pc \in {"baseline", "baseline_only"} /\ live.revision = NoRevision),
             tool' = [tool EXCEPT
                ![e].pc = pc,
                ![e].work = [parent |-> live.revision, before |-> live.messages,
                             messages |-> EditAll(live.messages, Steps(batch, targets)).messages]]
      PROVE  Inv'
  <2> PICK done : done = EditAll(live.messages, Steps(batch, targets)).messages
    OBVIOUS
  <2> DEFINE work == [parent |-> live.revision, before |-> live.messages, messages |-> done]
  <2>1. IsSequence(live.messages)
    BY <1>2 DEF Fits
  <2>2. IsSequence(done)
    BY <2>1, StepsFacts, BatchFacts
  <2>3. /\ DOMAIN work = {"parent", "before", "messages"} /\ work.before = live.messages /\ work.messages = done
        /\ work.parent = live.revision
    OBVIOUS
  <2>4. tool' = [tool EXCEPT ![e].pc = pc, ![e].work = work]
    BY <1>5
  <2> HIDE DEF work
  <2>5. DOMAIN work = {"parent", "before", "messages"} /\ IsSequence(work.before) /\ IsSequence(work.messages)
        /\ work.parent = live.revision
    BY <2>1, <2>2, <2>3
  <2>6. UNCHANGED <<live, revisions, run, raced>>
    BY <1>1
  <2> QED BY <1>1, <1>5, <2>4, <2>5, <2>6, EditBegins
<1>6. CASE SaveFails /\ UNCHANGED <<lock, tool, texts>>
  BY <1>4, <1>6 DEF SaveFails
<1>7. CASE Saves(live) /\ UNCHANGED <<lock, tool, texts>>
  <2>1. disk' = Stored(c) /\ UNCHANGED tool
    BY <1>7 DEF Saves, Stored
  <2> QED BY <1>4, <2>1
<1>8. ASSUME NEW batch \in Batches, NEW targets \in [DOMAIN batch -> ToSet(tool[e].seen.records)], Saves(live),
             LET done == EditAll(live.messages, Steps(batch, targets)) IN
             /\ lock' = e
             /\ tool' = [tool EXCEPT
                  ![e].pc = IF live.revision # NoRevision THEN "snapshot"
                            ELSE IF done.refused THEN "baseline_only" ELSE "baseline",
                  ![e].work = [parent |-> live.revision, before |-> live.messages, messages |-> done.messages]]
      PROVE  Inv'
  <2> DEFINE done == EditAll(live.messages, Steps(batch, targets))
  <2> PICK pc : pc = IF live.revision # NoRevision THEN "snapshot" ELSE IF done.refused THEN "baseline_only" ELSE "baseline"
    OBVIOUS
  <2>1. pc = "snapshot" \/ (pc \in {"baseline", "baseline_only"} /\ live.revision = NoRevision)
    OBVIOUS
  <2>2. tool' = [tool EXCEPT ![e].pc = pc,
                   ![e].work = [parent |-> live.revision, before |-> live.messages, messages |-> done.messages]]
    BY <1>8
  <2>3. disk' = Stored(live) /\ lock' = e
    BY <1>8 DEF Saves
  <2> QED BY <1>5, <2>1, <2>2, <2>3
<1> QED BY <1>6, <1>7, <1>8 DEF Apply

LEMMA RestoreStep ==
  ASSUME Inv, NEW e \in Tools, Restore(e)
  PROVE  Inv'
<1> PICK r \in DOMAIN revisions :
      /\ lock' = e
      /\ tool' = [tool EXCEPT ![e].pc = "snapshot",
                              ![e].work = [parent |-> live.revision, before |-> <<>>, messages |-> revisions[r].messages]]
  BY DEF Restore
<1>1. Take(e) /\ disk' = Stored(live) /\ UNCHANGED <<live, revisions, run, raced>>
  BY DEF Restore, Saves
<1> DEFINE work == [parent |-> live.revision, before |-> <<>>, messages |-> revisions[r].messages]
<1>2. IsSequence(<<>>) /\ IsSequence(revisions[r].messages)
  BY EmptySeq, AnySequence DEF Inv, DiskInv
<1>3. DOMAIN work = {"parent", "before", "messages"} /\ IsSequence(work.before) /\ IsSequence(work.messages)
      /\ work.parent = live.revision
  BY <1>2
<1>4. tool' = [tool EXCEPT ![e].pc = "snapshot", ![e].work = work]
  OBVIOUS
<1> HIDE DEF work
<1> QED BY <1>1, <1>3, <1>4, EditBegins

\* A file of a new revision changes nothing of the others.
LEMMA RevisionAdded ==
  ASSUME DiskInv, NEW parent \in 0..Len(revisions), NEW messages, IsSequence(messages),
         Writes(parent, messages), UNCHANGED <<live, disk>>
  PROVE  /\ DiskInv' /\ (Fits(live) => Fits(live)') /\ (Kept(live) => Kept(live)')
         /\ NewRevision \in Nat \ {0} /\ DOMAIN revisions = 1..(NewRevision - 1) /\ DOMAIN revisions' = 1..NewRevision
         /\ \A r \in DOMAIN revisions : revisions'[r] = revisions[r]
         /\ revisions'[NewRevision].parent = parent /\ revisions'[NewRevision].messages = messages
<1> PICK x : x = [parent |-> parent, messages |-> messages]
  OBVIOUS
<1> PICK n : n = Len(revisions)
  OBVIOUS
<1>1. revisions' = Append(revisions, x) /\ x.parent = parent /\ x.messages = messages
  BY DEF Writes
<1>2. n \in Nat /\ DOMAIN revisions = 1..n /\ NewRevision = n + 1
  BY SequenceFacts DEF DiskInv, NewRevision
<1>3. /\ IsSequence(revisions') /\ Len(revisions') = n + 1 /\ DOMAIN revisions' = 1..(n + 1)
      /\ (\A r \in DOMAIN revisions : revisions'[r] = revisions[r]) /\ revisions'[n + 1] = x
  BY <1>1, AppendedFacts DEF DiskInv
<1>4. \A r, said : CoveredBy(r, said) => CoveredBy(r, said)'
  <2> SUFFICES ASSUME NEW r, NEW said, CoveredBy(r, said), r # NoRevision
               PROVE  \E y \in DOMAIN revisions' : (y = r \/ revisions'[y].parent = r) /\ Says(revisions'[y].messages) \subseteq said
    BY DEF CoveredBy, Says
  <2>1. PICK y \in DOMAIN revisions : (y = r \/ revisions[y].parent = r) /\ Says(revisions[y].messages) \subseteq said
    BY DEF CoveredBy
  <2>2. y \in DOMAIN revisions' /\ revisions'[y] = revisions[y]
    BY <1>2, <1>3
  <2> QED BY <2>1, <2>2
<1>5. \A r, d : Follows(r, d) => Follows(r, d)'
  BY <1>2, <1>3 DEF Follows
<1>6. \A r \in DOMAIN revisions' : IsSequence(revisions'[r].messages) /\ revisions'[r].parent \in 0..(r - 1)
  <2> TAKE r \in DOMAIN revisions'
  <2>1. r \in DOMAIN revisions \/ r = n + 1
    BY <1>2, <1>3
  <2>2. (n + 1) - 1 = n
    BY <1>2
  <2> QED BY <1>1, <1>3, <2>1, <2>2 DEF DiskInv
<1>7. AllTexts(disk)' = AllTexts(disk) /\ Archived' = Archived /\ AllTexts(live)' = AllTexts(live)
  BY DEF AllTexts, Archived
<1>8. \A r \in 0..n : r \in 0..(n + 1)
  BY <1>2
<1>9. DiskInv'
  <2>1. CoveredBy(disk.revision, AllTexts(disk))'
    <3> PICK r : r = disk.revision
      OBVIOUS
    <3> PICK said : said = AllTexts(disk)
      OBVIOUS
    <3>1. CoveredBy(r, said)
      BY DEF DiskInv, CoveredBy
    <3>2. CoveredBy(r, said)'
      BY <3>1, <1>4
    <3>3. r = disk'.revision /\ said = AllTexts(disk)'
      BY <1>7
    <3> QED BY <3>2, <3>3 DEF CoveredBy
  <2>2. disk'.revision \in 0..Len(revisions')
    BY <1>3, <1>8 DEF DiskInv
  <2> QED BY <1>3, <1>6, <2>1, <2>2 DEF DiskInv
<1>10. ASSUME Fits(live) PROVE Fits(live)'
  <2>1. CoveredBy(live.revision, AllTexts(live) \cup Archived)'
    <3> PICK r : r = live.revision
      OBVIOUS
    <3> PICK said : said = AllTexts(live) \cup Archived
      OBVIOUS
    <3>1. CoveredBy(r, said)
      BY <1>10 DEF Fits, CoveredBy
    <3>2. CoveredBy(r, said)'
      BY <3>1, <1>4
    <3>3. r = live'.revision /\ said = AllTexts(live)' \cup Archived'
      BY <1>7
    <3> QED BY <3>2, <3>3 DEF CoveredBy
  <2>2. live'.revision \in 0..Len(revisions')
    BY <1>3, <1>8, <1>10 DEF Fits
  <2>3. live'.revision = disk'.revision \/ Follows(live.revision, disk.revision)'
    BY <1>5, <1>10 DEF Fits, Follows
  <2> QED BY <1>10, <2>1, <2>2, <2>3 DEF Fits
<1>11. Kept(live) => Kept(live)'
  BY <1>7 DEF Kept
<1>12. NewRevision \in Nat \ {0} /\ NewRevision - 1 = n
  BY <1>2
<1> QED BY <1>1, <1>2, <1>3, <1>9, <1>10, <1>11, <1>12

\* Where a call at work is.
LEMMA AtWork ==
  ASSUME Inv, NEW e \in Tools, tool[e].pc \in Working
  PROVE  /\ Grounded(e) /\ ToolShape(tool[e]) /\ Fits(live) /\ (Kept(live) \/ raced \/ Activating)
         /\ DOMAIN tool = Tools /\ \A o \in Tools \ {e} : tool[o].pc = "idle"
<1>1. Grounded(e) /\ ToolShape(tool[e]) /\ DOMAIN tool = Tools
  BY DEF Inv, ToolInv
<1>2. Fits(live) /\ (Kept(live) \/ raced \/ Activating)
  BY <1>1, RunFits DEF Grounded
<1> QED BY <1>1, <1>2, OthersAreIdle DEF Inv

LEMMA NoWorkShape ==
  /\ DOMAIN NoWork = {"parent", "before", "messages"}
  /\ IsSequence(NoWork.before) /\ IsSequence(NoWork.messages)
<1>1. IsSequence(<<>>)
  BY EmptySeq, AnySequence
<1> QED BY <1>1 DEF NoWork

LEMMA BaselineStep ==
  ASSUME Inv, NEW e \in Tools, Baseline(e)
  PROVE  Inv'
<1>1. /\ tool[e].pc \in {"baseline", "baseline_only"} /\ Writes(NoRevision, tool[e].work.before)
      /\ UNCHANGED <<live, disk, run, raced>>
  BY DEF Baseline, bounded
<1>2. /\ Grounded(e) /\ ToolShape(tool[e]) /\ Fits(live) /\ (Kept(live) \/ raced \/ Activating)
      /\ DOMAIN tool = Tools /\ \A o \in Tools \ {e} : tool[o].pc = "idle"
  BY <1>1, AtWork DEF Working
<1>3. IsSequence(tool[e].work.before)
  BY <1>2 DEF ToolShape
<1>4. Len(revisions) \in Nat
  BY SequenceFacts DEF Inv, DiskInv
<1>5. NoRevision \in 0..Len(revisions)
  BY <1>4 DEF NoRevision
<1>6. /\ DiskInv' /\ Fits(live)' /\ (Kept(live) => Kept(live)')
      /\ NewRevision \in Nat \ {0} /\ DOMAIN revisions' = 1..NewRevision /\ DOMAIN revisions = 1..(NewRevision - 1)
      /\ revisions'[NewRevision].parent = NoRevision
  BY <1>1, <1>2, <1>3, <1>5, RevisionAdded DEF Inv
<1>7. LiveInv'
  BY <1>1, <1>2, <1>6 DEF LiveInv, Activating
<1>8. CASE tool[e].pc = "baseline"
  <2> PICK n : n = NewRevision
    OBVIOUS
  <2> PICK w : w = [tool[e].work EXCEPT !.parent = n]
    OBVIOUS
  <2> DEFINE x == [[tool[e] EXCEPT !.pc = "snapshot"] EXCEPT !.work = w]
  <2>1. DOMAIN w = {"parent", "before", "messages"} /\ w.before = tool[e].work.before /\ w.messages = tool[e].work.messages
        /\ w.parent = n
    BY <1>2 DEF ToolShape
  <2>2. lock' = lock /\ tool' = [tool EXCEPT ![e] = x]
    BY <1>8, <1>2 DEF Baseline, ToolShape
  <2>3. DOMAIN x = {"pc", "seen", "work"} /\ x.pc = "snapshot" /\ x.work = w
    BY <1>2 DEF ToolShape
  <2> HIDE DEF x
  <2>4. ToolShape(x)
    BY <1>2, <2>1, <2>3 DEF ToolShape, Working
  <2>5. tool'[e] = x
    BY <1>2, <2>2
  <2>6. n \in DOMAIN revisions'
    BY <1>6
  <2>7. Grounded(e)'
    BY <1>1, <1>2, <1>6, <1>8, <2>1, <2>2, <2>3, <2>5, <2>6 DEF Grounded
  <2>8. ToolInv'
    BY <1>2, <2>2, <2>4, <2>7, CallMoves DEF Inv
  <2> QED BY <1>6, <1>7, <2>8 DEF Inv
<1>9. CASE tool[e].pc = "baseline_only"
  <2> DEFINE x == [[tool[e] EXCEPT !.pc = "idle"] EXCEPT !.work = NoWork]
  <2>1. tool' = [tool EXCEPT ![e] = x]
    BY <1>9, <1>2 DEF Baseline, ToolShape
  <2>2. DOMAIN x = {"pc", "seen", "work"} /\ x.pc = "idle" /\ x.work = NoWork
    BY <1>2 DEF ToolShape
  <2> HIDE DEF x
  <2>3. ToolShape(x)
    BY <2>2, NoWorkShape DEF ToolShape
  <2>4. ToolInv'
    BY <1>2, <2>1, <2>2, <2>3, CallMoves DEF Inv, Working
  <2> QED BY <1>6, <1>7, <2>4 DEF Inv
<1> QED BY <1>1, <1>8, <1>9

LEMMA SnapshotStep ==
  ASSUME Inv, NEW e \in Tools, Snapshot(e)
  PROVE  Inv'
<1> PICK p : p = tool[e].work.parent
  OBVIOUS
<1> PICK ms : ms = tool[e].work.messages
  OBVIOUS
<1>1. tool[e].pc = "snapshot" /\ Writes(p, ms) /\ UNCHANGED <<live, disk, run, raced>>
  BY DEF Snapshot, bounded
<1>2. /\ Grounded(e) /\ ToolShape(tool[e]) /\ Fits(live) /\ (Kept(live) \/ raced \/ Activating)
      /\ DOMAIN tool = Tools /\ \A o \in Tools \ {e} : tool[o].pc = "idle"
  BY <1>1, AtWork DEF Working
<1>3. IsSequence(ms)
  BY <1>2 DEF ToolShape
<1>4. p = disk.revision \/ (disk.revision = NoRevision /\ p \in DOMAIN revisions /\ revisions[p].parent = NoRevision)
  BY <1>1, <1>2 DEF Grounded
<1>5. p \in 0..Len(revisions)
  <2>1. Len(revisions) \in Nat /\ DOMAIN revisions = 1..Len(revisions) /\ disk.revision \in 0..Len(revisions)
    BY SequenceFacts DEF Inv, DiskInv
  <2> QED BY <1>4, <2>1
<1>6. /\ DiskInv' /\ Fits(live)' /\ (Kept(live) => Kept(live)')
      /\ NewRevision \in Nat \ {0} /\ DOMAIN revisions' = 1..NewRevision /\ DOMAIN revisions = 1..(NewRevision - 1)
      /\ \A r \in DOMAIN revisions : revisions'[r] = revisions[r]
      /\ revisions'[NewRevision].parent = p /\ revisions'[NewRevision].messages = ms
  BY <1>1, <1>2, <1>3, <1>5, RevisionAdded DEF Inv
<1>7. LiveInv'
  BY <1>1, <1>2, <1>6 DEF LiveInv, Activating
<1>8. CASE \E m \in ToSet(ms) : m.role = "tool"
  <2> DEFINE x == [[tool[e] EXCEPT !.pc = "idle"] EXCEPT !.work = NoWork]
  <2>1. tool' = [tool EXCEPT ![e] = x]
    BY <1>8, <1>2 DEF Snapshot, ToolShape
  <2>2. DOMAIN x = {"pc", "seen", "work"} /\ x.pc = "idle" /\ x.work = NoWork
    BY <1>2 DEF ToolShape
  <2> HIDE DEF x
  <2>3. ToolShape(x)
    BY <2>2, NoWorkShape DEF ToolShape
  <2>4. ToolInv'
    BY <1>2, <2>1, <2>2, <2>3, CallMoves DEF Inv, Working
  <2> QED BY <1>6, <1>7, <2>4 DEF Inv
<1>9. CASE ~ \E m \in ToSet(ms) : m.role = "tool"
  <2> PICK n : n = NewRevision
    OBVIOUS
  <2> PICK w : w = [tool[e].work EXCEPT !.parent = n]
    OBVIOUS
  <2> DEFINE x == [[tool[e] EXCEPT !.pc = "commit"] EXCEPT !.work = w]
  <2>1. DOMAIN w = {"parent", "before", "messages"} /\ w.before = tool[e].work.before /\ w.messages = ms /\ w.parent = n
    BY <1>2 DEF ToolShape
  <2>2. lock' = lock /\ tool' = [tool EXCEPT ![e] = x]
    BY <1>9, <1>2 DEF Snapshot, ToolShape
  <2>3. DOMAIN x = {"pc", "seen", "work"} /\ x.pc = "commit" /\ x.work = w
    BY <1>2 DEF ToolShape
  <2> HIDE DEF x
  <2>4. ToolShape(x)
    BY <1>2, <2>1, <2>3 DEF ToolShape, Working
  <2>5. tool'[e] = x
    BY <1>2, <2>2
  <2>6. Follows(n, disk.revision)'
    <3>1. n \in DOMAIN revisions' /\ \A r \in DOMAIN revisions : r \in DOMAIN revisions'
      BY <1>6
    <3> QED BY <1>1, <1>4, <1>6, <3>1 DEF Follows
  <2>7. Grounded(e)'
    <3>1. Says(w.messages) = Says(revisions'[n].messages)
      BY <1>6, <2>1
    <3> QED BY <1>1, <1>2, <2>1, <2>2, <2>3, <2>5, <2>6, <3>1 DEF Grounded, Follows, Says
  <2>8. ToolInv'
    BY <1>2, <2>2, <2>4, <2>7, CallMoves DEF Inv
  <2> QED BY <1>6, <1>7, <2>8 DEF Inv
<1> QED BY <1>8, <1>9

\* New timelines change nothing of what is said.
LEMMA RenumberedFacts ==
  ASSUME NEW ms, IsSequence(ms)
  PROVE  IsSequence(Renumbered(ms)) /\ Says(Renumbered(ms)) = Says(ms)
<1> PICK start : start = Max(Timelines(disk) \cup {live.round}) + 1
  OBVIOUS
<1> PICK n : n = Len(ms)
  OBVIOUS
<1> DEFINE f == [i \in DOMAIN ms |-> Message(start + i - 1, ms[i].role, ms[i].text)]
<1>1. n \in Nat /\ DOMAIN ms = 1..n
  BY SequenceFacts
<1>2. Renumbered(ms) = f
  BY DEF Renumbered
<1>3. DOMAIN f = 1..n /\ f = [i \in 1..n |-> f[i]]
  BY <1>1
<1>4. \A i \in 1..n : f[i].text = ms[i].text
  BY <1>1 DEF Message
<1> HIDE DEF f
<1>5. IsSequence(f)
  BY <1>1, <1>3, FunctionIsSequence
<1>6. Says(f) = Says(ms)
  BY <1>1, <1>3, <1>4 DEF Says, ToSet
<1> QED BY <1>2, <1>5, <1>6

LEMMA CommitStep ==
  ASSUME Inv, NEW e \in Tools, Commit(e)
  PROVE  Inv'
<1> PICK ms : ms = tool[e].work.messages
  OBVIOUS
<1> PICK p : p = tool[e].work.parent
  OBVIOUS
<1> PICK new : new = Renumbered(ms)
  OBVIOUS
<1>1. /\ tool[e].pc = "commit" /\ UNCHANGED <<live, revisions, run, lock, raced, intake>>
      /\ disk' = [disk EXCEPT !.messages = new]
  BY DEF Commit
<1>2. /\ Grounded(e) /\ ToolShape(tool[e]) /\ Fits(live)
      /\ DOMAIN tool = Tools /\ \A o \in Tools \ {e} : tool[o].pc = "idle"
  BY <1>1, AtWork DEF Working
<1>3. IsSequence(new) /\ Says(new) = Says(ms)
  BY <1>2, RenumberedFacts DEF ToolShape
<1>4. Follows(p, disk.revision) /\ Says(ms) = Says(revisions[p].messages) /\ disk.exists
  BY <1>1, <1>2 DEF Grounded
<1>5. /\ DOMAIN disk' = DiskFields /\ disk'.exists = disk.exists /\ disk'.archive = disk.archive
      /\ disk'.revision = disk.revision /\ disk'.messages = new
  BY <1>1 DEF Inv, DiskInv, DiskFields
<1>6. Says(new) \subseteq AllTexts(disk)' /\ Archived' = Archived
  BY <1>5 DEF AllTexts, Archived
<1>7. DiskInv'
  <2>1. CoveredBy(disk.revision, AllTexts(disk))'
    <3>1. disk.revision # NoRevision =>
            p \in DOMAIN revisions /\ revisions[p].parent = disk.revision /\ Says(revisions[p].messages) \subseteq AllTexts(disk)'
      BY <1>3, <1>4, <1>6 DEF Follows
    <3> QED BY <1>1, <1>5, <3>1 DEF CoveredBy, Says
  <2>2. disk'.revision \in 0..Len(revisions')
    BY <1>1, <1>5 DEF Inv, DiskInv
  <2> QED BY <1>1, <1>3, <1>4, <1>5, <2>1, <2>2 DEF Inv, DiskInv
<1> DEFINE w == [tool[e].work EXCEPT !.messages = new]
           x == [[tool[e] EXCEPT !.pc = "activate"] EXCEPT !.work = w]
<1>8. DOMAIN w = {"parent", "before", "messages"} /\ w.before = tool[e].work.before /\ w.messages = new /\ w.parent = p
  BY <1>2 DEF ToolShape
<1>9. tool' = [tool EXCEPT ![e] = x]
  BY <1>2 DEF Commit, ToolShape
<1> HIDE DEF w
<1>10. DOMAIN x = {"pc", "seen", "work"} /\ x.pc = "activate" /\ x.work = w
  BY <1>2 DEF ToolShape
<1> HIDE DEF x
<1>11. tool'[e] = x
  BY <1>2, <1>9
<1>12. LiveInv'
  <2>1. Activating'
    BY <1>10, <1>11 DEF Activating
  <2>2. Fits(live)'
    BY <1>1, <1>2, <1>5, <1>6 DEF Fits, CoveredBy, Follows, AllTexts
  <2> QED BY <2>1, <2>2 DEF LiveInv, Activating
<1>13. Grounded(e)'
  BY <1>1, <1>2, <1>3, <1>4, <1>5, <1>8, <1>10, <1>11 DEF Grounded, Follows
<1>14. ToolShape(x)
  BY <1>2, <1>3, <1>8, <1>10 DEF ToolShape, Working
<1>15. ToolInv'
  BY <1>2, <1>9, <1>13, <1>14, CallMoves DEF Inv
<1> QED BY <1>7, <1>12, <1>15 DEF Inv

\* The context an edit makes the current one.
LEMMA ActivateFits ==
  ASSUME Inv, NEW e \in Tools, tool[e].pc = "activate", NEW round
  PROVE  LET new == [live EXCEPT !.messages = tool[e].work.messages, !.revision = tool[e].work.parent, !.round = round] IN
         Fits(new) /\ (Kept(new) \/ raced)
<1> PICK ms : ms = tool[e].work.messages
  OBVIOUS
<1> PICK p : p = tool[e].work.parent
  OBVIOUS
<1> DEFINE new == [live EXCEPT !.messages = ms, !.revision = p, !.round = round]
<1>1. /\ Grounded(e) /\ ToolShape(tool[e]) /\ Fits(live)
  BY AtWork DEF Working
<1>2. /\ Follows(p, disk.revision) /\ Says(ms) = Says(revisions[p].messages) /\ disk.exists
      /\ ~raced => Says(disk.messages) \subseteq Says(ms)
  BY <1>1 DEF Grounded
<1>3. DOMAIN new = LiveFields /\ new.messages = ms /\ new.revision = p
  BY <1>1 DEF Fits, LiveFields
<1> HIDE DEF new
<1>4. Says(ms) \subseteq AllTexts(new)
  BY <1>3 DEF AllTexts
<1>5. CoveredBy(p, AllTexts(new) \cup Archived)
  BY <1>2, <1>4 DEF CoveredBy, Follows
<1>6. p \in 0..Len(revisions)
  <2>1. Len(revisions) \in Nat /\ DOMAIN revisions = 1..Len(revisions)
    BY SequenceFacts DEF Inv, DiskInv
  <2> QED BY <1>2, <2>1 DEF Follows
<1>7. Fits(new) /\ (Kept(new) \/ raced)
  BY <1>1, <1>2, <1>3, <1>4, <1>5, <1>6 DEF Fits, Kept, ToolShape
<1> QED BY <1>7 DEF new

LEMMA ActivateStep ==
  ASSUME Inv, NEW e \in Tools, Activate(e)
  PROVE  Inv'
<1> PICK c : c = live'
  OBVIOUS
<1>1. /\ tool[e].pc = "activate" /\ UNCHANGED <<revisions, run, raced>> /\ live' = c
      /\ disk' = Stored(c) \/ UNCHANGED disk
  BY DEF Activate, Saves, SaveFails
<1>2. Fits(c) /\ (Kept(c) \/ raced)
  <2> PICK round : round = IF tool[e].work.messages = <<>> THEN Max(Timelines(disk) \cup {live.round}) + 1
                           ELSE Last(tool[e].work.messages).timeline
    OBVIOUS
  <2> PICK new : new = [live EXCEPT !.messages = tool[e].work.messages, !.revision = tool[e].work.parent, !.round = round]
    OBVIOUS
  <2>1. live' = new
    BY DEF Activate
  <2>2. Fits(new) /\ (Kept(new) \/ raced)
    BY <1>1, ActivateFits
  <2> QED BY <2>1, <2>2 DEF Fits, Kept
<1>3. DiskInv' /\ LiveInv'
  <2>1. CASE UNCHANGED disk
    BY <1>1, <1>2, <2>1, MemoryFits DEF Inv, files
  <2>2. CASE disk' = Stored(c)
    BY <1>1, <1>2, <2>2, MemorySaved DEF Inv
  <2> QED BY <1>1, <2>1, <2>2
<1>4. /\ ToolShape(tool[e])
      /\ DOMAIN tool = Tools /\ \A o \in Tools \ {e} : tool[o].pc = "idle"
  BY <1>1, AtWork DEF Working
<1>5. PICK x : ToolShape(x) /\ x.pc = "idle" /\ tool' = [tool EXCEPT ![e] = x]
  <2>1. CASE \E s : tool' = [tool EXCEPT ![e] = [pc |-> "idle", work |-> NoWork, seen |-> s]]
    <3> PICK s : tool' = [tool EXCEPT ![e] = [pc |-> "idle", work |-> NoWork, seen |-> s]]
      BY <2>1
    <3> DEFINE y == [pc |-> "idle", work |-> NoWork, seen |-> s]
    <3>1. DOMAIN y = {"pc", "seen", "work"} /\ y.pc = "idle" /\ y.work = NoWork
      OBVIOUS
    <3>2. tool' = [tool EXCEPT ![e] = y]
      OBVIOUS
    <3> HIDE DEF y
    <3> QED BY <3>1, <3>2, NoWorkShape DEF ToolShape
  <2>2. CASE tool' = [tool EXCEPT ![e].pc = "idle", ![e].work = NoWork]
    <3> DEFINE y == [[tool[e] EXCEPT !.pc = "idle"] EXCEPT !.work = NoWork]
    <3>1. tool' = [tool EXCEPT ![e] = y]
      BY <1>4, <2>2 DEF ToolShape
    <3>2. DOMAIN y = {"pc", "seen", "work"} /\ y.pc = "idle" /\ y.work = NoWork
      BY <1>4 DEF ToolShape
    <3> HIDE DEF y
    <3> QED BY <3>1, <3>2, NoWorkShape DEF ToolShape
  <2> QED BY <2>1, <2>2 DEF Activate
<1>6. ToolInv'
  BY <1>4, <1>5, CallMoves DEF Inv, Working
<1> QED BY <1>3, <1>6 DEF Inv

LEMMA NothingFacts == IsSequence(<<>>) /\ Len(<<>>) = 0 /\ DOMAIN <<>> = {} /\ Says(<<>>) = {}
<1>1. IsSequence(<<>>)
  BY EmptySeq, AnySequence
<1>2. Len(<<>>) = 0
  OBVIOUS
<1>3. DOMAIN <<>> = {}
  <2>1. DOMAIN <<>> = 1..0
    BY <1>1, <1>2, SequenceFacts
  <2> QED BY <2>1
<1>4. ToSet(<<>>) = {}
  BY <1>3 DEF ToSet
<1>5. Says(<<>>) = {}
  BY <1>4 DEF Says
<1> QED BY <1>1, <1>2, <1>3, <1>5

LEMMA CrashStep ==
  ASSUME Inv, Crash
  PROVE  Inv'
<1>1. /\ live' = Blank /\ UNCHANGED <<disk, revisions>> /\ run' = "idle" /\ intake' = "idle"
      /\ tool' = [e \in Tools |-> [tool[e] EXCEPT !.pc = "idle", !.work = NoWork]]
  BY DEF Crash, files
<1>2. DiskInv'
  BY <1>1 DEF Inv, DiskInv, CoveredBy, AllTexts, Says
<1>3. ToolInv'
  <2>1. ASSUME NEW e \in Tools PROVE ToolShape(tool'[e]) /\ tool'[e].pc = "idle"
    <3> DEFINE y == [[tool[e] EXCEPT !.pc = "idle"] EXCEPT !.work = NoWork]
    <3>1. ToolShape(tool[e])
      BY DEF Inv, ToolInv
    <3>2. tool'[e] = y
      BY <1>1
    <3>3. DOMAIN y = {"pc", "seen", "work"} /\ y.pc = "idle" /\ y.work = NoWork
      BY <3>1 DEF ToolShape
    <3> HIDE DEF y
    <3> QED BY <3>2, <3>3, NoWorkShape DEF ToolShape
  <2>2. DOMAIN tool' = Tools
    BY <1>1
  <2>3. \A e \in Tools : tool'[e].pc \notin Working
    BY <2>1 DEF Working
  <2> QED BY <2>1, <2>2, <2>3 DEF ToolInv, ToolShape
<1>4. LiveInv'
  <2>1. CASE disk.exists
    BY <1>1, <2>1 DEF LiveInv, Loose, Blank
  <2>2. CASE ~ disk.exists
    <3>1. disk.revision = NoRevision /\ disk.messages = <<>> /\ disk.revision \in 0..Len(revisions)
      BY <2>2 DEF Inv, DiskInv
    <3>2. DOMAIN Blank = LiveFields /\ Blank.messages = <<>> /\ Blank.revision = NoRevision
      BY DEF Blank, LiveFields
    <3>3. IsSequence(<<>>) /\ Says(<<>>) = {}
      BY NothingFacts
    <3>4. Fits(Blank)' /\ Kept(Blank)'
      BY <1>1, <3>1, <3>2, <3>3 DEF Fits, Kept, CoveredBy
    <3> QED BY <1>1, <3>4 DEF LiveInv, Fits, Kept
  <2> QED BY <2>1, <2>2
<1> QED BY <1>2, <1>3, <1>4 DEF Inv

-----------------------------------------------------------------------------
\* The invariant.

LEMMA Initially == Init => Inv
<1> SUFFICES ASSUME Init PROVE Inv
  OBVIOUS
<1>1. IsSequence(<<>>) /\ Says(<<>>) = {} /\ Len(<<>>) = 0 /\ DOMAIN <<>> = {}
  BY NothingFacts
<1>2. /\ live = Blank /\ disk = Absent /\ revisions = <<>> /\ tool = [e \in Tools |-> Quiet]
  BY DEF Init
<1>3. DiskInv
  <2>1. DOMAIN disk = DiskFields /\ disk.revision = NoRevision /\ disk.messages = <<>> /\ ~ disk.exists
    BY <1>2 DEF Absent, DiskFields
  <2> QED BY <1>1, <1>2, <2>1 DEF DiskInv, CoveredBy, NoRevision
<1>4. LiveInv
  <2>1. disk.revision = NoRevision /\ disk.messages = <<>>
    BY <1>2 DEF Absent
  <2>2. DOMAIN live = LiveFields /\ live.messages = <<>> /\ live.revision = NoRevision
    BY <1>2 DEF Blank, LiveFields
  <2> QED BY <1>1, <1>2, <2>1, <2>2 DEF LiveInv, Fits, Kept, CoveredBy, NoRevision
<1>5. ToolInv
  <2>1. DOMAIN Quiet = {"pc", "seen", "work"} /\ Quiet.pc = "idle" /\ Quiet.work = NoWork
    BY DEF Quiet
  <2>2. ToolShape(Quiet)
    BY <2>1, NoWorkShape DEF ToolShape
  <2> QED BY <1>2, <2>1, <2>2 DEF ToolInv, Working
<1> QED BY <1>3, <1>4, <1>5 DEF Inv

LEMMA Inductive == Inv /\ [Next]_vars => Inv'
<1> SUFFICES ASSUME Inv, [Next]_vars PROVE Inv'
  OBVIOUS
<1>1. CASE UNCHANGED vars
  <2>1. UNCHANGED <<live, disk, revisions, run, lock, tool, intake, raced>>
    BY <1>1 DEF vars, files
  <2>2. DiskInv'
    BY <2>1 DEF Inv, DiskInv, CoveredBy, AllTexts
  <2>3. (Loose => Loose') /\ (Fits(live) => Fits(live)') /\ (Kept(live) => Kept(live)')
    BY <2>1 DEF Loose, Fits, Kept, CoveredBy, Follows, Archived, AllTexts
  <2>4. LiveInv'
    BY <2>1, <2>3 DEF Inv, LiveInv
  <2>5. ToolInv'
    BY <2>1 DEF Inv, ToolInv, ToolShape, Grounded, Follows
  <2> QED BY <2>2, <2>4, <2>5 DEF Inv
<1>2. CASE Tool
  BY <1>2, InspectStep, ApplyStep, RestoreStep, BaselineStep, SnapshotStep, CommitStep, ActivateStep DEF Tool
<1>3. CASE Host
  BY <1>3, QuietStep, ImportLoadStep, ImportAppendStep, ShrinkStep DEF Host
<1>4. CASE Admit \/ Begin \/ Say \/ SaveRound \/ Crash
  BY <1>4, QuietStep, BeginStep, SayStep, SaveRoundStep, CrashStep
<1> QED BY <1>1, <1>2, <1>3, <1>4 DEF Next

LEMMA InvHolds == Spec => []Inv
BY Initially, Inductive, PTL DEF Spec

-----------------------------------------------------------------------------
\* A crash at any write of an edit (context_versions/store.py: file, rows,
\* pointer) leaves every revision of the history on disk, and in the
\* checkpoint the messages of one revision.
THEOREM ContextEditSurvivesCrash == Spec => []EditSurvivesCrash
<1>1. Inv => EditSurvivesCrash
  <2> SUFFICES ASSUME Inv PROVE EditSurvivesCrash
    OBVIOUS
  <2>1. HistoryIsOnDisk
    <3>1. Len(revisions) \in Nat /\ DOMAIN revisions = 1..Len(revisions) /\ disk.revision \in 0..Len(revisions)
      BY SequenceFacts DEF Inv, DiskInv
    <3>2. disk.revision \in DOMAIN revisions \cup {NoRevision}
      BY <3>1 DEF NoRevision
    <3> QED BY <3>2 DEF HistoryIsOnDisk, Inv, DiskInv
  <2>2. EditIsAllOrNothing
    BY DEF EditIsAllOrNothing, Covers, Inv, DiskInv, CoveredBy
  <2> QED BY <2>1, <2>2 DEF EditSurvivesCrash
<1> QED BY <1>1, InvHolds, PTL

\* How the checkpoint changes: by a save of a context that fits it, or by the
\* transaction of an edit.
LEMMA CheckpointChanges ==
  ASSUME Inv, [Next]_vars
  PROVE  \/ UNCHANGED disk
         \/ \E c : Fits(c) /\ (Kept(c) \/ raced' \/ Activating) /\ disk' = Stored(c) /\ UNCHANGED revisions
         \/ \E e \in Tools : Commit(e)
<1> DEFINE Saved == \E c : Fits(c) /\ (Kept(c) \/ raced' \/ Activating) /\ disk' = Stored(c) /\ UNCHANGED revisions
<1>1. ASSUME run = "running" \/ intake = "append", disk' = Stored(live), UNCHANGED revisions, raced => raced'
      PROVE  Saved
  <2>1. Fits(live) /\ (Kept(live) \/ raced' \/ Activating)
    BY <1>1, RunFits
  <2> PICK c : c = live
    OBVIOUS
  <2>2. Fits(c) /\ (Kept(c) \/ raced' \/ Activating) /\ disk' = Stored(c)
    BY <1>1, <2>1 DEF Fits, Kept, Stored
  <2> QED BY <1>1, <2>2
<1>2. CASE SaveRound
  BY <1>1, <1>2 DEF SaveRound
<1>3. CASE \E e \in Tools : Inspect(e) \/ Apply(e) \/ Restore(e)
  <2> PICK e \in Tools : Inspect(e) \/ Apply(e) \/ Restore(e)
    BY <1>3
  <2>1. run = "running" /\ UNCHANGED <<revisions, raced>> /\ (disk' = Stored(live) \/ UNCHANGED disk)
    BY DEF Inspect, Apply, Restore, Take, Saves, SaveFails
  <2> QED BY <1>1, <2>1
<1>4. CASE \E e \in Tools : Activate(e)
  <2> PICK e \in Tools : Activate(e)
    BY <1>4
  <2>1. tool[e].pc = "activate" /\ UNCHANGED revisions /\ (disk' = Stored(live') \/ UNCHANGED disk)
    BY DEF Activate, Saves, SaveFails
  <2> PICK round : round = IF tool[e].work.messages = <<>> THEN Max(Timelines(disk) \cup {live.round}) + 1
                           ELSE Last(tool[e].work.messages).timeline
    OBVIOUS
  <2> PICK new : new = [live EXCEPT !.messages = tool[e].work.messages, !.revision = tool[e].work.parent, !.round = round]
    OBVIOUS
  <2>2. live' = new
    BY DEF Activate
  <2>3. Fits(new)
    BY <2>1, ActivateFits DEF Fits
  <2>4. Activating
    BY <2>1 DEF Activating
  <2>5. disk' = Stored(new) \/ UNCHANGED disk
    BY <2>1, <2>2 DEF Stored
  <2> QED BY <2>1, <2>3, <2>4, <2>5
<1>5. CASE ImportAppend
  <2>1. /\ intake = "append" /\ UNCHANGED revisions /\ (raced => raced')
        /\ disk' = Stored(live') \/ UNCHANGED disk
        /\ live' = live \/ live' = Append1(live, "user")
    BY <1>5 DEF ImportAppend, Races, Saves, SaveFails
  <2> PICK b : b = live
    OBVIOUS
  <2> PICK d : d = Append1(b, "user")
    OBVIOUS
  <2>2. Fits(b) /\ (Kept(b) \/ raced \/ Activating)
    BY <2>1, RunFits DEF Fits, Kept
  <2>3. Fits(d) /\ (Kept(b) => Kept(d))
    BY <2>2, AppendFits
  <2>4. CASE UNCHANGED disk
    BY <2>4
  <2>5. CASE disk' = Stored(live') /\ live' = live
    BY <1>1, <2>1, <2>5 DEF Stored
  <2>6. CASE disk' = Stored(live') /\ live' = Append1(live, "user")
    <3>1. disk' = Stored(d)
      BY <2>6 DEF Stored
    <3> QED BY <2>1, <2>2, <2>3, <3>1
  <2> QED BY <2>1, <2>4, <2>5, <2>6
<1>6. CASE \/ UNCHANGED vars \/ Admit \/ Begin \/ Say \/ CheckIdle \/ ImportLoad \/ CheckCompact \/ Shrink \/ Crash
           \/ \E e \in Tools : Baseline(e) \/ Snapshot(e)
  BY <1>6 DEF vars, files, Admit, Begin, Say, CheckIdle, ImportLoad, CheckCompact, Shrink, Crash, Baseline, Snapshot
<1>7. CASE \E e \in Tools : Commit(e)
  BY <1>7
<1> DEFINE Goal == UNCHANGED disk \/ Saved \/ \E e \in Tools : Commit(e)
<1>8. Goal
  <2>1. CASE Tool
    <3>1. (\E e \in Tools : Inspect(e) \/ Apply(e) \/ Restore(e)) => Goal
      BY <1>3
    <3>2. (\E e \in Tools : Activate(e)) => Goal
      BY <1>4
    <3>3. (\E e \in Tools : Baseline(e) \/ Snapshot(e)) => Goal
      BY <1>6
    <3>4. (\E e \in Tools : Commit(e)) => Goal
      OBVIOUS
    <3> HIDE DEF Goal
    <3> QED BY <2>1, <3>1, <3>2, <3>3, <3>4 DEF Tool
  <2>2. CASE Host
    BY <2>2, <1>5, <1>6 DEF Host
  <2>3. CASE SaveRound
    BY <2>3, <1>2
  <2>4. CASE UNCHANGED vars \/ Admit \/ Begin \/ Say \/ Crash
    BY <2>4, <1>6
  <2> HIDE DEF Goal
  <2> QED BY <2>1, <2>2, <2>3, <2>4 DEF Next
<1> QED BY <1>8 DEF Saved

\* The revision an edit makes current was made from the one it replaces
\* (context_versions/store.py: the check of the current revision under
\* _CONTEXT_LOCK), whatever the other calls, a run, an import or a crash did.
THEOREM ContextEditsFollow == Spec => EditsFollowEachOther
<1> DEFINE A == disk'.revision # disk.revision =>
                  LET p == revisions'[disk'.revision].parent IN
                  p = disk.revision \/ (disk.revision = NoRevision /\ revisions'[p].parent = NoRevision)
<1>1. Inv /\ [Next]_vars => [A]_disk
  <2> SUFFICES ASSUME Inv, [Next]_vars, disk'.revision # disk.revision
               PROVE  LET p == revisions'[disk'.revision].parent IN
                      p = disk.revision \/ (disk.revision = NoRevision /\ revisions'[p].parent = NoRevision)
    OBVIOUS
  <2>1. CASE \E c : Fits(c) /\ disk' = Stored(c) /\ UNCHANGED revisions
    <3> PICK c : Fits(c) /\ disk' = Stored(c) /\ UNCHANGED revisions
      BY <2>1
    <3>1. disk'.revision = c.revision /\ (c.revision = disk.revision \/ Follows(c.revision, disk.revision))
      BY DEF Fits, Stored
    <3> QED BY <3>1 DEF Follows
  <2>2. CASE \E e \in Tools : Commit(e)
    BY <2>2 DEF Commit, Inv, DiskInv, DiskFields
  <2> QED BY <2>1, <2>2, CheckpointChanges
<1> HIDE DEF A
<1>2. Spec => [][A]_disk
  BY <1>1, InvHolds, PTL DEF Spec
<1> QED BY <1>2 DEF A, EditsFollowEachOther

\* What was saved stays in the checkpoint unless an edit takes it away
\* (context_exchange.py and session_service.py: an empty memory is loaded
\* before anything is appended, archived or saved).
THEOREM ContextKeepsMessages == Spec => SavedMessagesSurvive
<1> DEFINE A == ~raced' /\ (\A e \in Tools : tool[e].pc \notin {"commit", "activate"})
                  => AllTexts(disk) \subseteq AllTexts(disk')
<1>1. Inv /\ [Next]_vars => [A]_disk
  <2> SUFFICES ASSUME Inv, [Next]_vars, ~raced', \A e \in Tools : tool[e].pc \notin {"commit", "activate"}
               PROVE  AllTexts(disk) \subseteq AllTexts(disk')
    OBVIOUS
  <2>1. CASE UNCHANGED disk
    BY <2>1 DEF AllTexts
  <2>2. CASE \E c : Fits(c) /\ (Kept(c) \/ raced' \/ Activating) /\ disk' = Stored(c) /\ UNCHANGED revisions
    <3> PICK c : Kept(c) /\ disk' = Stored(c)
      BY <2>2 DEF Activating
    <3>1. AllTexts(disk)' = AllTexts(c) \cup Archived
      BY StoredFacts
    <3>2. AllTexts(disk) \subseteq AllTexts(c) \cup Archived
      BY DEF AllTexts, Kept, Archived
    <3> QED BY <3>1, <3>2 DEF AllTexts
  <2>3. CASE \E e \in Tools : Commit(e)
    BY <2>3 DEF Commit
  <2> QED BY <2>1, <2>2, <2>3, CheckpointChanges
<1> HIDE DEF A
<1>2. Spec => [][A]_disk
  BY <1>1, InvHolds, PTL DEF Spec
<1> QED BY <1>2 DEF A, SavedMessagesSurvive

\* An edit takes away or rewrites only what its Agent has inspected
\* (context_versions/store.py: an identity is place, timeline, role and
\* content), for batches of every length.
THEOREM ContextEditsTouchSeen == Spec => EditsTouchWhatWasSeen
<1> DEFINE A == \A e \in Tools : (tool[e].pc = "idle" /\ tool'[e].pc \in {"baseline", "snapshot"}
                        /\ \A r \in DOMAIN revisions : revisions[r].messages # tool'[e].work.messages)
                  => \A m \in ToSet(live.messages) \ ToSet(tool'[e].work.messages) :
                       m \in {s.message : s \in ToSet(tool[e].seen.records)}
<1>1. Inv /\ [Next]_vars => [A]_tool
  <2> SUFFICES ASSUME Inv, [Next]_vars, NEW e \in Tools,
                      tool[e].pc = "idle", tool'[e].pc \in {"baseline", "snapshot"},
                      \A r \in DOMAIN revisions : revisions[r].messages # tool'[e].work.messages
               PROVE  ToSet(live.messages) \ ToSet(tool'[e].work.messages) \subseteq {s.message : s \in ToSet(tool[e].seen.records)}
    OBVIOUS
  <2>1. DOMAIN tool = Tools /\ ToolShape(tool[e])
    BY DEF Inv, ToolInv
  <2>2. Apply(e)
    <3>1. tool' # tool
      BY <2>1
    <3>2. ~ UNCHANGED vars /\ ~ Crash
      <4>1. ~ UNCHANGED vars
        BY <3>1 DEF vars
      <4>2. ASSUME Crash PROVE FALSE
        <5>1. tool'[e] = [tool[e] EXCEPT !.pc = "idle", !.work = NoWork]
          BY <4>2 DEF Crash
        <5>2. tool'[e].pc = "idle"
          BY <5>1, <2>1 DEF ToolShape
        <5> QED BY <5>2
      <4> QED BY <4>1, <4>2
    <3>3. ~ (Admit \/ Begin \/ Say \/ SaveRound \/ Host)
      BY <3>1 DEF Admit, Begin, Say, SaveRound, Host, CheckIdle, ImportLoad, ImportAppend, CheckCompact, Shrink
    <3> PICK o \in Tools : Inspect(o) \/ Apply(o) \/ Restore(o) \/ Baseline(o) \/ Snapshot(o) \/ Commit(o) \/ Activate(o)
      BY <3>2, <3>3 DEF Next, Tool
    <3>4. ~ Inspect(o)
      BY <2>1 DEF Inspect, ToolShape
    <3>5. ~ Activate(o)
      BY <2>1 DEF Activate, ToolShape
    <3>6. ~ (Baseline(o) \/ Snapshot(o) \/ Commit(o))
      BY <2>1 DEF Baseline, Snapshot, Commit, ToolShape
    <3>7. ~ Restore(o)
      BY <2>1 DEF Restore, ToolShape
    <3>8. Apply(o) => o = e
      BY <2>1 DEF Apply
    <3> QED BY <3>4, <3>5, <3>6, <3>7, <3>8
  <2>7. PICK batch \in Batches : \E targets \in [DOMAIN batch -> ToSet(tool[e].seen.records)] :
          LET done == EditAll(live.messages, Steps(batch, targets)) IN
          tool' = [tool EXCEPT ![e].pc = IF live.revision # NoRevision THEN "snapshot"
                                         ELSE IF done.refused THEN "baseline_only" ELSE "baseline",
                               ![e].work = [parent |-> live.revision, before |-> live.messages, messages |-> done.messages]]
    <3>1. tool' # tool
      OBVIOUS
    <3> QED BY <2>2, <3>1 DEF Apply
  <2>8. PICK targets \in [DOMAIN batch -> ToSet(tool[e].seen.records)] :
          LET done == EditAll(live.messages, Steps(batch, targets)) IN
          tool' = [tool EXCEPT ![e].pc = IF live.revision # NoRevision THEN "snapshot"
                                         ELSE IF done.refused THEN "baseline_only" ELSE "baseline",
                               ![e].work = [parent |-> live.revision, before |-> live.messages, messages |-> done.messages]]
    BY <2>7
  <2>3. tool'[e].work.messages = EditAll(live.messages, Steps(batch, targets)).messages
    <3> PICK done : done = EditAll(live.messages, Steps(batch, targets))
      OBVIOUS
    <3>1. tool'[e].work = [parent |-> live.revision, before |-> live.messages, messages |-> done.messages]
      BY <2>1, <2>8 DEF ToolShape
    <3> QED BY <3>1
  <2>4. IsSequence(live.messages)
    BY <2>2, RunFits DEF Fits, Apply, Take
  <2> PICK done : done = EditAll(live.messages, Steps(batch, targets)).messages
    OBVIOUS
  <2> PICK seen : seen = ToSet(tool[e].seen.records)
    OBVIOUS
  <2>5. ToSet(live.messages) \ ToSet(done) \subseteq {s.message : s \in seen}
    BY <2>4, StepsFacts, BatchFacts
  <2> QED BY <2>3, <2>5
<1> HIDE DEF A
<1>2. Spec => [][A]_tool
  BY <1>1, InvHolds, PTL DEF Spec
<1> QED BY <1>2 DEF A, EditsTouchWhatWasSeen

-----------------------------------------------------------------------------
\* The stream buffer, for every batch size and every bound.

USE FlushAtAssumption, TraceBoundsAssumption

\* Whatever becomes of a flush, it is handed a batch of numbered records.
FlushStep(batch) == FlushDone(batch) \/ FlushFails(batch)
Numbered(batch, last) == /\ batch \in Seq(Nat)
                         /\ \A i \in 1..Len(batch) : batch[i] <= last

TypeInv == TypeOK /\ Numbered(pending, sequence)

LEMMA AppendFacts ==
  ASSUME NEW s \in Seq(Nat), NEW e \in Nat
  PROVE  /\ Append(s, e) \in Seq(Nat)
         /\ Append(s, e) # <<>>
         /\ Len(Append(s, e)) = Len(s) + 1
         /\ \A i \in 1..Len(s) : Append(s, e)[i] = s[i]
         /\ Append(s, e)[Len(s) + 1] = e
  OBVIOUS

LEMMA PrefixFacts ==
  ASSUME NEW s \in Seq(Nat), NEW n \in 0..Len(s)
  PROVE  /\ SubSeq(s, 1, n) \in Seq(Nat)
         /\ Len(SubSeq(s, 1, n)) = n
  OBVIOUS

LEMMA WrittenType ==
  ASSUME NEW batch \in Seq(Nat)
  PROVE  Written(batch) \in Seq(Nat)
<1>1. CASE batch = <<>>
  BY <1>1 DEF Written
<1>2. CASE batch # <<>>
  <2>1. Tail(batch) \in Seq(Nat)
    BY <1>2
  <2> QED BY <2>1 DEF Written
<1> QED BY <1>1, <1>2

\* A record appended behind the buffer has the next number.
LEMMA NextBatch ==
  ASSUME TypeInv
  PROVE  Numbered(Append(pending, sequence + 1), sequence + 1)
<1> DEFINE batch == Append(pending, sequence + 1)
<1>1. pending \in Seq(Nat) /\ sequence \in Nat
  BY DEF TypeInv, TypeOK
<1>2. /\ batch \in Seq(Nat) /\ Len(batch) = Len(pending) + 1
      /\ \A i \in 1..Len(pending) : batch[i] = pending[i]
      /\ batch[Len(pending) + 1] = sequence + 1
  BY <1>1, AppendFacts
<1>3. ASSUME NEW i \in 1..Len(batch)
      PROVE  batch[i] <= sequence + 1
  <2>1. i \in 1..Len(pending) \/ i = Len(pending) + 1
    BY <1>1, <1>2
  <2>2. CASE i \in 1..Len(pending)
    <3>1. pending[i] <= sequence /\ pending[i] \in Nat
      BY <1>1, <2>2 DEF TypeInv, Numbered
    <3> QED BY <1>1, <1>2, <2>2, <3>1
  <2>3. CASE i = Len(pending) + 1
    BY <1>1, <1>2, <2>3
  <2> QED BY <2>1, <2>2, <2>3
<1> QED BY <1>2, <1>3 DEF Numbered

\* Every outcome of a flush keeps the types of what it changes.
LEMMA FlushTyped ==
  ASSUME TypeOK, NEW last \in Nat, NEW batch, Numbered(batch, last), committed <= last,
         FlushStep(batch)
  PROVE  /\ Numbered(pending', last) /\ committed' \in 0..last
         /\ lines' \in Seq(Nat) /\ torn' \in BOOLEAN
         /\ failures' \in Nat /\ tears' \in Nat /\ drops' \in Nat
<1>0. /\ lines \in Seq(Nat) /\ committed \in Nat /\ batch \in Seq(Nat)
      /\ failures \in Nat /\ tears \in Nat /\ drops \in Nat
  BY DEF TypeOK, Numbered
<1>1. Numbered(<<>>, last)
  BY DEF Numbered
<1>2. torn \in BOOLEAN
  BY DEF TypeOK
<1>3. CASE FlushDone(batch)
  <2>1. Written(batch) \in Seq(Nat)
    BY <1>0, WrittenType
  <2>2. lines' \in Seq(Nat)
    BY <1>0, <1>3, <2>1 DEF FlushDone
  <2>3. torn' \in BOOLEAN
    BY <1>2, <1>3, Zenon DEF FlushDone
  <2>4. committed' \in 0..last
    <3>1. CASE batch = <<>>
      BY <1>0, <1>3, <3>1 DEF FlushDone
    <3>2. CASE batch # <<>>
      <4>1. Len(batch) \in 1..Len(batch)
        BY <1>0, <3>2
      <4>2. batch[Len(batch)] <= last /\ batch[Len(batch)] \in Nat
        BY <1>0, <4>1 DEF Numbered
      <4> QED BY <1>3, <3>2, <4>2 DEF FlushDone
    <3> QED BY <3>1, <3>2
  <2> QED BY <1>0, <1>1, <1>3, <2>2, <2>3, <2>4 DEF FlushDone, ghosts
<1>4. CASE failures' = failures + 1 /\ FlushDrops(batch)
  BY <1>0, <1>1, <1>2, <1>4 DEF FlushDrops, file, TypeOK
<1>5. CASE failures' = failures + 1 /\ FlushKeeps(batch)
  <2>1. PICK k \in 0..Len(batch) :
          /\ lines' = lines \o Written(SubSeq(batch, 1, k))
          /\ \/ torn' = (torn /\ k = 0) /\ UNCHANGED tears
             \/ k < Len(batch) /\ torn' = TRUE /\ tears' = tears + 1
    BY <1>5, Zenon DEF FlushKeeps
  <2>2. Written(SubSeq(batch, 1, k)) \in Seq(Nat)
    BY <1>0, PrefixFacts, WrittenType
  <2>3. lines' \in Seq(Nat)
    BY <1>0, <2>1, <2>2
  <2>4. torn' \in BOOLEAN
    BY <1>2, <2>1, Zenon
  <2>5. tears' \in Nat
    BY <1>0, <2>1
  <2> QED BY <1>0, <1>5, <2>3, <2>4, <2>5 DEF FlushKeeps
<1> QED BY <1>3, <1>4, <1>5 DEF FlushStep, FlushFails

LEMMA TypeInductive == BufferSpec => []TypeInv
<1>1. BufferInit => TypeInv
  <2>1. <<>> \in Seq(Nat) /\ Len(<<>>) = 0
    OBVIOUS
  <2>2. BufferInit => closed \in BOOLEAN /\ error \in BOOLEAN /\ torn \in BOOLEAN
    BY Zenon DEF BufferInit
  <2>3. BufferInit => Numbered(pending, sequence) /\ lines \in Seq(Nat)
    BY <2>1 DEF BufferInit, Numbered
  <2> QED BY <2>2, <2>3 DEF BufferInit, TypeInv, TypeOK, Numbered
<1>2. TypeInv /\ [BufferNext]_bufferVars => TypeInv'
  <2> SUFFICES ASSUME TypeInv, [BufferNext]_bufferVars PROVE TypeInv'
    OBVIOUS
  <2>0. /\ TypeOK /\ Numbered(pending, sequence)
        /\ sequence \in Nat /\ committed <= sequence /\ committed \in Nat
    BY DEF TypeInv, TypeOK
  <2>1. CASE AppendRecord
    <3> DEFINE batch == Append(pending, sequence + 1)
    <3>1. Numbered(batch, sequence + 1)
      BY NextBatch
    <3>2. sequence' = sequence + 1 /\ flusher' \in {"none", "running", "ended"}
      BY <2>0, <2>1 DEF AppendRecord, TypeOK
    <3>3. closed' \in BOOLEAN /\ error' \in BOOLEAN /\ closer' \in {"idle", "joining", "returned", "raised"}
      BY <2>0, <2>1 DEF AppendRecord, TypeOK
    <3>4. CASE FlushStep(batch)
      <4>1. /\ Numbered(pending', sequence + 1) /\ committed' \in 0..(sequence + 1)
            /\ lines' \in Seq(Nat) /\ torn' \in BOOLEAN
            /\ failures' \in Nat /\ tears' \in Nat /\ drops' \in Nat
        BY <2>0, <3>1, <3>4, FlushTyped
      <4> QED BY <2>0, <3>2, <3>3, <4>1 DEF TypeInv, TypeOK, Numbered
    <3>5. CASE pending' = batch /\ UNCHANGED <<committed, file, ghosts>>
      BY <2>0, <3>1, <3>2, <3>3, <3>5 DEF TypeInv, TypeOK, Numbered, file, ghosts
    <3> QED BY <2>1, <3>4, <3>5 DEF AppendRecord, FlushStep
  <2>2. ASSUME FlushStep(pending), UNCHANGED sequence,
               closed' \in BOOLEAN, error' \in BOOLEAN,
               flusher' \in {"none", "running", "ended"},
               closer' \in {"idle", "joining", "returned", "raised"}
        PROVE  TypeInv'
    <3>1. /\ Numbered(pending', sequence) /\ committed' \in 0..sequence
          /\ lines' \in Seq(Nat) /\ torn' \in BOOLEAN
          /\ failures' \in Nat /\ tears' \in Nat /\ drops' \in Nat
      BY <2>0, <2>2, FlushTyped
    <3> QED BY <2>0, <2>2, <3>1 DEF TypeInv, TypeOK, Numbered
  <2>3. CASE Tick
    BY <2>0, <2>2, <2>3 DEF Tick, TypeOK, FlushStep
  <2>4. CASE Flush
    BY <2>0, <2>2, <2>4 DEF Flush, TypeOK, FlushStep
  <2>5. CASE Close
    BY <2>0, <2>2, <2>5 DEF Close, TypeOK, FlushStep
  <2>6. CASE FlusherEnds
    BY <2>0, <2>6 DEF FlusherEnds, TypeInv, TypeOK, Numbered, file, ghosts
  <2>7. CASE Joined
    BY <2>0, <2>7 DEF Joined, TypeInv, TypeOK, Numbered, file, ghosts
  <2>8. CASE UNCHANGED bufferVars
    BY <2>0, <2>8 DEF bufferVars, TypeInv, TypeOK, Numbered, file, ghosts
  <2> QED BY <2>1, <2>3, <2>4, <2>5, <2>6, <2>7, <2>8 DEF BufferNext
<1> QED BY <1>1, <1>2, PTL DEF BufferSpec

\* The types of the buffer, whose committed sequence never runs ahead of the
\* records it has numbered.
THEOREM BufferTypeCorrect == BufferSpec => []TypeOK
<1>1. TypeInv => TypeOK
  BY DEF TypeInv
<1> QED BY <1>1, TypeInductive, PTL
-----------------------------------------------------------------------------
\* Nothing gets into a closed buffer: an append is refused, and a flush of the
\* empty rest has nothing to fail on.
THEOREM ClosedBufferIsFlushed == BufferSpec => []ClosedIsFlushed
<1>1. BufferInit => ClosedIsFlushed
  BY DEF BufferInit, ClosedIsFlushed
<1>2. ClosedIsFlushed /\ [BufferNext]_bufferVars => ClosedIsFlushed'
  BY DEF ClosedIsFlushed, BufferNext, bufferVars, AppendRecord, Tick, Flush, Close, FlusherEnds, Joined,
         FlushDone, FlushFails
<1> QED BY <1>1, <1>2, PTL DEF BufferSpec

-----------------------------------------------------------------------------
\* A batch holds the records from `from` to `to`.
Continues(batch, from, to) == /\ batch \in Seq(Nat)
                              /\ Len(batch) = to - from
                              /\ \A i \in 1..Len(batch) : batch[i] = from + i
Reads(s, n) == \E i \in DOMAIN s : s[i] = n

\* What a flush finds and leaves: the batch continues the committed records, and
\* those can be read as long as no partial line got into the file.
FollowsInv == drops = 0 => Continues(pending, committed, sequence)
ReadableInv == drops = 0 /\ tears = 0 => ~torn /\ \A n \in 1..committed : Reads(lines, n)

LEMMA NextBatchContinues ==
  ASSUME TypeInv, Continues(pending, committed, sequence)
  PROVE  Continues(Append(pending, sequence + 1), committed, sequence + 1)
<1> DEFINE batch == Append(pending, sequence + 1)
<1>1. pending \in Seq(Nat) /\ sequence \in Nat /\ committed \in Nat
  BY DEF TypeInv, TypeOK
<1>2. /\ batch \in Seq(Nat) /\ Len(batch) = Len(pending) + 1
      /\ \A i \in 1..Len(pending) : batch[i] = pending[i]
      /\ batch[Len(pending) + 1] = sequence + 1
  BY <1>1, AppendFacts
<1>3. Len(pending) = sequence - committed /\ \A i \in 1..Len(pending) : pending[i] = committed + i
  BY DEF Continues
<1>4. ASSUME NEW i \in 1..Len(batch)
      PROVE  batch[i] = committed + i
  <2>1. CASE i \in 1..Len(pending)
    BY <1>2, <1>3, <2>1
  <2>2. CASE i = Len(pending) + 1
    BY <1>1, <1>2, <1>3, <2>2
  <2> QED BY <1>1, <1>2, <2>1, <2>2
<1> QED BY <1>1, <1>2, <1>3, <1>4 DEF Continues

\* A flush that loses nothing leaves nothing behind, or the whole batch.
LEMMA FlushFollows ==
  ASSUME TypeInv, NEW last \in Nat, NEW batch, Continues(batch, committed, last),
         FlushStep(batch), drops' = 0
  PROVE  drops = 0 /\ Continues(pending', committed', last)
<1>1. batch \in Seq(Nat) /\ committed \in Nat /\ drops \in Nat
  BY DEF TypeInv, TypeOK, Continues
<1>2. CASE FlushDone(batch)
  <2>1. committed' = last
    <3>1. CASE batch = <<>>
      BY <1>1, <1>2, <3>1 DEF FlushDone, Continues
    <3>2. CASE batch # <<>>
      <4>1. Len(batch) \in 1..Len(batch)
        BY <1>1, <3>2
      <4>2. batch[Len(batch)] = committed + Len(batch)
        BY <4>1 DEF Continues
      <4> QED BY <1>1, <1>2, <3>2, <4>2 DEF FlushDone, Continues
    <3> QED BY <3>1, <3>2
  <2>2. Continues(<<>>, last, last)
    <3>1. <<>> \in Seq(Nat) /\ Len(<<>>) = 0
      OBVIOUS
    <3> QED BY <3>1 DEF Continues
  <2> QED BY <1>2, <2>1, <2>2 DEF FlushDone, ghosts
<1>3. CASE FlushDrops(batch)
  BY <1>1, <1>3 DEF FlushDrops
<1>4. CASE FlushKeeps(batch)
  BY <1>4 DEF FlushKeeps
<1> QED BY <1>2, <1>3, <1>4 DEF FlushStep, FlushFails

LEMMA ConcatReads ==
  ASSUME NEW s \in Seq(Nat), NEW t \in Seq(Nat), NEW n \in Nat
  PROVE  Reads(s, n) \/ Reads(t, n) => Reads(s \o t, n)
<1>1. /\ s \o t \in Seq(Nat) /\ Len(s \o t) = Len(s) + Len(t)
      /\ DOMAIN s = 1..Len(s) /\ DOMAIN t = 1..Len(t) /\ DOMAIN (s \o t) = 1..(Len(s) + Len(t))
      /\ \A i \in 1..Len(s) : (s \o t)[i] = s[i]
      /\ \A i \in 1..Len(t) : (s \o t)[Len(s) + i] = t[i]
  OBVIOUS
<1>2. ASSUME Reads(s, n) PROVE Reads(s \o t, n)
  BY <1>1, <1>2 DEF Reads
<1>3. ASSUME Reads(t, n) PROVE Reads(s \o t, n)
  <2>1. PICK i \in 1..Len(t) : t[i] = n
    BY <1>1, <1>3 DEF Reads
  <2>2. Len(s) + i \in DOMAIN (s \o t) /\ (s \o t)[Len(s) + i] = n
    BY <1>1, <2>1
  <2> QED BY <2>2 DEF Reads
<1> QED BY <1>2, <1>3

\* What is committed by a flush can be read, and what could be read still can.
LEMMA FlushReads ==
  ASSUME TypeInv, NEW last \in Nat, NEW batch, Continues(batch, committed, last),
         FlushStep(batch), drops' = 0, tears' = 0, ReadableInv
  PROVE  ~torn' /\ \A n \in 1..committed' : Reads(lines', n)
<1>1. /\ batch \in Seq(Nat) /\ committed \in Nat /\ drops \in Nat /\ tears \in Nat
      /\ lines \in Seq(Nat) /\ torn \in BOOLEAN
  BY DEF TypeInv, TypeOK, Continues
<1>2. drops = 0
  BY FlushFollows
<1>3. CASE FlushDone(batch)
  <2>1. tears = 0
    BY <1>3 DEF FlushDone, ghosts
  <2>2. ~torn /\ \A n \in 1..committed : Reads(lines, n)
    BY <1>2, <2>1 DEF ReadableInv
  <2>3. lines' = lines \o batch
    BY <1>3, <2>2 DEF FlushDone, Written
  <2>4. ~torn'
    BY <1>3, <2>2, Zenon DEF FlushDone
  <2>5. committed' = last
    <3>1. Continues(pending', committed', last) /\ pending' = <<>> /\ Len(<<>>) = 0
      BY <1>3, FlushFollows DEF FlushDone
    <3>2. committed' \in Nat
      <4>1. Numbered(batch, last) /\ committed <= last
        BY <1>1 DEF Continues, Numbered
      <4> QED BY <4>1, FlushTyped DEF TypeInv
    <3>3. last - committed' = 0
      BY <3>1 DEF Continues
    <3>4. \A m, n \in Nat : m - n = 0 => n = m
      OBVIOUS
    <3> QED BY <3>2, <3>3, <3>4
  <2>6. ASSUME NEW n \in 1..last
        PROVE  Reads(lines', n)
    <3>1. CASE n <= committed
      BY <1>1, <2>2, <2>3, <3>1, ConcatReads
    <3>2. CASE n > committed
      <4>1. n - committed \in 1..Len(batch)
        BY <1>1, <3>2 DEF Continues
      <4>2. batch[n - committed] = n
        BY <1>1, <4>1 DEF Continues
      <4>3. Reads(batch, n)
        BY <1>1, <4>1, <4>2 DEF Reads
      <4> QED BY <1>1, <2>3, <4>3, ConcatReads
    <3> QED BY <1>1, <3>1, <3>2
  <2> QED BY <2>4, <2>5, <2>6
<1>4. CASE FlushDrops(batch)
  BY <1>1, <1>2, <1>4 DEF FlushDrops
<1>5. CASE FlushKeeps(batch)
  <2>1. PICK k \in 0..Len(batch) :
          /\ lines' = lines \o Written(SubSeq(batch, 1, k))
          /\ \/ torn' = (torn /\ k = 0) /\ UNCHANGED tears
             \/ k < Len(batch) /\ torn' = TRUE /\ tears' = tears + 1
    BY <1>5, Zenon DEF FlushKeeps
  <2>2. UNCHANGED tears /\ torn' = (torn /\ k = 0)
    BY <1>1, <2>1
  <2>3. ~torn /\ \A n \in 1..committed : Reads(lines, n)
    BY <1>2, <2>2 DEF ReadableInv
  <2>4. ~torn'
    BY <2>2, <2>3
  <2>5. Written(SubSeq(batch, 1, k)) \in Seq(Nat)
    BY <1>1, PrefixFacts, WrittenType
  <2>6. committed' = committed
    BY <1>5 DEF FlushKeeps
  <2> QED BY <1>1, <2>1, <2>3, <2>4, <2>5, <2>6, ConcatReads
<1> QED BY <1>3, <1>4, <1>5 DEF FlushStep, FlushFails

LEMMA FollowsInductive == BufferSpec => [](FollowsInv /\ ReadableInv)
<1>1. BufferInit => FollowsInv /\ ReadableInv
  <2>1. <<>> \in Seq(Nat) /\ Len(<<>>) = 0
    OBVIOUS
  <2> QED BY <2>1 DEF BufferInit, FollowsInv, ReadableInv, Continues
<1>2. TypeInv /\ FollowsInv /\ ReadableInv /\ [BufferNext]_bufferVars => FollowsInv' /\ ReadableInv'
  <2> SUFFICES ASSUME TypeInv, FollowsInv, ReadableInv, [BufferNext]_bufferVars
               PROVE  FollowsInv' /\ ReadableInv'
    OBVIOUS
  <2>0. /\ sequence \in Nat /\ drops \in Nat /\ tears \in Nat /\ failures \in Nat
    BY DEF TypeInv, TypeOK
  <2>1. ASSUME NEW last \in Nat, NEW batch, FlushStep(batch), sequence' = last,
               drops = 0 => Continues(batch, committed, last)
        PROVE  FollowsInv' /\ ReadableInv'
    <3>1. drops' = 0 => drops = 0
      <4>1. FlushDone(batch) => drops' = drops
        BY DEF FlushDone, ghosts
      <4>2. FlushDrops(batch) => drops' = drops + 1
        BY DEF FlushDrops
      <4>3. FlushKeeps(batch) => drops' = drops
        BY DEF FlushKeeps
      <4> QED BY <2>0, <2>1, <4>1, <4>2, <4>3 DEF FlushStep, FlushFails
    <3>2. ASSUME drops' = 0 PROVE Continues(pending', committed', last)
      BY <2>1, <3>1, <3>2, FlushFollows
    <3>3. ASSUME drops' = 0, tears' = 0
          PROVE  ~torn' /\ \A n \in 1..committed' : Reads(lines', n)
      BY <2>1, <3>1, <3>3, FlushReads
    <3> QED BY <2>1, <3>2, <3>3 DEF FollowsInv, ReadableInv, Continues, Reads
  <2>2. CASE AppendRecord
    <3> DEFINE batch == Append(pending, sequence + 1)
    <3>1. drops = 0 => Continues(batch, committed, sequence + 1)
      BY NextBatchContinues DEF FollowsInv
    <3>2. sequence' = sequence + 1
      BY <2>2 DEF AppendRecord
    <3>3. CASE FlushStep(batch)
      BY <2>0, <2>1, <3>1, <3>2, <3>3
    <3>4. CASE pending' = batch /\ UNCHANGED <<committed, file, ghosts>>
      BY <3>1, <3>2, <3>4 DEF FollowsInv, ReadableInv, Continues, Reads, file, ghosts
    <3> QED BY <2>2, <3>3, <3>4 DEF AppendRecord, FlushStep
  <2>3. CASE Tick \/ Flush \/ Close
    <3>1. FlushStep(pending) /\ sequence' = sequence
      BY <2>3 DEF Tick, Flush, Close, FlushStep
    <3> QED BY <2>0, <2>1, <3>1 DEF FollowsInv
  <2>4. CASE FlusherEnds \/ Joined \/ UNCHANGED bufferVars
    <3>1. UNCHANGED <<pending, committed, sequence, lines, torn, drops, tears>>
      BY <2>4 DEF FlusherEnds, Joined, bufferVars, file, ghosts
    <3> QED BY <3>1 DEF FollowsInv, ReadableInv, Continues, Reads
  <2> QED BY <2>2, <2>3, <2>4 DEF BufferNext
<1> QED BY <1>1, <1>2, TypeInductive, PTL DEF BufferSpec

\* Whatever fails and is tried again, the buffer holds exactly the records behind
\* the committed ones, unless a batch was lost.
THEOREM BufferFollowsCommitted == BufferSpec => []PendingFollowsCommitted
<1>1. TypeInv /\ FollowsInv => PendingFollowsCommitted
  <2> SUFFICES ASSUME TypeInv, FollowsInv, drops = 0
               PROVE  /\ Len(pending) = sequence - committed
                      /\ \A i \in DOMAIN pending : pending[i] = committed + i
    BY DEF PendingFollowsCommitted
  <2>1. DOMAIN pending = 1..Len(pending)
    BY DEF TypeInv, TypeOK
  <2> QED BY <2>1 DEF FollowsInv, Continues
<1> QED BY <1>1, TypeInductive, FollowsInductive, PTL

\* What the buffer reports as committed is in the file, duplicates and failed
\* flushes notwithstanding.
THEOREM CommittedRecordsReadable == BufferSpec => []CommittedIsReadable
<1>1. ReadableInv => CommittedIsReadable
  BY DEF ReadableInv, CommittedIsReadable, Reads, IsLine
<1> QED BY <1>1, FollowsInductive, PTL

\* Both at once: the committed sequence splits the records between the file and
\* the buffer (_flush_locked).
THEOREM BufferSplits == BufferSpec => []TraceSplitsAtCommitted
<1>1. PendingFollowsCommitted /\ CommittedIsReadable => TraceSplitsAtCommitted
  BY DEF TraceSplitsAtCommitted
<1> QED BY <1>1, BufferFollowsCommitted, CommittedRecordsReadable, PTL

-----------------------------------------------------------------------------
\* Without a failed flush a full batch never stays in memory.
THEOREM LossIsBounded == BufferSpec => []LossIsOneWindow
<1>1. BufferInit => LossIsOneWindow
  <2>1. Len(<<>>) = 0
    OBVIOUS
  <2> QED BY <2>1 DEF BufferInit, LossIsOneWindow
<1>2. TypeInv /\ LossIsOneWindow /\ [BufferNext]_bufferVars => LossIsOneWindow'
  <2> SUFFICES ASSUME TypeInv, LossIsOneWindow, [BufferNext]_bufferVars, failures' = 0
               PROVE  Len(pending') < FlushAt
    BY DEF LossIsOneWindow
  <2>0. failures \in Nat /\ Len(<<>>) = 0
    BY DEF TypeInv, TypeOK
  <2>1. ASSUME NEW batch, FlushStep(batch) PROVE Len(pending') < FlushAt
    <3>1. ~FlushFails(batch)
      BY <2>0 DEF FlushFails
    <3> QED BY <2>0, <2>1, <3>1 DEF FlushStep, FlushDone
  <2>2. CASE AppendRecord
    BY <2>1, <2>2 DEF AppendRecord, FlushStep
  <2>3. CASE Tick \/ Flush \/ Close
    BY <2>1, <2>3 DEF Tick, Flush, Close, FlushStep
  <2>4. CASE FlusherEnds \/ Joined \/ UNCHANGED bufferVars
    BY <2>4 DEF FlusherEnds, Joined, bufferVars, ghosts, LossIsOneWindow
  <2> QED BY <2>2, <2>3, <2>4 DEF BufferNext
<1> QED BY <1>1, <1>2, TypeInductive, PTL DEF BufferSpec
===================================================================================
