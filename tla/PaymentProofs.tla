--------------------------- MODULE PaymentProofs ---------------------------
(* What is said of a payment holds for transactions, scripts, signatures and   *)
(* texts of any length and for any amount: what is offered for broadcast is    *)
(* what was signed, and a node reads in the bytes what was confirmed.          *)
EXTENDS Payment, SequenceTheorems, FiniteSetTheorems, WellFoundedInduction, TLAPS

-----------------------------------------------------------------------------
(* Functions that are defined step by step *)

\* A set of natural numbers has a first one: what every induction here starts
\* from.
LEMMA SomeNumberIsFirst ==
  ASSUME NEW S \in SUBSET Nat, S # {}
  PROVE  \E m \in S : \A k \in S : m <= k
<1> DEFINE T == {0 .. m : m \in S}
<1>1. T \subseteq FiniteSubsetsOf(Nat) /\ T # {}
  <2>1. ASSUME NEW m \in S PROVE 0 .. m \in FiniteSubsetsOf(Nat)
    <3>1. IsFiniteSet(0 .. m)
      BY FS_Interval
    <3> QED BY <3>1 DEF FiniteSubsetsOf
  <2> QED BY <2>1
<1>2. PICK t \in T : \A u \in T : ~(<<u, t>> \in StrictSubsetOrdering(Nat))
  <2> HIDE DEF T
  <2> QED BY <1>1, FS_StrictSubsetOrderingWellFounded, WFMin
<1>3. PICK m \in S : t = 0 .. m
  BY <1>2
<1>4. ASSUME NEW k \in S, k < m PROVE FALSE
  <2>1. 0 .. k \in T /\ 0 .. k \subseteq t /\ m \in t /\ m \notin 0 .. k /\ t \subseteq Nat
    BY <1>3, <1>4
  <2> QED BY <1>2, <2>1 DEF StrictSubsetOrdering
<1> QED BY <1>3, <1>4

\* A function on 0 .. n that is given by its first value and its steps.
Stepwise(n, S, s, f, g) ==
  g \in [0 .. n -> S] /\ g[0] = s /\ \A i \in 1 .. n : g[i] = f[i][g[i - 1]]

\* There always is one.
LEMMA StepsExist ==
  ASSUME NEW n \in Nat, NEW S, NEW s \in S, NEW f \in [1 .. n -> [S -> S]]
  PROVE  \E g : Stepwise(n, S, s, f, g)
<1> DEFINE Good(k, g) == g[0] = s /\ \A i \in 1 .. k : g[i] = f[i][g[i - 1]]
           Bad == {k \in 0 .. n : ~ \E g \in [0 .. k -> S] : Good(k, g)}
<1>1. SUFFICES ASSUME Bad # {} PROVE FALSE
  <2>1. n \in 0 .. n
    OBVIOUS
  <2>2. SUFFICES ASSUME Bad = {} PROVE \E g : Stepwise(n, S, s, f, g)
    OBVIOUS
  <2>3. PICK g \in [0 .. n -> S] : Good(n, g)
    BY <2>1, <2>2
  <2> QED BY <2>3 DEF Stepwise
<1>2. PICK k \in Bad : \A j \in Bad : k <= j
  <2>1. Bad \in SUBSET Nat
    OBVIOUS
  <2> HIDE DEF Bad
  <2> QED BY <1>1, <2>1, SomeNumberIsFirst
<1>3. CASE k = 0
  <2> DEFINE g == [i \in 0 .. 0 |-> s]
  <2>1. g \in [0 .. k -> S] /\ Good(k, g)
    BY <1>3
  <2> QED BY <1>2, <2>1
<1>4. CASE k # 0
  <2>1. k - 1 \in 0 .. n /\ k - 1 \notin Bad
    BY <1>2, <1>4
  <2>2. PICK g \in [0 .. k - 1 -> S] : Good(k - 1, g)
    BY <2>1
  <2> DEFINE h == [i \in 0 .. k |-> IF i < k THEN g[i] ELSE f[k][g[k - 1]]]
  <2>3. f[k][g[k - 1]] \in S /\ k \in 1 .. n
    BY <1>2, <1>4
  <2>4. h \in [0 .. k -> S]
    BY <1>2, <1>4, <2>3
  <2>5. \A i \in 0 .. k - 1 : h[i] = g[i]
    BY <1>2, <1>4
  <2>6. h[k] = f[k][g[k - 1]]
    BY <1>2, <1>4
  <2>7. Good(k, h)
    <3>1. h[0] = s
      BY <1>2, <1>4, <2>2, <2>5
    <3>2. ASSUME NEW i \in 1 .. k PROVE h[i] = f[i][h[i - 1]]
      <4> HIDE DEF h
      <4>1. CASE i = k
        <5>1. k - 1 \in 0 .. k - 1
          BY <1>2, <1>4
        <5> QED BY <2>5, <2>6, <4>1, <5>1
      <4>2. CASE i # k
        <5>1. i \in 1 .. k - 1 /\ i - 1 \in 0 .. k - 1 /\ i \in 0 .. k - 1
          BY <1>2, <4>2
        <5> QED BY <2>2, <2>5, <5>1
      <4> QED BY <4>1, <4>2
    <3> QED BY <3>1, <3>2
  <2> HIDE DEF h
  <2> QED BY <1>2, <2>4, <2>7
<1> QED BY <1>3, <1>4

\* Numbers are reached one by one.
LEMMA OneByOne ==
  ASSUME NEW n \in Nat, NEW S, 0 \in S, \A i \in 1 .. n : i - 1 \in S => i \in S
  PROVE  \A i \in 0 .. n : i \in S
<1> DEFINE Bad == {k \in 0 .. n : k \notin S}
<1>1. SUFFICES ASSUME Bad # {} PROVE FALSE
  OBVIOUS
<1>2. PICK k \in Bad : \A j \in Bad : k <= j
  <2>1. Bad \in SUBSET Nat
    OBVIOUS
  <2> HIDE DEF Bad
  <2> QED BY <1>1, <2>1, SomeNumberIsFirst
<1>3. k # 0
  BY <1>2
<1>4. k \in 1 .. n /\ k - 1 \in 0 .. n /\ k - 1 \notin Bad
  BY <1>2, <1>3
<1> QED BY <1>2, <1>4

\* What holds of the first value and survives each step holds of every value.
LEMMA StepsKeep ==
  ASSUME NEW n \in Nat, NEW S, NEW g, g[0] \in S, \A i \in 1 .. n : g[i - 1] \in S => g[i] \in S
  PROVE  \A i \in 0 .. n : g[i] \in S
<1> DEFINE T == {i \in 0 .. n : g[i] \in S}
<1>1. 0 \in T /\ \A i \in 1 .. n : i - 1 \in T => i \in T
  OBVIOUS
<1>2. \A i \in 0 .. n : i \in T
  <2> HIDE DEF T
  <2> QED BY <1>1, OneByOne
<1> QED BY <1>2

-----------------------------------------------------------------------------
(* What is written is bytes *)

Bytes == Seq(Nat)

\* A number that fits in two bytes: every length here.
Short(v) == v \in Nat /\ v <= 65535

IsScript(s) == s \in Bytes /\ Short(Len(s))

\* Numbers of a byte are bytes, as none are.
LEMMA OctetsAreBytes ==
  <<>> \in Bytes /\ \A s \in Seq(0 .. 255) : s \in Bytes
<1>1. 0 .. 255 \subseteq Nat
  OBVIOUS
<1>2. \A s \in Seq(0 .. 255) : s \in Seq(Nat)
  BY <1>1, SeqMonotonic
<1> QED BY <1>2, EmptySeq DEF Bytes

\* A number that is shifted byte by byte.
LEMMA ShiftsAre ==
  ASSUME NEW v \in Int, NEW n \in Nat
  PROVE  /\ Shifts(v, n)[0] = v /\ \A i \in 1 .. n : Shifts(v, n)[i] = Shifts(v, n)[i - 1] \div 256
         /\ \A i \in 0 .. n : Shifts(v, n)[i] \in Int
<1> DEFINE Shift(g) == g = [i \in 0 .. n |-> IF i = 0 THEN v ELSE g[i - 1] \div 256]
           shift == CHOOSE g : Shift(g)
<1>1. \E g : Shift(g)
  <2> DEFINE f == [i \in 1 .. n |-> [x \in Int |-> x \div 256]]
  <2>1. f \in [1 .. n -> [Int -> Int]]
    OBVIOUS
  <2>2. PICK g \in [0 .. n -> Int] : g[0] = v /\ \A i \in 1 .. n : g[i] = f[i][g[i - 1]]
    <3> HIDE DEF f
    <3>1. \E g : Stepwise(n, Int, v, f, g)
      BY <2>1, StepsExist
    <3> QED BY <3>1 DEF Stepwise
  <2>3. \A i \in 0 .. n : g[i] = IF i = 0 THEN v ELSE g[i - 1] \div 256
    <3>1. ASSUME NEW i \in 1 .. n PROVE g[i] = g[i - 1] \div 256
      <4>1. g[i - 1] \in Int
        OBVIOUS
      <4>2. f[i][g[i - 1]] = g[i - 1] \div 256
        BY <4>1
      <4> QED BY <2>2, <4>2
    <3> QED BY <2>2, <3>1
  <2>4. g = [i \in 0 .. n |-> g[i]]
    OBVIOUS
  <2> QED BY <2>3, <2>4
<1>2. Shift(shift)
  <2> HIDE DEF Shift
  <2> QED BY <1>1
<1>3. Shifts(v, n) = shift
  BY DEF Shifts
<1> HIDE DEF shift
<1>4. shift[0] = v /\ \A i \in 1 .. n : shift[i] = shift[i - 1] \div 256
  BY <1>2
<1>5. \A i \in 0 .. n : shift[i] \in Int
  <2>1. \A i \in 1 .. n : shift[i - 1] \in Int => shift[i] \in Int
    BY <1>4
  <2> QED BY <1>4, <2>1, StepsKeep
<1> QED BY <1>3, <1>4, <1>5

\* A number that is shifted does not grow, and a smaller one stays smaller: what
\* is not more than a number that fits does.
LEMMA SmallerFits ==
  ASSUME NEW v \in Nat, NEW w \in Nat, v <= w, NEW n \in Nat
  PROVE  /\ \A i \in 0 .. n : Shifts(v, n)[i] \in Nat /\ Shifts(v, n)[i] <= v
         /\ Fits(w, n) => Fits(v, n)
<1> DEFINE a == Shifts(v, n)
           b == Shifts(w, n)
           S == {i \in 0 .. n : a[i] \in Nat /\ b[i] \in Nat /\ a[i] <= v /\ a[i] <= b[i]}
<1>1. a[0] = v /\ b[0] = w /\ \A i \in 1 .. n : a[i] = a[i - 1] \div 256 /\ b[i] = b[i - 1] \div 256
  BY ShiftsAre
<1> HIDE DEF a, b
<1>2. 0 \in S
  BY <1>1
<1>3. ASSUME NEW i \in 1 .. n, i - 1 \in S PROVE i \in S
  <2>1. \A x, y \in Nat : x <= y => x \div 256 \in Nat /\ y \div 256 \in Nat /\ x \div 256 <= x /\ x \div 256 <= y \div 256
    OBVIOUS
  <2>2. a[i - 1] \in Nat /\ b[i - 1] \in Nat /\ a[i - 1] <= v /\ a[i - 1] <= b[i - 1]
    BY <1>3
  <2>3. a[i] \in Nat /\ b[i] \in Nat /\ a[i] <= a[i - 1] /\ a[i] <= b[i]
    BY <1>1, <2>1, <2>2
  <2> QED BY <2>2, <2>3
<1>4. \A i \in 0 .. n : i \in S
  <2> HIDE DEF S
  <2> QED BY <1>2, <1>3, OneByOne
<1>5. Fits(w, n) => Fits(v, n)
  BY <1>4 DEF Fits, a, b
<1> QED BY <1>4, <1>5 DEF a

\* An integer is written as n bytes.
LEMMA LEIsBytes ==
  ASSUME NEW v \in Int, NEW n \in Nat
  PROVE  /\ LE(v, n) \in Bytes /\ Len(LE(v, n)) = n
         /\ \A i \in 1 .. n : LE(v, n)[i] = Shifts(v, n)[i - 1] % 256
<1> DEFINE shift == Shifts(v, n)
<1>1. LE(v, n) = [i \in 1 .. n |-> shift[i - 1] % 256]
  BY DEF LE
<1>2. \A i \in 1 .. n : shift[i - 1] % 256 \in Nat
  <2>1. \A i \in 1 .. n : i - 1 \in 0 .. n
    OBVIOUS
  <2>2. \A i \in 0 .. n : shift[i] \in Int
    BY ShiftsAre
  <2> HIDE DEF shift
  <2> QED BY <2>1, <2>2
<1> HIDE DEF shift
<1>3. LE(v, n) \in Bytes /\ Len(LE(v, n)) = n /\ \A i \in 1 .. n : LE(v, n)[i] = shift[i - 1] % 256
  BY <1>1, <1>2 DEF Bytes
<1> QED BY <1>3 DEF shift

\* The widths that are written: 2, 4 and 8 bytes.
LEMMA WidthsAreBytes ==
  ASSUME NEW v \in Int
  PROVE  /\ LE(v, 2) \in Bytes /\ Len(LE(v, 2)) = 2
         /\ LE(v, 4) \in Bytes /\ Len(LE(v, 4)) = 4
         /\ LE(v, 8) \in Bytes /\ Len(LE(v, 8)) = 8
<1>1. \A n \in Nat : LE(v, n) \in Bytes /\ Len(LE(v, n)) = n
  BY LEIsBytes
<1> DEFINE two == 2
           four == 4
           eight == 8
<1>2. two \in Nat /\ four \in Nat /\ eight \in Nat
  OBVIOUS
<1> HIDE DEF two, four, eight
<1>3. /\ LE(v, two) \in Bytes /\ Len(LE(v, two)) = two
      /\ LE(v, four) \in Bytes /\ Len(LE(v, four)) = four
      /\ LE(v, eight) \in Bytes /\ Len(LE(v, eight)) = eight
  BY <1>1, <1>2
<1> QED BY <1>3 DEF two, four, eight

\* Bytes after bytes are bytes.
LEMMA ConcatIsBytes ==
  ASSUME NEW s \in Bytes, NEW t \in Bytes
  PROVE  s \o t \in Bytes /\ Len(s \o t) = Len(s) + Len(t)
BY ConcatProperties DEF Bytes

\* Concatenation is associative.
LEMMA BytesAssociate ==
  ASSUME NEW r \in Seq(Nat), NEW s \in Seq(Nat), NEW t \in Seq(Nat)
  PROVE  (r \o s) \o t = r \o (s \o t)
<1>1. /\ Len((r \o s) \o t) = Len(r \o (s \o t))
      /\ r \o s \in Seq(Nat) /\ s \o t \in Seq(Nat)
      /\ (r \o s) \o t \in Seq(Nat) /\ r \o (s \o t) \in Seq(Nat)
  BY ConcatProperties
<1>2. \A i \in 1 .. Len((r \o s) \o t) : ((r \o s) \o t)[i] = (r \o (s \o t))[i]
  BY ConcatProperties
<1> QED BY <1>1, <1>2, SeqEqual

\* What the first k of some blocks of bytes are, one after the other.
Joins(s, join) ==
  /\ join \in [0 .. Len(s) -> Bytes] /\ join[0] = <<>>
  /\ \A i \in 1 .. Len(s) : join[i] = join[i - 1] \o s[i]

\* What is written for each element of a sequence is written one after the
\* other.
LEMMA FlattenJoins ==
  ASSUME NEW s \in Seq(Bytes)
  PROVE  \E join : Joins(s, join) /\ FlattenSeq(s) = join[Len(s)]
<1>1. Len(s) \in Nat /\ \A i \in 1 .. Len(s) : s[i] \in Bytes
  BY LenProperties
<1>0. <<>> \in Bytes
  BY OctetsAreBytes
<1>2. CASE Len(s) = 0
  <2> DEFINE join == [i \in 0 .. 0 |-> <<>>]
  <2>1. s = <<>>
    BY <1>2, EmptySeq
  <2>2. FlattenSeq(s) = <<>>
    BY <1>2, <2>1 DEF FlattenSeq
  <2>3. Joins(s, join) /\ join[Len(s)] = <<>>
    BY <1>0, <1>2 DEF Joins
  <2> QED BY <2>2, <2>3
<1>3. CASE Len(s) # 0
  <2> DEFINE n == Len(s)
             Flat(g) == g = [i \in 1 .. n |-> IF i = 1 THEN s[i] ELSE g[i - 1] \o s[i]]
             flat == CHOOSE g : Flat(g)
  <2>1. n \in Nat /\ n - 1 \in Nat /\ \A i \in 1 .. n : s[i] \in Bytes
    BY <1>1, <1>3
  <2>2. FlattenSeq(s) = flat[n]
    BY <1>3 DEF FlattenSeq
  <2> HIDE DEF n
  <2>3. \E g : Flat(g)
    <3> DEFINE m == n - 1
               f == [i \in 1 .. m |-> [x \in Bytes |-> x \o s[i + 1]]]
    <3>1. f \in [1 .. m -> [Bytes -> Bytes]]
      <4>1. ASSUME NEW i \in 1 .. m, NEW x \in Bytes PROVE x \o s[i + 1] \in Bytes
        <5>1. s[i + 1] \in Bytes
          BY <2>1
        <5> QED BY <5>1, ConcatIsBytes
      <4> QED BY <4>1
    <3>2. s[1] \in Bytes /\ m \in Nat
      BY <1>3, <2>1 DEF n
    <3>3. PICK g : Stepwise(m, Bytes, s[1], f, g)
      <4> HIDE DEF f, m
      <4> QED BY <3>1, <3>2, StepsExist
    <3>4. g \in [0 .. m -> Bytes] /\ g[0] = s[1] /\ \A i \in 1 .. m : g[i] = g[i - 1] \o s[i + 1]
      <4>1. g \in [0 .. m -> Bytes] /\ g[0] = s[1] /\ \A i \in 1 .. m : g[i] = f[i][g[i - 1]]
        <5> HIDE DEF f, m
        <5> QED BY <3>3 DEF Stepwise
      <4>2. ASSUME NEW i \in 1 .. m PROVE f[i][g[i - 1]] = g[i - 1] \o s[i + 1]
        <5>1. g[i - 1] \in Bytes
          <6>1. i - 1 \in 0 .. m
            BY <3>2
          <6> HIDE DEF f, m
          <6> QED BY <4>1, <6>1
        <5> QED BY <5>1
      <4> QED BY <4>1, <4>2
    <3> DEFINE h == [i \in 1 .. n |-> g[i - 1]]
    <3>5. ASSUME NEW i \in 1 .. n PROVE h[i] = IF i = 1 THEN s[i] ELSE h[i - 1] \o s[i]
      <4>1. CASE i = 1
        BY <2>1, <3>4, <4>1
      <4>2. CASE i # 1
        <5>1. i - 1 \in 1 .. m /\ i - 1 \in 1 .. n /\ i - 1 + 1 = i
          BY <2>1, <4>2
        <5>2. h[i] = g[i - 1] /\ h[i - 1] = g[i - 1 - 1]
          BY <5>1
        <5>3. g[i - 1] = g[i - 1 - 1] \o s[i - 1 + 1]
          <6> HIDE DEF m
          <6> QED BY <3>4, <5>1
        <5> HIDE DEF h
        <5> QED BY <4>2, <5>1, <5>2, <5>3
      <4> QED BY <4>1, <4>2
    <3>6. h = [i \in 1 .. n |-> h[i]]
      OBVIOUS
    <3> HIDE DEF h
    <3>7. Flat(h)
      BY <3>5, <3>6
    <3> QED BY <3>7
  <2>4. Flat(flat)
    <3> HIDE DEF Flat
    <3> QED BY <2>3
  <2> HIDE DEF flat
  <2>5. \A i \in 1 .. n : flat[i] = IF i = 1 THEN s[i] ELSE flat[i - 1] \o s[i]
    BY <2>4
  <2> DEFINE join == [i \in 0 .. n |-> IF i = 0 THEN <<>> ELSE flat[i]]
  <2>6. join[0] = <<>> /\ join[n] = flat[n]
    BY <1>3, <2>1 DEF n
  <2>7. ASSUME NEW i \in 1 .. n PROVE join[i] = join[i - 1] \o s[i]
    <3>1. i \in 0 .. n /\ i # 0 /\ i - 1 \in 0 .. n
      BY <2>1
    <3>2. join[i] = flat[i]
      BY <3>1
    <3>3. CASE i = 1
      <4>1. <<>> \o s[i] = s[i]
        BY <2>1, ConcatEmptySeq DEF Bytes
      <4>2. flat[i] = s[i]
        BY <2>5, <3>3
      <4>3. join[i - 1] = <<>>
        BY <2>6, <3>3
      <4> HIDE DEF join
      <4> QED BY <3>2, <4>1, <4>2, <4>3, Zenon
    <3>4. CASE i # 1
      <4>1. i - 1 # 0
        BY <2>1, <3>4
      <4>2. join[i - 1] = flat[i - 1]
        BY <3>1, <4>1
      <4>3. flat[i] = flat[i - 1] \o s[i]
        BY <2>5, <3>4, Zenon
      <4> HIDE DEF join
      <4> QED BY <3>2, <4>2, <4>3
    <3> QED BY <3>3, <3>4
  <2>8. join = [i \in 0 .. n |-> join[i]]
    OBVIOUS
  <2> HIDE DEF join
  <2>9. \A i \in 0 .. n : join[i] \in Bytes
    <3>1. ASSUME NEW i \in 1 .. n, join[i - 1] \in Bytes PROVE join[i] \in Bytes
      BY <2>1, <2>7, <3>1, ConcatIsBytes
    <3> QED BY <1>0, <2>1, <2>6, <3>1, StepsKeep
  <2>10. Joins(s, join)
    BY <2>6, <2>7, <2>8, <2>9 DEF Joins, n
  <2> QED BY <2>2, <2>6, <2>10 DEF n
<1> QED BY <1>1, <1>2, <1>3

\* So it is bytes.
LEMMA FlattenIsBytes ==
  ASSUME NEW s \in Seq(Bytes)
  PROVE  FlattenSeq(s) \in Bytes
<1>1. PICK join : Joins(s, join) /\ FlattenSeq(s) = join[Len(s)]
  BY FlattenJoins
<1>2. Len(s) \in 0 .. Len(s)
  BY LenProperties
<1> QED BY <1>1, <1>2 DEF Joins

-----------------------------------------------------------------------------
(* What is read ends where it must *)

\* A field is read forwards, or the bytes are truncated.
Advances(at, next) == next = Truncated \/ (at # Truncated /\ at <= next)

\* One field after the other is read forwards.
LEMMA AdvancesOn ==
  ASSUME NEW a \in Int, NEW b \in Int, NEW c \in Int, Advances(a, b), Advances(b, c)
  PROVE  Advances(a, c)
BY DEF Advances, Truncated

\* So is a field that is repeated, however often.
LEMMA StepsAdvance ==
  ASSUME NEW end \in Nat, NEW n \in Nat, NEW start \in Truncated .. end,
         NEW step \in [Truncated .. end -> Truncated .. end],
         \A at \in Truncated .. end : Advances(at, step[at])
  PROVE  /\ Steps(n, start, end, step) \in Truncated .. end
         /\ Advances(start, Steps(n, start, end, step))
<1> DEFINE D == Truncated .. end
           After(g) == g = [i \in 0 .. n |-> IF i = 0 THEN start ELSE step[g[i - 1]]]
           after == CHOOSE g : After(g)
<1>1. \E g : After(g)
  <2> DEFINE f == [i \in 1 .. n |-> step]
  <2>1. f \in [1 .. n -> [D -> D]]
    OBVIOUS
  <2>2. PICK g : Stepwise(n, D, start, f, g)
    <3> HIDE DEF D, f
    <3> QED BY <2>1, StepsExist DEF D
  <2>3. g = [i \in 0 .. n |-> g[i]] /\ g[0] = start /\ \A i \in 1 .. n : g[i] = f[i][g[i - 1]]
    <3> HIDE DEF D, f
    <3> QED BY <2>2 DEF Stepwise
  <2>4. \A i \in 0 .. n : g[i] = IF i = 0 THEN start ELSE step[g[i - 1]]
    BY <2>3
  <2>5. After(g)
    BY <2>3, <2>4
  <2> QED BY <2>5
<1>2. After(after)
  <2> HIDE DEF After
  <2> QED BY <1>1
<1>3. Steps(n, start, end, step) =
        IF start = Truncated \/ n > end - start THEN Truncated ELSE after[n]
  BY DEF Steps
<1> HIDE DEF after
<1>4. after[0] = start /\ \A i \in 1 .. n : after[i] = step[after[i - 1]]
  BY <1>2
<1> DEFINE Good == {at \in D : Advances(start, at)}
<1>5. \A i \in 0 .. n : after[i] \in Good
  <2>1. after[0] \in Good
    BY <1>4 DEF Advances, Truncated
  <2>2. ASSUME NEW i \in 1 .. n, after[i - 1] \in Good PROVE after[i] \in Good
    <3>1. after[i] = step[after[i - 1]] /\ step[after[i - 1]] \in D /\ Advances(after[i - 1], after[i])
      BY <1>4, <2>2
    <3>2. Advances(start, after[i])
      <4>1. D \subseteq Int /\ start \in D
        BY DEF Truncated
      <4>2. after[i - 1] \in D /\ Advances(start, after[i - 1])
        BY <2>2
      <4>3. after[i] \in D /\ Advances(after[i - 1], after[i])
        BY <3>1
      <4> HIDE DEF D, Good
      <4> QED BY <4>1, <4>2, <4>3, AdvancesOn
    <3> QED BY <3>1, <3>2
  <2> HIDE DEF Good
  <2> QED BY <2>1, <2>2, StepsKeep
<1>6. after[n] \in Good
  <2>1. n \in 0 .. n
    OBVIOUS
  <2> HIDE DEF Good
  <2> QED BY <1>5, <2>1
<1>7. Truncated \in Good
  BY DEF Advances, Truncated
<1> QED BY <1>3, <1>6, <1>7

\* How a number is read: from its highest byte, and no further than Far.
Reads(s, g) ==
  /\ g \in [0 .. Len(s) -> Nat] /\ g[0] = 0
  /\ \A k \in 1 .. Len(s) :
       LET v == 256 * g[k - 1] + s[Len(s) + 1 - k] IN g[k] = IF v < Far THEN v ELSE Far

\* That is what LittleEndian does.
LEMMA LittleEndianReads ==
  ASSUME NEW s \in Bytes
  PROVE  \E g : Reads(s, g) /\ LittleEndian(s) = g[Len(s)]
<1> DEFINE n == Len(s)
           Next(k, x) == IF 256 * x + s[n + 1 - k] < Far THEN 256 * x + s[n + 1 - k] ELSE Far
           UpTo(g) == g = [k \in 0 .. n |-> IF k = 0 THEN 0 ELSE Next(k, g[k - 1])]
           upTo == CHOOSE g : UpTo(g)
<1>1. n \in Nat /\ \A k \in 1 .. n : s[n + 1 - k] \in Nat
  <2>1. Len(s) \in Nat /\ \A i \in 1 .. Len(s) : s[i] \in Nat
    BY LenProperties DEF Bytes
  <2>2. \A k \in 1 .. n : n + 1 - k \in 1 .. n
    BY <2>1
  <2> QED BY <2>1, <2>2
<1> HIDE DEF n
<1>2. ASSUME NEW k \in 1 .. n, NEW x \in Nat PROVE Next(k, x) \in Nat
  <2>1. 256 * x + s[n + 1 - k] \in Nat /\ Far \in Nat
    BY <1>1, LengthAssumption
  <2> QED BY <2>1
<1> HIDE DEF Next
<1>3. \E g : UpTo(g)
  <2> DEFINE f == [k \in 1 .. n |-> [x \in Nat |-> Next(k, x)]]
  <2>1. f \in [1 .. n -> [Nat -> Nat]]
    BY <1>2
  <2>2. PICK g : Stepwise(n, Nat, 0, f, g)
    <3> HIDE DEF f
    <3> QED BY <1>1, <2>1, StepsExist
  <2>3. g \in [0 .. n -> Nat] /\ g[0] = 0 /\ \A k \in 1 .. n : g[k] = f[k][g[k - 1]]
    <3> HIDE DEF f
    <3> QED BY <2>2 DEF Stepwise
  <2>4. \A k \in 0 .. n : g[k] = IF k = 0 THEN 0 ELSE Next(k, g[k - 1])
    <3>1. ASSUME NEW k \in 1 .. n PROVE g[k] = Next(k, g[k - 1])
      <4>1. g[k - 1] \in Nat
        BY <1>1, <2>3
      <4>2. f[k][g[k - 1]] = Next(k, g[k - 1])
        BY <4>1
      <4> HIDE DEF f
      <4> QED BY <2>3, <4>2
    <3> QED BY <1>1, <2>3, <3>1
  <2>5. g = [k \in 0 .. n |-> g[k]]
    BY <2>3
  <2>6. UpTo(g)
    BY <2>4, <2>5
  <2> QED BY <2>6
<1>4. UpTo(upTo)
  <2> HIDE DEF UpTo
  <2> QED BY <1>3
<1>5. LittleEndian(s) = upTo[n]
  BY DEF LittleEndian, n, Next
<1> HIDE DEF upTo
<1>6. upTo[0] = 0 /\ \A k \in 1 .. n : upTo[k] = Next(k, upTo[k - 1])
  BY <1>1, <1>4
<1>7. \A k \in 0 .. n : upTo[k] \in Nat
  <2>1. upTo[0] \in Nat /\ \A k \in 1 .. n : upTo[k - 1] \in Nat => upTo[k] \in Nat
    BY <1>2, <1>6
  <2> QED BY <1>1, <2>1, StepsKeep
<1>8. upTo \in [0 .. n -> Nat]
  BY <1>4, <1>7
<1>9. Reads(s, upTo)
  BY <1>6, <1>8 DEF Reads, n, Next
<1> QED BY <1>5, <1>9 DEF n

\* A number that is read is one.
LEMMA LittleEndianIsNat ==
  ASSUME NEW s \in Bytes
  PROVE  LittleEndian(s) \in Nat
<1>1. PICK g : Reads(s, g) /\ LittleEndian(s) = g[Len(s)]
  BY LittleEndianReads
<1>2. Len(s) \in 0 .. Len(s)
  BY LenProperties DEF Bytes
<1> QED BY <1>1, <1>2 DEF Reads

\* A number that was written in n bytes, and fits, is read as it was.
LEMMA LittleEndianInverts ==
  ASSUME NEW v \in Nat, v < Far, NEW n \in Nat, Fits(v, n)
  PROVE  LittleEndian(LE(v, n)) = v
<1> DEFINE s == LE(v, n)
           shift == Shifts(v, n)
<1>1. s \in Bytes /\ Len(s) = n /\ \A i \in 1 .. n : s[i] = shift[i - 1] % 256
  BY LEIsBytes
<1>2. /\ shift[0] = v /\ \A i \in 1 .. n : shift[i] = shift[i - 1] \div 256
      /\ \A i \in 0 .. n : shift[i] \in Nat /\ shift[i] <= v
  <2>1. v <= v
    OBVIOUS
  <2> QED BY <2>1, ShiftsAre, SmallerFits
<1>3. shift[n] = 0
  BY DEF Fits
<1>4. PICK g : Reads(s, g) /\ LittleEndian(s) = g[Len(s)]
  BY <1>1, LittleEndianReads
<1> HIDE DEF s, shift
<1> DEFINE S == {k \in 0 .. n : g[k] = shift[n - k]}
<1>5. 0 \in S
  BY <1>3, <1>4 DEF Reads
<1>6. ASSUME NEW k \in 1 .. n, k - 1 \in S PROVE k \in S
  <2> DEFINE j == n - k
  <2>1. j \in 0 .. n /\ j + 1 \in 1 .. n /\ n - (k - 1) = j + 1 /\ n + 1 - k = j + 1 /\ j + 1 - 1 = j
    OBVIOUS
  <2>2. g[k - 1] = shift[j + 1]
    BY <1>6, <2>1
  <2>3. shift[j + 1] = shift[j] \div 256 /\ s[j + 1] = shift[j] % 256
    BY <1>1, <1>2, <2>1
  <2>4. g[k] = IF 256 * g[k - 1] + s[j + 1] < Far THEN 256 * g[k - 1] + s[j + 1] ELSE Far
    BY <1>1, <1>4, <2>1 DEF Reads
  <2>5. shift[j] \in Nat /\ shift[j] <= v
    BY <1>2, <2>1
  <2> HIDE DEF j
  <2>6. 256 * (shift[j] \div 256) + (shift[j] % 256) = shift[j]
    BY <2>5
  <2>7. 256 * g[k - 1] + s[j + 1] = shift[j]
    BY <2>2, <2>3, <2>6
  <2>8. shift[j] < Far
    BY <2>5, LengthAssumption
  <2>9. g[k] = shift[j]
    BY <2>4, <2>7, <2>8
  <2> QED BY <2>9 DEF j
<1>7. \A k \in 0 .. n : k \in S
  <2> HIDE DEF S
  <2> QED BY <1>5, <1>6, OneByOne
<1>8. n \in S /\ n - n = 0
  BY <1>7
<1> QED BY <1>1, <1>2, <1>4, <1>8 DEF s

\* A compact size takes a byte at least, and what is truncated has no value.
LEMMA CompactAdvances ==
  ASSUME NEW raw \in Bytes, NEW end \in Nat, end <= Len(raw), NEW at \in Truncated .. end
  PROVE  LET c == ReadCompact(raw, at, end)
         IN  /\ c.value \in Nat /\ c.at \in Truncated .. end /\ Advances(at, c.at)
             /\ c.at = Truncated => c.value = 0
<1> DEFINE c == ReadCompact(raw, at, end)
           short == at = Truncated \/ at >= end \/ end - at - 1 < CompactWidth(raw[at + 1])
           width == CompactWidth(raw[at + 1])
<1>1. width \in {0, 2, 4, 8}
  BY DEF CompactWidth
<1>2. Len(raw) \in Nat /\ \A i \in 1 .. Len(raw) : raw[i] \in Nat
  BY LenProperties DEF Bytes
<1>3. CASE short
  <2>1. c = [value |-> 0, at |-> Truncated]
    BY <1>3 DEF ReadCompact
  <2> QED BY <2>1 DEF Advances, Truncated
<1>4. CASE ~short
  <2>1. at \in 0 .. end - 1 /\ at + 1 + width <= end /\ at # Truncated
    <3> HIDE DEF width
    <3>1. at \in Int /\ at # -1 /\ at >= -1 /\ ~(at >= end) /\ ~(end - at - 1 < width)
      BY <1>4 DEF Truncated, width
    <3> QED BY <1>1, <1>4, <3>1
  <2> DEFINE v == IF width = 0 THEN raw[at + 1] ELSE LittleEndian(SubSeq(raw, at + 2, at + 1 + width))
  <2>2. c = [value |-> v, at |-> at + 1 + width]
    BY <1>4 DEF ReadCompact
  <2>3. v \in Nat
    <3> HIDE DEF width
    <3>1. raw[at + 1] \in Nat
      BY <1>2, <2>1, <1>1
    <3>2. SubSeq(raw, at + 2, at + 1 + width) \in Bytes
      <4>1. at + 2 \in Int /\ at + 1 + width \in Int
        BY <1>1, <2>1
      <4>2. \A i \in at + 2 .. at + 1 + width : raw[i] \in Nat
        <5>1. \A i \in at + 2 .. at + 1 + width : i \in 1 .. Len(raw)
          BY <1>1, <1>2, <2>1
        <5> QED BY <1>2, <5>1
      <4> QED BY <4>1, <4>2, SubSeqProperties DEF Bytes
    <3> QED BY <3>1, <3>2, LittleEndianIsNat
  <2> HIDE DEF v, width
  <2>4. c.value = v /\ c.at = at + 1 + width
    BY <2>2
  <2> HIDE DEF c
  <2>5. at + 1 + width \in Nat /\ at + 1 + width >= at
    BY <1>1, <2>1
  <2> QED BY <2>1, <2>3, <2>4, <2>5 DEF Advances, Truncated, c
<1> QED BY <1>3, <1>4

\* So do bytes that are skipped.
LEMMA SkipAdvances ==
  ASSUME NEW end \in Nat, NEW at \in Truncated .. end, NEW length \in Nat
  PROVE  Skip(at, length, end) \in Truncated .. end /\ Advances(at, Skip(at, length, end))
BY DEF Skip, Advances, Truncated

\* Whatever bytes are read: where TxIDFromBIP144 gives an identifier, its walk
\* has left the outputs after the marker and before the lock time, and the
\* identifier is what lies around the marker, the flag and the witnesses.
LEMMA WalkEndsAtLockTime ==
  ASSUME NEW raw \in Bytes, TxIDFromBIP144(raw) # NoTxID
  PROVE  /\ HasMarker(raw)
         /\ \E w \in 6 .. Len(raw) - 4 :
              TxIDFromBIP144(raw) = SubSeq(raw, 1, 4) \o SubSeq(raw, 7, w)
                                      \o SubSeq(raw, Len(raw) - 4 + 1, Len(raw))
<1> DEFINE end            == Len(raw) - 4
           Compact(at)    == ReadCompact(raw, at, end)
           Over(at, n)    == Skip(at, n, end)
           Sized(at)      == Over(Compact(at).at, Compact(at).value)
           cursors        == Truncated .. end
           input          == [at \in cursors |-> Over(Sized(Over(at, 36)), 4)]
           output         == [at \in cursors |-> Sized(Over(at, 8))]
           item           == [at \in cursors |-> Sized(at)]
           stack          == [at \in cursors |-> Steps(Compact(at).value, Compact(at).at, end, item)]
           inputs         == Compact(6)
           afterInputs    == Steps(inputs.value, inputs.at, end, input)
           outputs        == Compact(afterInputs)
           witnessStart   == Steps(outputs.value, outputs.at, end, output)
           walked         == Steps(inputs.value, witnessStart, end, stack)
           id             == SubSeq(raw, 1, 4) \o SubSeq(raw, 7, witnessStart) \o SubSeq(raw, end + 1, Len(raw))
<1>1. TxIDFromBIP144(raw) =
        IF HasMarker(raw) /\ inputs.value > 0 /\ outputs.value > 0 /\ walked = end THEN id ELSE NoTxID
  BY DEF TxIDFromBIP144
<1>2. HasMarker(raw) /\ outputs.value > 0 /\ walked = end /\ TxIDFromBIP144(raw) = id
  <2> HIDE DEF inputs, outputs, walked, id
  <2> QED BY <1>1
<1>3. end \in Nat /\ end >= 8 /\ end <= Len(raw) /\ Len(raw) \in Nat
  <2>1. Len(raw) \in Nat
    BY LenProperties DEF Bytes
  <2>2. Len(raw) >= 12
    <3> HIDE DEF inputs, outputs, walked, id
    <3> QED BY <1>2 DEF HasMarker
  <2> HIDE DEF inputs, outputs, walked, id
  <2> QED BY <2>1, <2>2
<1>4. \A at \in cursors :
        /\ Compact(at).value \in Nat /\ Compact(at).at \in cursors /\ Advances(at, Compact(at).at)
        /\ Compact(at).at = Truncated => Compact(at).value = 0
  <2> HIDE DEF end
  <2> QED BY <1>3, CompactAdvances
<1>5. \A at \in cursors, n \in Nat : Over(at, n) \in cursors /\ Advances(at, Over(at, n))
  <2> HIDE DEF end
  <2> QED BY <1>3, SkipAdvances
<1> HIDE DEF Compact, Over
<1>0. \A at \in cursors : at \in Int
  BY <1>3 DEF Truncated
<1> HIDE DEF cursors
<1>6. \A at \in cursors : Sized(at) \in cursors /\ Advances(at, Sized(at))
  <2>1. ASSUME NEW at \in cursors PROVE Sized(at) \in cursors /\ Advances(at, Sized(at))
    <3>1. /\ Compact(at).value \in Nat /\ Compact(at).at \in cursors /\ Advances(at, Compact(at).at)
      BY <1>4
    <3>2. Sized(at) \in cursors /\ Advances(Compact(at).at, Sized(at))
      BY <1>5, <3>1
    <3> HIDE DEF Sized
    <3> QED BY <1>0, <3>1, <3>2, AdvancesOn
  <2> QED BY <2>1
<1> HIDE DEF Sized
<1>7. /\ input \in [cursors -> cursors] /\ \A at \in cursors : Advances(at, input[at])
      /\ output \in [cursors -> cursors] /\ \A at \in cursors : Advances(at, output[at])
      /\ item \in [cursors -> cursors] /\ \A at \in cursors : Advances(at, item[at])
  <2>1. ASSUME NEW at \in cursors, NEW n \in Nat
        PROVE  Sized(Over(at, n)) \in cursors /\ Advances(at, Sized(Over(at, n)))
    <3>1. Over(at, n) \in cursors /\ Advances(at, Over(at, n))
      BY <1>5
    <3>2. Sized(Over(at, n)) \in cursors /\ Advances(Over(at, n), Sized(Over(at, n)))
      BY <1>6, <3>1
    <3> QED BY <1>0, <3>1, <3>2, AdvancesOn
  <2>2. ASSUME NEW at \in cursors
        PROVE  Over(Sized(Over(at, 36)), 4) \in cursors /\ Advances(at, Over(Sized(Over(at, 36)), 4))
    <3> DEFINE b == Sized(Over(at, 36))
    <3>1. b \in cursors /\ Advances(at, b)
      BY <2>1
    <3> HIDE DEF b
    <3>2. Over(b, 4) \in cursors /\ Advances(b, Over(b, 4))
      BY <1>5, <3>1
    <3>3. Over(b, 4) \in cursors /\ Advances(at, Over(b, 4))
      BY <1>0, <3>1, <3>2, AdvancesOn
    <3> QED BY <3>3 DEF b
  <2>3. \A at \in cursors : Sized(Over(at, 8)) \in cursors /\ Advances(at, Sized(Over(at, 8)))
    BY <2>1
  <2> QED BY <1>6, <2>2, <2>3
<1> HIDE DEF input, output, item
<1>8. ASSUME NEW n \in Nat, NEW at \in cursors, NEW step \in [cursors -> cursors],
             \A a \in cursors : Advances(a, step[a])
      PROVE  Steps(n, at, end, step) \in cursors /\ Advances(at, Steps(n, at, end, step))
  <2> HIDE DEF end
  <2> QED BY <1>3, <1>8, StepsAdvance DEF cursors
<1>9. 6 \in cursors
  BY <1>3 DEF cursors, Truncated
<1>10. /\ inputs.value \in Nat /\ inputs.at \in cursors /\ Advances(6, inputs.at)
  BY <1>4, <1>9
<1> HIDE DEF inputs, end
<1>11. afterInputs \in cursors /\ Advances(6, afterInputs)
  <2>1. afterInputs \in cursors /\ Advances(inputs.at, afterInputs)
    BY <1>7, <1>8, <1>10
  <2> HIDE DEF afterInputs
  <2> QED BY <1>0, <1>9, <1>10, <2>1, AdvancesOn
<1> HIDE DEF afterInputs
<1>12. outputs.value \in Nat /\ outputs.at \in cursors /\ Advances(6, outputs.at)
  <2>1. outputs.value \in Nat /\ outputs.at \in cursors /\ Advances(afterInputs, outputs.at)
    BY <1>4, <1>11
  <2> HIDE DEF outputs
  <2> QED BY <1>0, <1>9, <1>11, <2>1, AdvancesOn
<1> HIDE DEF outputs
<1>13. witnessStart \in cursors /\ Advances(6, witnessStart)
  <2>1. witnessStart \in cursors /\ Advances(outputs.at, witnessStart)
    BY <1>7, <1>8, <1>12
  <2> HIDE DEF witnessStart
  <2> QED BY <1>0, <1>9, <1>12, <2>1, AdvancesOn
<1>14. witnessStart # Truncated
  <2> HIDE DEF witnessStart
  <2>1. ASSUME NEW n, NEW start, NEW last, NEW step, start = Truncated
        PROVE  Steps(n, start, last, step) = Truncated
    BY <2>1 DEF Steps
  <2>2. witnessStart = Truncated => walked = Truncated
    BY <2>1
  <2> HIDE DEF walked
  <2> QED BY <1>2, <1>3, <2>2 DEF Truncated
<1> HIDE DEF witnessStart
<1>15. witnessStart \in 6 .. end
  BY <1>3, <1>13, <1>14 DEF cursors, Advances, Truncated
<1> QED BY <1>2, <1>15 DEF end

\* Part of a sequence of bytes is bytes.
LEMMA SubSeqIsBytes ==
  ASSUME NEW s \in Bytes, NEW m \in Nat \ {0}, NEW n \in Int, n <= Len(s)
  PROVE  /\ SubSeq(s, m, n) \in Bytes
         /\ Len(SubSeq(s, m, n)) = IF m <= n THEN n - m + 1 ELSE 0
         /\ \A i \in 1 .. n - m + 1 : SubSeq(s, m, n)[i] = s[m + i - 1]
<1>1. Len(s) \in Nat /\ \A i \in 1 .. Len(s) : s[i] \in Nat
  BY LenProperties DEF Bytes
<1>2. \A i \in m .. n : s[i] \in Nat
  BY <1>1
<1> QED BY <1>2, SubSeqProperties DEF Bytes

\* Bytes that are the same, one by one, are the same bytes.
LEMMA SameBytes ==
  ASSUME NEW s \in Bytes, NEW t \in Bytes, Len(s) = Len(t), \A i \in 1 .. Len(s) : s[i] = t[i]
  PROVE  s = t
<1>1. s \in [1 .. Len(s) -> Nat] /\ t \in [1 .. Len(t) -> Nat]
  BY LenProperties DEF Bytes
<1> QED BY <1>1

\* Where each byte of a concatenation comes from.
IsConcat(id, s, t) ==
  /\ id \in Bytes /\ Len(id) = Len(s) + Len(t)
  /\ \A i \in 1 .. Len(s) + Len(t) : id[i] = IF i <= Len(s) THEN s[i] ELSE t[i - Len(s)]

\* It comes from one sequence and then from the other.
LEMMA ConcatIndexes ==
  ASSUME NEW s \in Bytes, NEW t \in Bytes
  PROVE  IsConcat(s \o t, s, t)
BY ConcatProperties DEF Bytes, IsConcat

\* Two sequences that agree in their first n bytes start alike.
LEMMA SameStart ==
  ASSUME NEW r \in Bytes, NEW t \in Bytes, NEW n \in Nat, n <= Len(r), n <= Len(t),
         \A i \in 1 .. n : r[i] = t[i]
  PROVE  SubSeq(r, 1, n) = SubSeq(t, 1, n)
<1> DEFINE x == SubSeq(r, 1, n)
           y == SubSeq(t, 1, n)
<1>1. 1 \in Nat \ {0} /\ n \in Int /\ (IF 1 <= n THEN n - 1 + 1 ELSE 0) = n /\ n - 1 + 1 = n
  OBVIOUS
<1>2. /\ x \in Bytes /\ Len(x) = (IF 1 <= n THEN n - 1 + 1 ELSE 0)
      /\ \A i \in 1 .. n - 1 + 1 : x[i] = r[1 + i - 1]
  BY <1>1, SubSeqIsBytes
<1>3. /\ y \in Bytes /\ Len(y) = (IF 1 <= n THEN n - 1 + 1 ELSE 0)
      /\ \A i \in 1 .. n - 1 + 1 : y[i] = t[1 + i - 1]
  BY <1>1, SubSeqIsBytes
<1> HIDE DEF x, y
<1>4. \A i \in 1 .. n : 1 + i - 1 = i
  OBVIOUS
<1>5. Len(x) = n /\ Len(y) = n
  BY <1>1, <1>2, <1>3
<1>6. \A i \in 1 .. n : x[i] = y[i]
  BY <1>1, <1>2, <1>3, <1>4
<1>7. x = y
  BY <1>2, <1>3, <1>5, <1>6, SameBytes
<1> QED BY <1>7 DEF x, y

\* What lies around the marker, the flag and the witnesses is all of the
\* transaction but those: where a field ends cannot be read in another way.
LEMMA OffersTheFields ==
  ASSUME NEW raw \in Bytes, TxIDFromBIP144(raw) # NoTxID
  PROVE  LET id == TxIDFromBIP144(raw)
             signedLen == Len(id) - 4
         IN  /\ SubSeq(raw, 1, signedLen + 2) = SubSeq(id, 1, 4) \o <<0, 1>> \o SubSeq(id, 5, signedLen)
             /\ IsSuffix(SubSeq(id, signedLen + 1, signedLen + 4), raw)
<1> DEFINE id == TxIDFromBIP144(raw)
           L  == Len(raw)
<1>1. L \in Nat /\ L >= 12 /\ raw[5] = 0 /\ raw[6] = 1
  BY WalkEndsAtLockTime, LenProperties DEF Bytes, HasMarker
<1>2. PICK w \in 6 .. L - 4 :
        id = SubSeq(raw, 1, 4) \o SubSeq(raw, 7, w) \o SubSeq(raw, L - 4 + 1, L)
  BY WalkEndsAtLockTime
<1> HIDE DEF id
<1> DEFINE version == SubSeq(raw, 1, 4)
           fields  == SubSeq(raw, 7, w)
           time    == SubSeq(raw, L - 4 + 1, L)
<1>0. id = version \o fields \o time
  BY <1>2
<1>3. /\ version \in Bytes /\ Len(version) = 4
      /\ \A i \in 1 .. 4 : version[i] = raw[i]
  <2>1. 1 <= 4 /\ 4 <= Len(raw) /\ 4 - 1 + 1 = 4
    BY <1>1
  <2>2. \A i \in 1 .. 4 : 1 + i - 1 = i
    OBVIOUS
  <2> QED BY <2>1, <2>2, SubSeqIsBytes
<1>4. /\ fields \in Bytes /\ Len(fields) = w - 6
      /\ \A i \in 1 .. w - 6 : fields[i] = raw[6 + i]
  <2>1. 7 \in Nat \ {0} /\ w \in Int /\ w <= Len(raw) /\ w - 7 + 1 = w - 6
    BY <1>1, <1>2
  <2>2. \A i \in 1 .. w - 6 : 7 + i - 1 = 6 + i
    OBVIOUS
  <2>3. (IF 7 <= w THEN w - 7 + 1 ELSE 0) = w - 6
    BY <1>2
  <2>4. /\ fields \in Bytes
        /\ Len(fields) = IF 7 <= w THEN w - 7 + 1 ELSE 0
        /\ \A i \in 1 .. w - 7 + 1 : fields[i] = raw[7 + i - 1]
    BY <2>1, SubSeqIsBytes
  <2> HIDE DEF fields
  <2> QED BY <2>1, <2>2, <2>3, <2>4
<1>5. /\ time \in Bytes /\ Len(time) = 4
      /\ \A i \in 1 .. 4 : time[i] = raw[L - 4 + i]
  <2>1. L - 4 + 1 \in Nat \ {0} /\ L \in Int /\ L <= Len(raw) /\ L - (L - 4 + 1) + 1 = 4 /\ L - 4 + 1 <= L
    BY <1>1
  <2>2. \A i \in 1 .. 4 : L - 4 + 1 + i - 1 = L - 4 + i
    BY <1>1
  <2>4. /\ time \in Bytes
        /\ Len(time) = IF L - 4 + 1 <= L THEN L - (L - 4 + 1) + 1 ELSE 0
        /\ \A i \in 1 .. L - (L - 4 + 1) + 1 : time[i] = raw[L - 4 + 1 + i - 1]
    <3> HIDE DEF L
    <3> QED BY <2>1, SubSeqIsBytes DEF L
  <2> HIDE DEF time
  <2> QED BY <2>1, <2>2, <2>4
<1> HIDE DEF version, fields, time
<1> DEFINE front == version \o fields
<1>6. /\ front \in Bytes /\ Len(front) = w - 2
      /\ \A i \in 1 .. 4 : front[i] = raw[i]
      /\ \A i \in 5 .. w - 2 : front[i] = raw[i + 2]
  <2>0. version \in Bytes /\ fields \in Bytes /\ front = version \o fields
    BY <1>3, <1>4
  <2> HIDE DEF front
  <2>1. /\ front \in Bytes /\ Len(front) = Len(version) + Len(fields)
        /\ \A i \in 1 .. Len(version) + Len(fields) :
             front[i] = IF i <= Len(version) THEN version[i] ELSE fields[i - Len(version)]
    <3>1. IsConcat(front, version, fields)
      BY <2>0, ConcatIndexes
    <3> QED BY <3>1 DEF IsConcat
  <2>2. Len(front) = w - 2
    BY <1>3, <1>4, <1>2, <2>1
  <2>3. ASSUME NEW i \in 1 .. 4 PROVE front[i] = raw[i]
    <3>1. i \in 1 .. Len(version) + Len(fields) /\ i <= Len(version)
      BY <1>2, <1>3, <1>4
    <3> QED BY <1>3, <2>1, <3>1
  <2>4. ASSUME NEW i \in 5 .. w - 2 PROVE front[i] = raw[i + 2]
    <3>1. i \in 1 .. Len(version) + Len(fields) /\ ~(i <= Len(version)) /\ i - Len(version) \in 1 .. w - 6
      BY <1>2, <1>3, <1>4
    <3>2. front[i] = fields[i - Len(version)]
      BY <2>1, <3>1
    <3>3. 6 + (i - Len(version)) = i + 2
      BY <1>3
    <3> QED BY <1>4, <3>1, <3>2, <3>3
  <2> QED BY <2>1, <2>2, <2>3, <2>4
<1> HIDE DEF front
<1>7. /\ id \in Bytes /\ Len(id) = w + 2
      /\ \A i \in 1 .. w - 2 : id[i] = front[i]
      /\ \A i \in 1 .. 4 : id[w - 2 + i] = time[i]
  <2>0. front \in Bytes /\ time \in Bytes /\ id = front \o time
    BY <1>0, <1>5, <1>6 DEF front
  <2>1. /\ id \in Bytes /\ Len(id) = Len(front) + Len(time)
        /\ \A i \in 1 .. Len(front) + Len(time) :
             id[i] = IF i <= Len(front) THEN front[i] ELSE time[i - Len(front)]
    <3>1. IsConcat(id, front, time)
      BY <2>0, ConcatIndexes
    <3> QED BY <3>1 DEF IsConcat
  <2>2. Len(id) = w + 2
    BY <1>2, <1>5, <1>6, <2>1
  <2>3. ASSUME NEW i \in 1 .. w - 2 PROVE id[i] = front[i]
    <3>1. i \in 1 .. Len(front) + Len(time) /\ i <= Len(front)
      BY <1>2, <1>5, <1>6
    <3> QED BY <2>1, <3>1
  <2>4. ASSUME NEW i \in 1 .. 4 PROVE id[w - 2 + i] = time[i]
    <3>1. w - 2 + i \in 1 .. Len(front) + Len(time) /\ ~(w - 2 + i <= Len(front)) /\ w - 2 + i - Len(front) = i
      <4>1. Len(front) = w - 2 /\ Len(time) = 4 /\ w \in Nat
        BY <1>2, <1>5, <1>6
      <4> HIDE DEF L
      <4> QED BY <4>1
    <3>2. PICK j \in 1 .. Len(front) + Len(time) : j = w - 2 + i
      BY <3>1
    <3>3. id[j] = IF j <= Len(front) THEN front[j] ELSE time[j - Len(front)]
      BY <2>1
    <3> QED BY <3>1, <3>2, <3>3
  <2> QED BY <2>1, <2>2, <2>3, <2>4
<1> DEFINE n == Len(id) - 4
<1>8. n = w - 2 /\ n + 2 = w /\ n + 1 = w - 1 /\ n + 4 = w + 2 /\ n \in Nat /\ n >= 4
  BY <1>2, <1>7
<1> HIDE DEF n
<1>9. SubSeq(raw, 1, n + 2) = SubSeq(id, 1, 4) \o <<0, 1>> \o SubSeq(id, 5, n)
  <2> DEFINE left  == SubSeq(raw, 1, w)
             a     == SubSeq(id, 1, 4)
             b     == SubSeq(id, 5, w - 2)
             flag  == <<0, 1>>
             right == a \o flag \o b
  <2>1. left \in Bytes /\ Len(left) = w /\ \A i \in 1 .. w : left[i] = raw[i]
    <3>1. 1 \in Nat \ {0} /\ w \in Int /\ w <= Len(raw) /\ 1 <= w /\ w - 1 + 1 = w
      BY <1>1, <1>2
    <3>2. \A i \in 1 .. w : 1 + i - 1 = i
      OBVIOUS
    <3>3. /\ left \in Bytes
          /\ Len(left) = IF 1 <= w THEN w - 1 + 1 ELSE 0
          /\ \A i \in 1 .. w - 1 + 1 : left[i] = raw[1 + i - 1]
      BY <3>1, SubSeqIsBytes
    <3> HIDE DEF left
    <3> QED BY <3>1, <3>2, <3>3
  <2>2. a \in Bytes /\ Len(a) = 4 /\ \A i \in 1 .. 4 : a[i] = raw[i]
    <3>1. 1 \in Nat \ {0} /\ 4 \in Int /\ 4 <= Len(id) /\ 1 <= 4 /\ 4 - 1 + 1 = 4
      BY <1>2, <1>7
    <3>2. \A i \in 1 .. 4 : 1 + i - 1 = i /\ i \in 1 .. w - 2
      BY <1>2
    <3>3. /\ a \in Bytes
          /\ Len(a) = IF 1 <= 4 THEN 4 - 1 + 1 ELSE 0
          /\ \A i \in 1 .. 4 - 1 + 1 : a[i] = id[1 + i - 1]
      BY <1>7, <3>1, SubSeqIsBytes
    <3> HIDE DEF a
    <3>4. Len(a) = 4
      BY <3>3
    <3>5. \A i \in 1 .. 4 : a[i] = id[i] /\ id[i] = front[i] /\ front[i] = raw[i]
      BY <1>6, <1>7, <3>2, <3>3
    <3> QED BY <3>3, <3>4, <3>5
  <2>3. b \in Bytes /\ Len(b) = w - 6 /\ \A i \in 1 .. w - 6 : b[i] = raw[i + 6]
    <3>1. 5 \in Nat \ {0} /\ w - 2 \in Int /\ w - 2 <= Len(id) /\ w - 2 - 5 + 1 = w - 6
      BY <1>2, <1>7
    <3>2. (IF 5 <= w - 2 THEN w - 2 - 5 + 1 ELSE 0) = w - 6
      BY <1>2
    <3>3. /\ b \in Bytes
          /\ Len(b) = IF 5 <= w - 2 THEN w - 2 - 5 + 1 ELSE 0
          /\ \A i \in 1 .. w - 2 - 5 + 1 : b[i] = id[5 + i - 1]
      BY <1>7, <3>1, SubSeqIsBytes
    <3> HIDE DEF b
    <3>4. ASSUME NEW i \in 1 .. w - 6 PROVE b[i] = raw[i + 6]
      <4>1. 5 + i - 1 = i + 4 /\ i + 4 \in 5 .. w - 2 /\ i + 4 \in 1 .. w - 2 /\ i + 4 + 2 = i + 6
        BY <1>2
      <4>2. b[i] = id[i + 4]
        BY <3>1, <3>3, <4>1
      <4>3. id[i + 4] = front[i + 4] /\ front[i + 4] = raw[i + 4 + 2]
        BY <1>6, <1>7, <4>1
      <4> QED BY <4>1, <4>2, <4>3
    <3> QED BY <3>1, <3>2, <3>3, <3>4
  <2>4. flag \in Bytes /\ Len(flag) = 2 /\ flag[1] = 0 /\ flag[2] = 1
    BY DEF Bytes
  <2> HIDE DEF left, a, b, flag
  <2> DEFINE af == a \o flag
  <2>5. /\ af \in Bytes /\ Len(af) = 6 /\ \A i \in 1 .. 6 : af[i] = raw[i]
    <3>1. /\ af \in Bytes /\ Len(af) = Len(a) + Len(flag)
          /\ \A i \in 1 .. Len(a) + Len(flag) : af[i] = IF i <= Len(a) THEN a[i] ELSE flag[i - Len(a)]
      BY <2>2, <2>4, ConcatProperties DEF Bytes
    <3> HIDE DEF af
    <3>2. Len(af) = 6
      BY <2>2, <2>4, <3>1
    <3>3. ASSUME NEW i \in 1 .. 6 PROVE af[i] = raw[i]
      <4>1. CASE i \in 1 .. 4
        BY <2>2, <2>4, <3>1, <4>1
      <4>2. CASE i = 5
        BY <1>1, <2>2, <2>4, <3>1, <4>2
      <4>3. CASE i = 6
        BY <1>1, <2>2, <2>4, <3>1, <4>3
      <4> QED BY <4>1, <4>2, <4>3
    <3> QED BY <3>1, <3>2, <3>3
  <2>6. /\ right \in Bytes /\ Len(right) = w /\ \A i \in 1 .. w : right[i] = raw[i]
    <3>0. right = af \o b
      OBVIOUS
    <3> HIDE DEF af
    <3> HIDE DEF right
    <3>1. /\ right \in Bytes /\ Len(right) = Len(af) + Len(b)
          /\ \A i \in 1 .. Len(af) + Len(b) : right[i] = IF i <= Len(af) THEN af[i] ELSE b[i - Len(af)]
      <4>1. /\ af \o b \in Seq(Nat) /\ Len(af \o b) = Len(af) + Len(b)
            /\ \A i \in 1 .. Len(af) + Len(b) : (af \o b)[i] = IF i <= Len(af) THEN af[i] ELSE b[i - Len(af)]
        <5>1. af \in Seq(Nat) /\ b \in Seq(Nat)
          BY <2>3, <2>5 DEF Bytes
        <5> QED BY <5>1, ConcatProperties
      <4>2. af \o b \in Bytes
        BY <4>1 DEF Bytes
      <4> QED BY <3>0, <4>1, <4>2, Zenon
    <3>2. Len(right) = w
      BY <1>2, <2>3, <2>5, <3>1
    <3>3. ASSUME NEW i \in 1 .. w PROVE right[i] = raw[i]
      <4>1. CASE i <= 6
        <5>1. i \in 1 .. 6 /\ i \in 1 .. Len(af) + Len(b) /\ i <= Len(af)
          BY <1>2, <2>3, <2>5, <4>1
        <5> QED BY <2>5, <3>1, <5>1
      <4>2. CASE ~(i <= 6)
        <5>1. i \in 1 .. Len(af) + Len(b) /\ ~(i <= Len(af)) /\ i - Len(af) = i - 6 /\ i - 6 \in 1 .. w - 6 /\ i - 6 + 6 = i
          BY <1>2, <2>3, <2>5, <4>2
        <5>2. right[i] = b[i - 6]
          BY <3>1, <5>1
        <5> QED BY <2>3, <5>1, <5>2
      <4> QED BY <4>1, <4>2
    <3> QED BY <3>1, <3>2, <3>3
  <2> HIDE DEF right
  <2>7. left = right
    <3>1. Len(left) = Len(right) /\ \A i \in 1 .. Len(left) : left[i] = right[i]
      BY <2>1, <2>6
    <3> QED BY <2>1, <2>6, <3>1, SameBytes
  <2> QED BY <1>8, <2>7 DEF left, right, a, b, flag
<1>10. IsSuffix(SubSeq(id, n + 1, n + 4), raw)
  <2> DEFINE s == SubSeq(id, w - 1, w + 2)
  <2>1. s \in Bytes /\ Len(s) = 4 /\ \A i \in 1 .. 4 : s[i] = raw[L - 4 + i]
    <3>1. w - 1 \in Nat \ {0} /\ w + 2 \in Int /\ w + 2 <= Len(id) /\ w + 2 - (w - 1) + 1 = 4 /\ w - 1 <= w + 2
      BY <1>2, <1>7
    <3>2. \A i \in 1 .. 4 : w - 1 + i - 1 = w - 2 + i
      BY <1>2
    <3>3. /\ s \in Bytes
          /\ Len(s) = IF w - 1 <= w + 2 THEN w + 2 - (w - 1) + 1 ELSE 0
          /\ \A i \in 1 .. w + 2 - (w - 1) + 1 : s[i] = id[w - 1 + i - 1]
      <4> DEFINE p == w - 1
                 q == w + 2
      <4>1. p \in Nat \ {0} /\ q \in Int /\ q <= Len(id)
        BY <3>1
      <4> HIDE DEF p, q
      <4>2. /\ SubSeq(id, p, q) \in Bytes
            /\ Len(SubSeq(id, p, q)) = IF p <= q THEN q - p + 1 ELSE 0
            /\ \A i \in 1 .. q - p + 1 : SubSeq(id, p, q)[i] = id[p + i - 1]
        BY <1>7, <4>1, SubSeqIsBytes
      <4> QED BY <4>2 DEF p, q
    <3> HIDE DEF s
    <3>4. Len(s) = 4
      BY <3>1, <3>3
    <3>5. \A i \in 1 .. 4 : s[i] = id[w - 2 + i]
      BY <3>1, <3>2, <3>3
    <3> QED BY <1>5, <1>7, <3>3, <3>4, <3>5
  <2> HIDE DEF s
  <2> DEFINE r == Reverse(s)
             t == Reverse(raw)
  <2>2. r \in Bytes /\ Len(r) = 4 /\ \A i \in 1 .. 4 : r[i] = raw[L + 1 - i]
    <3>1. r = [i \in 1 .. 4 |-> s[4 - i + 1]]
      BY <2>1 DEF Reverse
    <3>2. \A i \in 1 .. 4 : 4 - i + 1 \in 1 .. 4 /\ L - 4 + (4 - i + 1) = L + 1 - i
      BY <1>1
    <3>3. \A i \in 1 .. 4 : s[4 - i + 1] = raw[L + 1 - i] /\ s[4 - i + 1] \in Nat
      <4>1. \A i \in 1 .. 4 : s[i] \in Nat
        BY <2>1, ElementOfSeq DEF Bytes
      <4> QED BY <2>1, <3>2, <4>1
    <3> QED BY <3>1, <3>3 DEF Bytes
  <2>3. t \in Bytes /\ Len(t) = L /\ \A i \in 1 .. L : t[i] = raw[L + 1 - i]
    <3>1. t = [i \in 1 .. L |-> raw[L - i + 1]]
      BY DEF Reverse
    <3>2. \A i \in 1 .. L : L - i + 1 \in 1 .. L /\ L - i + 1 = L + 1 - i
      BY <1>1
    <3>3. \A i \in 1 .. L : raw[i] \in Nat
      BY ElementOfSeq DEF Bytes
    <3>4. \A i \in 1 .. L : raw[L - i + 1] \in Nat
      <4> HIDE DEF L
      <4> QED BY <3>2, <3>3
    <3>5. t \in [1 .. L -> Nat]
      BY <3>1, <3>4
    <3> HIDE DEF L
    <3>6. t \in Seq(Nat)
      BY <1>1, <3>5, SeqDef
    <3>7. Len(t) = L
      <4>1. DOMAIN t = 1 .. L /\ DOMAIN t = 1 .. Len(t) /\ Len(t) \in Nat
        BY <3>5, <3>6, LenProperties
      <4> HIDE DEF t
      <4> QED BY <1>1, <4>1
    <3>8. \A i \in 1 .. L : t[i] = raw[L - i + 1]
      BY <3>1
    <3> HIDE DEF t
    <3>9. \A i \in 1 .. L : t[i] = raw[L + 1 - i]
      BY <3>2, <3>8
    <3> QED BY <3>6, <3>7, <3>9 DEF Bytes
  <2> HIDE DEF r, t
  <2>4. SubSeq(r, 1, 4) = SubSeq(t, 1, 4)
    <3> DEFINE width == 4
    <3>1. width \in Nat /\ width <= Len(r) /\ width <= Len(t)
      BY <1>1, <2>2, <2>3
    <3>2. \A i \in 1 .. width : r[i] = t[i]
      <4>1. \A i \in 1 .. 4 : i \in 1 .. L
        BY <1>1
      <4> HIDE DEF L
      <4> QED BY <2>2, <2>3, <4>1
    <3> HIDE DEF width
    <3>3. SubSeq(r, 1, width) = SubSeq(t, 1, width)
      BY <2>2, <2>3, <3>1, <3>2, SameStart
    <3> QED BY <3>3 DEF width
  <2>5. IsPrefix(r, t)
    BY <1>1, <2>2, <2>3, <2>4 DEF IsPrefix
  <2> QED BY <1>8, <2>5 DEF IsSuffix, r, t, s
<1> QED BY <1>9, <1>10 DEF n, id

-----------------------------------------------------------------------------
(* What digits are worth *)

\* The steps in which digits are read.
Counts(base, digits, n, g) ==
  g \in [0 .. n -> Nat] /\ g[0] = 0 /\ \A k \in 1 .. n : g[k] = base * g[k - 1] + digits[k]

CountsTo(base, digits, v) ==
  \E g : Counts(base, digits, Len(digits), g) /\ v = g[Len(digits)]

\* The number that digits stand for is read in these steps.
LEMMA ValueOfCounts ==
  ASSUME NEW base \in Nat, NEW digits \in Bytes
  PROVE  CountsTo(base, digits, ValueOf(base, digits))
<1> DEFINE n == Len(digits)
           UpTo(g) == g = [k \in 0 .. n |-> IF k = 0 THEN 0 ELSE base * g[k - 1] + digits[k]]
           upTo == CHOOSE g : UpTo(g)
<1>0. n \in Nat /\ \A k \in 1 .. n : digits[k] \in Nat
  BY LenProperties, ElementOfSeq DEF Bytes
<1>3. ValueOf(base, digits) = upTo[n]
  BY DEF ValueOf
<1> HIDE DEF n
<1>1. \E g : UpTo(g) /\ Counts(base, digits, n, g)
  <2> DEFINE f == [k \in 1 .. n |-> [x \in Nat |-> base * x + digits[k]]]
  <2>1. f \in [1 .. n -> [Nat -> Nat]]
    <3>1. ASSUME NEW k \in 1 .. n, NEW x \in Nat PROVE base * x + digits[k] \in Nat
      <4>1. digits[k] \in Nat
        BY <1>0
      <4>2. base * x \in Nat
        OBVIOUS
      <4> QED BY <4>1, <4>2
    <3> QED BY <3>1
  <2>2. PICK g : Stepwise(n, Nat, 0, f, g)
    <3> HIDE DEF f
    <3> QED BY <1>0, <2>1, StepsExist
  <2>3. g \in [0 .. n -> Nat] /\ g[0] = 0 /\ \A k \in 1 .. n : g[k] = f[k][g[k - 1]]
    <3> HIDE DEF f
    <3> QED BY <2>2 DEF Stepwise
  <2>4. ASSUME NEW k \in 1 .. n PROVE g[k] = base * g[k - 1] + digits[k]
    <3>1. g[k - 1] \in Nat
      BY <1>0, <2>3
    <3>2. f[k][g[k - 1]] = base * g[k - 1] + digits[k]
      BY <3>1
    <3> HIDE DEF f
    <3> QED BY <2>3, <3>2
  <2>5. \A k \in 0 .. n : g[k] = IF k = 0 THEN 0 ELSE base * g[k - 1] + digits[k]
    BY <1>0, <2>3, <2>4
  <2>6. g = [k \in 0 .. n |-> g[k]]
    BY <2>3
  <2>7. UpTo(g)
    BY <2>5, <2>6
  <2>8. Counts(base, digits, n, g)
    BY <2>3, <2>4 DEF Counts
  <2> QED BY <2>7, <2>8
<1>2. UpTo(upTo)
  <2> HIDE DEF UpTo
  <2> QED BY <1>1
<1>4. PICK g : UpTo(g) /\ Counts(base, digits, n, g)
  BY <1>1
<1> HIDE DEF upTo
<1>5. \A k \in 0 .. n : k \in {i \in 0 .. n : upTo[i] = g[i]}
  <2> DEFINE S == {i \in 0 .. n : upTo[i] = g[i]}
  <2>1. 0 \in S
    BY <1>0, <1>2, <1>4
  <2>2. ASSUME NEW k \in 1 .. n, k - 1 \in S PROVE k \in S
    <3>1. upTo[k] = base * upTo[k - 1] + digits[k] /\ g[k] = base * g[k - 1] + digits[k]
      BY <1>0, <1>2, <1>4
    <3> QED BY <2>2, <3>1
  <2> HIDE DEF S
  <2>3. \A k \in 0 .. n : k \in S
    BY <1>0, <2>1, <2>2, OneByOne
  <2> QED BY <2>3 DEF S
<1>6. upTo[n] = g[n]
  BY <1>0, <1>5
<1> QED BY <1>3, <1>4, <1>6 DEF CountsTo, n

\* The number that digits stand for is one.
LEMMA ValueOfIsNat ==
  ASSUME NEW base \in Nat, NEW n \in Nat, NEW digits \in [1 .. n -> Nat], Len(digits) = n
  PROVE  ValueOf(base, digits) \in Nat
<1>1. digits \in Bytes
  BY DEF Bytes
<1>2. PICK g : Counts(base, digits, n, g) /\ ValueOf(base, digits) = g[n]
  BY <1>1, ValueOfCounts DEF CountsTo
<1> QED BY <1>2 DEF Counts

\* The first k digits of both are the same.
Agree(k, d, e) == \A i \in 1 .. k : d[i] = e[i]

\* Digits that begin in the same way are read in the same way.
LEMMA SameDigits ==
  ASSUME NEW base, NEW n \in Nat, NEW m \in Nat, NEW k \in Nat, k <= n, k <= m, NEW d, NEW e, NEW g, NEW h,
         Counts(base, d, n, g), Counts(base, e, m, h), Agree(k, d, e)
  PROVE  g[k] = h[k]
<1> DEFINE S == {i \in 0 .. k : g[i] = h[i]}
<1>1. 0 \in S
  BY DEF Counts
<1>2. ASSUME NEW i \in 1 .. k, i - 1 \in S PROVE i \in S
  <2>1. i \in 1 .. n /\ i \in 1 .. m
    OBVIOUS
  <2>2. g[i] = base * g[i - 1] + d[i] /\ h[i] = base * h[i - 1] + e[i]
    BY <2>1 DEF Counts
  <2>3. d[i] = e[i]
    BY DEF Agree
  <2> QED BY <1>2, <2>2, <2>3
<1>3. \A i \in 0 .. k : i \in S
  <2> HIDE DEF S
  <2> QED BY <1>1, <1>2, OneByOne
<1> QED BY <1>3

\* Zeros, and a one before them.
LEMMA ZerosAreBytes ==
  ASSUME NEW n \in Nat
  PROVE  /\ Zeros(n) \in Bytes /\ Len(Zeros(n)) = n /\ \A i \in 1 .. n : Zeros(n)[i] = 0
         /\ <<1>> \o Zeros(n) \in Bytes /\ Len(<<1>> \o Zeros(n)) = 1 + n
         /\ (<<1>> \o Zeros(n))[1] = 1 /\ \A i \in 1 .. n : (<<1>> \o Zeros(n))[i + 1] = 0
<1> DEFINE z == Zeros(n)
           one == <<1>>
<1>1. z \in Bytes /\ Len(z) = n /\ \A i \in 1 .. n : z[i] = 0
  BY DEF Zeros, Bytes
<1>2. one \in Bytes /\ Len(one) = 1 /\ one[1] = 1
  BY DEF Bytes
<1> HIDE DEF z, one
<1>3. one \o z \in Bytes /\ Len(one \o z) = Len(one) + Len(z)
  BY <1>1, <1>2, ConcatIsBytes
<1>4. one \in Seq(Nat) /\ z \in Seq(Nat)
  BY <1>1, <1>2 DEF Bytes
<1>5. \A i \in 1 .. Len(one) + Len(z) : (one \o z)[i] = IF i <= Len(one) THEN one[i] ELSE z[i - Len(one)]
  BY <1>4, ConcatProperties
<1>6. (one \o z)[1] = 1
  <2>1. PICK i : i = 1
    OBVIOUS
  <2>2. i \in 1 .. Len(one) + Len(z) /\ i <= Len(one)
    BY <1>1, <1>2, <2>1
  <2>3. (one \o z)[i] = one[i]
    BY <1>5, <2>2
  <2> QED BY <1>2, <2>1, <2>3
<1>7. ASSUME NEW i \in 1 .. n PROVE (one \o z)[i + 1] = 0
  <2>1. PICK j : j = i + 1
    OBVIOUS
  <2>2. j \in 1 .. Len(one) + Len(z) /\ ~(j <= Len(one)) /\ j - Len(one) = i
    BY <1>1, <1>2, <2>1
  <2>3. (one \o z)[j] = z[i]
    BY <1>5, <2>2
  <2> QED BY <1>1, <2>1, <2>3
<1>8. Len(one \o z) = 1 + n
  BY <1>1, <1>2, <1>3
<1> QED BY <1>1, <1>3, <1>6, <1>7, <1>8 DEF z, one

\* The powers of ten that TenTo goes through.
Powers(n, p) ==
  p \in [0 .. n -> Nat \ {0}] /\ p[0] = 1 /\ (\A j \in 1 .. n : p[j] = 10 * p[j - 1]) /\ TenTo(n) = p[n]

\* There always are such.
LEMMA TenToPowers ==
  ASSUME NEW n \in Nat
  PROVE  \E p : Powers(n, p)
<1> DEFINE d == <<1>> \o Zeros(n)
<1>1. d \in Bytes /\ Len(d) = 1 + n /\ d[1] = 1 /\ \A i \in 1 .. n : d[i + 1] = 0
  BY ZerosAreBytes
<1>2. TenTo(n) = ValueOf(10, d)
  BY DEF TenTo, Decimal
<1> HIDE DEF d
<1>3. 10 \in Nat
  OBVIOUS
<1>4. CountsTo(10, d, ValueOf(10, d))
  <2>1. \A b \in Nat : CountsTo(b, d, ValueOf(b, d))
    BY <1>1, ValueOfCounts
  <2> QED BY <1>3, <2>1
<1>5. PICK g : Counts(10, d, 1 + n, g) /\ TenTo(n) = g[1 + n]
  BY <1>1, <1>2, <1>4 DEF CountsTo
<1>6. g[1] = 1 /\ \A j \in 1 .. n : g[j + 1] = 10 * g[j]
  <2>1. g \in [0 .. 1 + n -> Nat] /\ g[0] = 0 /\ \A k \in 1 .. 1 + n : g[k] = 10 * g[k - 1] + d[k]
    BY <1>5 DEF Counts
  <2>2. g[1] = 10 * g[0] + d[1]
    BY <2>1
  <2>3. ASSUME NEW j \in 1 .. n PROVE g[j + 1] = 10 * g[j]
    <3>1. PICK k : k = j + 1
      OBVIOUS
    <3>2. g[k] = 10 * g[k - 1] + d[k] /\ k - 1 = j /\ g[j] \in Nat
      BY <2>1, <3>1
    <3>3. d[k] = 0
      BY <1>1, <3>1
    <3>4. g[k] = 10 * g[j] + 0
      BY <3>2, <3>3
    <3> QED BY <3>1, <3>2, <3>4
  <2> QED BY <1>1, <2>1, <2>2, <2>3
<1> DEFINE p == [j \in 0 .. n |-> g[j + 1]]
<1>7. p[0] = 1 /\ (\A j \in 1 .. n : p[j] = 10 * p[j - 1]) /\ p[n] = TenTo(n)
  <2>1. p[0] = 1
    BY <1>6
  <2>2. ASSUME NEW j \in 1 .. n PROVE p[j] = 10 * p[j - 1]
    <3>1. p[j] = g[j + 1] /\ p[j - 1] = g[(j - 1) + 1] /\ (j - 1) + 1 = j
      OBVIOUS
    <3> HIDE DEF p
    <3> QED BY <1>6, <3>1
  <2>3. p[n] = g[n + 1] /\ n + 1 = 1 + n
    OBVIOUS
  <2> HIDE DEF p
  <2> QED BY <1>5, <2>1, <2>2, <2>3
<1>8. \A j \in 0 .. n : p[j] \in Nat \ {0}
  <2> DEFINE S == Nat \ {0}
  <2>1. p[0] \in S /\ \A j \in 1 .. n : p[j - 1] \in S => p[j] \in S
    <3> HIDE DEF p
    <3> QED BY <1>7
  <2> HIDE DEF S, p
  <2>2. \A j \in 0 .. n : p[j] \in S
    BY <2>1, StepsKeep
  <2> QED BY <2>2 DEF S
<1>9. p \in [0 .. n -> Nat \ {0}]
  BY <1>8
<1> HIDE DEF p
<1> QED BY <1>7, <1>9 DEF Powers

\* Digits before and after others.
LEMMA DecimalJoins ==
  ASSUME NEW w \in Bytes, NEW f \in Bytes
  PROVE  /\ Decimal(w \o f) = Decimal(w) * TenTo(Len(f)) + Decimal(f)
         /\ Decimal(w) \in Nat /\ TenTo(Len(f)) \in Nat /\ Decimal(f) \in Nat
<1> DEFINE n == Len(w)
           m == Len(f)
           d == w \o f
<1>1. n \in Nat /\ m \in Nat /\ d \in Bytes /\ Len(d) = n + m
  BY ConcatIsBytes, LenProperties DEF Bytes
<1>2. /\ \A i \in 1 .. n : d[i] = w[i]
      /\ \A j \in 1 .. m : d[n + j] = f[j]
  <2>1. w \in Seq(Nat) /\ f \in Seq(Nat)
    BY DEF Bytes
  <2>2. \A i \in 1 .. n + m : d[i] = IF i <= n THEN w[i] ELSE f[i - n]
    BY <2>1, ConcatProperties
  <2> HIDE DEF n, m, d
  <2>3. ASSUME NEW j \in 1 .. m PROVE d[n + j] = f[j]
    <3>1. PICK i : i = n + j
      OBVIOUS
    <3>2. i \in 1 .. n + m /\ ~(i <= n) /\ i - n = j
      BY <1>1, <3>1
    <3>3. d[i] = f[j]
      BY <2>2, <3>2
    <3> QED BY <3>1, <3>3
  <2> QED BY <1>1, <2>2, <2>3
<1>3. \A s \in Bytes : CountsTo(10, s, Decimal(s))
  <2>1. 10 \in Nat
    OBVIOUS
  <2>2. \A b \in Nat : \A s \in Bytes : CountsTo(b, s, ValueOf(b, s))
    BY ValueOfCounts
  <2> QED BY <2>1, <2>2 DEF Decimal
<1> HIDE DEF d
<1>4. PICK g : Counts(10, d, n + m, g) /\ Decimal(d) = g[n + m]
  BY <1>1, <1>3 DEF CountsTo
<1>5. PICK h : Counts(10, w, n, h) /\ Decimal(w) = h[n]
  BY <1>3 DEF CountsTo
<1>6. PICK e : Counts(10, f, m, e) /\ Decimal(f) = e[m]
  BY <1>3 DEF CountsTo
<1>7. PICK p : Powers(m, p)
  BY <1>1, TenToPowers
<1> HIDE DEF n, m
<1>8. g[n] = h[n]
  <2>1. PICK all \in Nat, b \in Nat : all = n + m /\ n <= all /\ n <= n /\ b = 10
    BY <1>1
  <2>2. Counts(b, d, all, g) /\ Counts(b, w, n, h)
    BY <1>4, <1>5, <2>1
  <2>3. n \in Nat /\ n <= all /\ n <= n /\ Agree(n, d, w)
    BY <1>1, <1>2, <2>1 DEF Agree
  <2> QED BY <2>2, <2>3, SameDigits
<1>9. PICK v \in Nat : v = h[n]
  BY <1>1, <1>5 DEF Counts
<1> DEFINE S == {j \in 0 .. m : g[n + j] = v * p[j] + e[j]}
<1>10. 0 \in S
  <2>1. g[n + 0] = v /\ p[0] = 1 /\ e[0] = 0
    BY <1>1, <1>6, <1>7, <1>8, <1>9 DEF Counts, Powers
  <2>2. v * 1 + 0 = v
    OBVIOUS
  <2>3. 0 \in 0 .. m
    BY <1>1
  <2> QED BY <2>1, <2>2, <2>3
<1>11. ASSUME NEW j \in 1 .. m, j - 1 \in S PROVE j \in S
  <2>1. /\ p[j - 1] \in Nat /\ p[j] = 10 * p[j - 1]
        /\ e[j - 1] \in Nat /\ e[j] = 10 * e[j - 1] + f[j]
    BY <1>1, <1>6, <1>7 DEF Counts, Powers
  <2>2. g[n + j] = 10 * g[n + (j - 1)] + f[j]
    <3>1. PICK k : k = n + j
      OBVIOUS
    <3>2. k \in 1 .. n + m /\ k - 1 = n + (j - 1)
      BY <1>1, <3>1
    <3>3. g[k] = 10 * g[k - 1] + d[k]
      BY <1>4, <3>2 DEF Counts
    <3>4. d[k] = f[j]
      BY <1>2, <3>1
    <3> QED BY <3>1, <3>2, <3>3, <3>4
  <2>3. g[n + (j - 1)] = v * p[j - 1] + e[j - 1]
    BY <1>11
  <2>4. f[j] \in Nat
    <3>1. f \in Seq(Nat) /\ j \in 1 .. Len(f)
      BY DEF Bytes, m
    <3> QED BY <3>1, ElementOfSeq
  <2>5. PICK a \in Nat, b \in Nat, c \in Nat : a = p[j - 1] /\ b = e[j - 1] /\ c = f[j]
    BY <2>1, <2>4
  <2>6. 10 * (v * a + b) + c = v * (10 * a) + (10 * b + c)
    OBVIOUS
  <2>7. g[n + j] = v * p[j] + e[j]
    BY <2>1, <2>2, <2>3, <2>5, <2>6
  <2> QED BY <2>7
<1>12. \A j \in 0 .. m : j \in S
  <2> HIDE DEF S
  <2> QED BY <1>1, <1>10, <1>11, OneByOne
<1>13. g[n + m] = v * p[m] + e[m]
  BY <1>1, <1>12
<1>14. Decimal(d) = Decimal(w) * TenTo(m) + Decimal(f)
  BY <1>4, <1>5, <1>6, <1>7, <1>9, <1>13 DEF Powers
<1>15. TenTo(m) \in Nat /\ Decimal(f) \in Nat
  BY <1>1, <1>6, <1>7 DEF Powers, Counts
<1> QED BY <1>5, <1>9, <1>14, <1>15 DEF d, m

\* Zeros are worth nothing.
LEMMA DecimalOfZeros ==
  ASSUME NEW n \in Nat
  PROVE  Decimal(Zeros(n)) = 0
<1> DEFINE z == Zeros(n)
<1>1. z \in Bytes /\ Len(z) = n /\ \A i \in 1 .. n : z[i] = 0
  BY ZerosAreBytes
<1> HIDE DEF z
<1>2. CountsTo(10, z, Decimal(z))
  <2>1. 10 \in Nat
    OBVIOUS
  <2>2. \A b \in Nat : CountsTo(b, z, ValueOf(b, z))
    BY <1>1, ValueOfCounts
  <2> QED BY <2>1, <2>2 DEF Decimal
<1>3. PICK g : Counts(10, z, n, g) /\ Decimal(z) = g[n]
  BY <1>1, <1>2 DEF CountsTo
<1> DEFINE S == {0}
<1>4. g[0] \in S /\ \A i \in 1 .. n : g[i - 1] \in S => g[i] \in S
  BY <1>1, <1>3 DEF Counts
<1>5. \A i \in 0 .. n : g[i] \in S
  <2> HIDE DEF S
  <2> QED BY <1>4, StepsKeep
<1> QED BY <1>3, <1>5 DEF z

\* Powers of ten multiply.
LEMMA TenToSum ==
  ASSUME NEW a \in Nat, NEW b \in Nat
  PROVE  TenTo(a + b) = TenTo(a) * TenTo(b)
<1> DEFINE one == <<1>>
           x == Zeros(a)
           y == Zeros(b)
<1>1. /\ one \in Bytes /\ x \in Bytes /\ y \in Bytes /\ Len(x) = a /\ Len(y) = b
      /\ one \o x \in Bytes
  <2>1. one \in Bytes
    BY DEF Bytes
  <2>2. x \in Bytes /\ y \in Bytes /\ Len(x) = a /\ Len(y) = b
    BY ZerosAreBytes
  <2> HIDE DEF one, x, y
  <2> QED BY <2>1, <2>2, ConcatIsBytes
<1>2. Zeros(a + b) = x \o y
  <2>1. a + b \in Nat
    OBVIOUS
  <2>2. /\ Zeros(a + b) \in Bytes /\ Len(Zeros(a + b)) = a + b
        /\ \A i \in 1 .. a + b : Zeros(a + b)[i] = 0
    <3>1. \A c \in Nat : /\ Zeros(c) \in Bytes /\ Len(Zeros(c)) = c
                         /\ \A i \in 1 .. c : Zeros(c)[i] = 0
      BY ZerosAreBytes
    <3> QED BY <2>1, <3>1
  <2>3. \A i \in 1 .. a + b : (x \o y)[i] = 0
    <3>1. x \in Seq(Nat) /\ y \in Seq(Nat)
      BY <1>1 DEF Bytes
    <3>2. (\A i \in 1 .. a : x[i] = 0) /\ (\A i \in 1 .. b : y[i] = 0)
      BY ZerosAreBytes
    <3>3. \A i \in 1 .. Len(x) + Len(y) : (x \o y)[i] = IF i <= Len(x) THEN x[i] ELSE y[i - Len(x)]
      BY <3>1, ConcatProperties
    <3> HIDE DEF x, y
    <3> QED BY <1>1, <3>2, <3>3
  <2>4. x \o y \in Bytes /\ Len(x \o y) = a + b
    <3>1. x \o y \in Bytes /\ Len(x \o y) = Len(x) + Len(y)
      BY <1>1, ConcatIsBytes
    <3> HIDE DEF x, y
    <3> QED BY <1>1, <3>1
  <2> DEFINE z == Zeros(a + b)
             v == x \o y
  <2>5. z \in Seq(Nat) /\ v \in Seq(Nat) /\ Len(z) = Len(v) /\ \A i \in 1 .. Len(z) : z[i] = v[i]
    BY <2>2, <2>3, <2>4 DEF Bytes
  <2> HIDE DEF z, v
  <2>6. z = v
    BY <2>5, SeqEqual
  <2> QED BY <2>6 DEF z, v
<1>3. (one \o x) \o y = one \o (x \o y)
  <2>1. one \in Seq(Nat) /\ x \in Seq(Nat) /\ y \in Seq(Nat)
    BY <1>1 DEF Bytes
  <2> HIDE DEF one, x, y
  <2>2. \A r, s, t \in Seq(Nat) : (r \o s) \o t = r \o (s \o t)
    BY BytesAssociate
  <2> QED BY <2>1, <2>2
<1>4. Decimal((one \o x) \o y) = Decimal(one \o x) * TenTo(Len(y)) + Decimal(y)
  <2> HIDE DEF one, x, y
  <2> QED BY <1>1, DecimalJoins
<1>5. Decimal(y) = 0
  BY DecimalOfZeros
<1>6. TenTo(a + b) = Decimal((one \o x) \o y) /\ TenTo(a) = Decimal(one \o x)
  BY <1>2, <1>3 DEF TenTo
<1>7. Decimal(one \o x) * TenTo(Len(y)) \in Nat
  <2>1. Decimal(one \o x) \in Nat /\ TenTo(Len(y)) \in Nat
    <3> HIDE DEF one, x, y
    <3> QED BY <1>1, DecimalJoins
  <2> QED BY <2>1
<1>8. Len(y) = b
  BY <1>1
<1> HIDE DEF one, x, y
<1> QED BY <1>4, <1>5, <1>6, <1>7, <1>8

\* So many decimal digits are worth less than this power of ten.
LEMMA DecimalIsBelow ==
  ASSUME NEW f \in Seq(0 .. 9)
  PROVE  Decimal(f) < TenTo(Len(f)) /\ f \in Bytes
<1> DEFINE n == Len(f)
<1>1. n \in Nat /\ (\A i \in 1 .. n : f[i] \in 0 .. 9)
  BY LenProperties, ElementOfSeq
<1>2. f \in Bytes
  BY <1>1 DEF Bytes
<1>3. CountsTo(10, f, Decimal(f))
  <2>1. 10 \in Nat
    OBVIOUS
  <2>2. \A b \in Nat : CountsTo(b, f, ValueOf(b, f))
    BY <1>2, ValueOfCounts
  <2> QED BY <2>1, <2>2 DEF Decimal
<1>4. PICK g : Counts(10, f, n, g) /\ Decimal(f) = g[n]
  BY <1>3 DEF CountsTo
<1>5. PICK p : Powers(n, p)
  BY <1>1, TenToPowers
<1> HIDE DEF n
<1> DEFINE S == {i \in 0 .. n : g[i] < p[i]}
<1>6. 0 \in S
  BY <1>1, <1>4, <1>5 DEF Counts, Powers
<1>7. ASSUME NEW i \in 1 .. n, i - 1 \in S PROVE i \in S
  <2>1. /\ g[i - 1] \in Nat /\ g[i] = 10 * g[i - 1] + f[i] /\ p[i - 1] \in Nat /\ p[i] = 10 * p[i - 1]
        /\ g[i - 1] < p[i - 1]
    BY <1>1, <1>4, <1>5, <1>7 DEF Counts, Powers
  <2>0. PICK c \in Nat : c = f[i] /\ c <= 9
    BY <1>1
  <2>2. PICK x \in Nat, y \in Nat : x = g[i - 1] /\ y = p[i - 1]
    BY <2>1
  <2>3. 10 * x + c < 10 * y
    <3>1. x < y /\ c <= 9
      BY <2>0, <2>1, <2>2
    <3> QED BY <3>1
  <2>4. g[i] < p[i]
    BY <2>0, <2>1, <2>2, <2>3
  <2> QED BY <2>4
<1>8. \A i \in 0 .. n : i \in S
  <2> HIDE DEF S
  <2> QED BY <1>1, <1>6, <1>7, OneByOne
<1>9. g[n] < p[n]
  BY <1>1, <1>8
<1> QED BY <1>2, <1>4, <1>5, <1>9 DEF Powers, n

\* An amount that is accepted is what was typed, whatever has been typed: the
\* sum that does not fit in an int64 is negative, and refused.
LEMMA AmountIsExact ==
  ASSUME NEW a \in Amounts, QOGEToSatoshis(a) > 0
  PROVE  /\ QOGEToSatoshis(a) * TenTo(Len(a.frac)) = Decimal(a.whole \o a.frac) * Unit
         /\ QOGEToSatoshis(a) \in Nat /\ QOGEToSatoshis(a) <= MaxInt64
<1> DEFINE w == a.whole
           f == a.frac
           l == Len(f)
           rest == Decimals - l
<1>1. Decimals \in Nat /\ MaxInt64 \in Nat /\ w \in Seq(0 .. 9) /\ f \in Seq(0 .. 9)
  BY PaymentAssumption
<1>2. w \in Bytes /\ f \in Bytes /\ l \in Nat
  BY <1>1, DecimalIsBelow, LenProperties
<1>3. /\ ~(Decimal(w) > MaxInt64 \div Unit) /\ ~(l > Decimals)
      /\ QOGEToSatoshis(a) = Int64(Decimal(w) * Unit + Decimal(Padded(f)))
  BY DEF QOGEToSatoshis
<1>4. rest \in Nat /\ l + rest = Decimals
  BY <1>1, <1>2, <1>3
<1>5. Padded(f) = f \o Zeros(rest)
  BY DEF Padded
<1> HIDE DEF rest
<1>6. Zeros(rest) \in Bytes /\ Len(Zeros(rest)) = rest /\ Decimal(Zeros(rest)) = 0
  BY <1>4, ZerosAreBytes, DecimalOfZeros
<1>7. Decimal(Padded(f)) = Decimal(f) * TenTo(rest) + 0
      /\ Decimal(f) \in Nat /\ TenTo(rest) \in Nat
  <2>1. /\ Decimal(f \o Zeros(rest)) = Decimal(f) * TenTo(Len(Zeros(rest))) + Decimal(Zeros(rest))
        /\ Decimal(f) \in Nat /\ TenTo(Len(Zeros(rest))) \in Nat
    <3> HIDE DEF f
    <3> QED BY <1>2, <1>6, DecimalJoins
  <2> QED BY <1>5, <1>6, <2>1
<1>8. /\ Decimal(w \o f) = Decimal(w) * TenTo(l) + Decimal(f)
      /\ Decimal(w) \in Nat /\ TenTo(l) \in Nat
  <2> HIDE DEF w, f
  <2> QED BY <1>2, DecimalJoins
<1>9. Unit = TenTo(l) * TenTo(rest)
  <2>1. TenTo(l + rest) = TenTo(l) * TenTo(rest)
    <3> HIDE DEF l
    <3> QED BY <1>2, <1>4, TenToSum
  <2> QED BY <1>4, <2>1 DEF Unit
<1>10. Unit \in Nat \ {0} /\ Unit <= MaxInt64
  <2>1. PICK p : Powers(Decimals, p)
    BY <1>1, TenToPowers
  <2>2. TenTo(Decimals) \in Nat \ {0}
    BY <1>1, <2>1 DEF Powers
  <2> QED BY <2>2, UnitAssumption DEF Unit
<1>11. Decimal(f) < TenTo(l)
  BY <1>1, DecimalIsBelow
<1>12. PICK W \in Nat, F \in Nat, T \in Nat, Z \in Nat, M \in Nat, U \in Nat \ {0} :
         /\ W = Decimal(w) /\ F = Decimal(f) /\ T = TenTo(l) /\ Z = TenTo(rest) /\ M = MaxInt64 /\ U = Unit
  BY <1>1, <1>7, <1>8, <1>10
<1> HIDE DEF w, f, l
<1>13. U = T * Z /\ U <= M /\ W <= M \div U /\ F < T
  <2>1. U = T * Z /\ U <= M /\ F < T
    BY <1>9, <1>10, <1>11, <1>12
  <2>2. ~(W > M \div U)
    BY <1>3, <1>12
  <2>3. M \div U \in Nat
    OBVIOUS
  <2> QED BY <2>1, <2>2, <2>3
<1>14. QOGEToSatoshis(a) = Int64(W * U + F * Z)
  <2>1. F * Z \in Nat
    OBVIOUS
  <2> QED BY <1>3, <1>7, <1>12, <2>1
<1>15. W * U <= M
  <2>1. PICK q \in Nat : q = M \div U
    OBVIOUS
  <2>2. q * U <= M
    BY <2>1
  <2>3. W <= q
    BY <1>13, <2>1
  <2>4. W * U <= q * U
    BY <2>3
  <2>5. W * U \in Nat /\ q * U \in Nat
    OBVIOUS
  <2> QED BY <2>2, <2>4, <2>5
<1>16. F * Z <= T * Z
  BY <1>13
<1>17. PICK sum \in Nat : sum = W * U + F * Z
  OBVIOUS
<1>18. sum <= 2 * M
  <2>1. PICK x \in Nat, y \in Nat : x = W * U /\ y = F * Z
    OBVIOUS
  <2>2. x <= M /\ y <= M
    BY <1>13, <1>15, <1>16, <2>1
  <2> QED BY <1>17, <2>1, <2>2
<1>19. QOGEToSatoshis(a) = sum /\ sum <= M
  <2>1. QOGEToSatoshis(a) = Int64(sum)
    BY <1>14, <1>17
  <2>2. Int64(sum) > 0 /\ M = MaxInt64
    BY <1>12, <2>1
  <2>3. ~(sum > M)
    BY <1>18, <2>2 DEF Int64
  <2> QED BY <2>1, <2>2, <2>3 DEF Int64
<1>20. sum * T = (W * T + F) * U
  <2>1. (F * Z) * T = F * U
    BY <1>13
  <2>2. (W * U) * T = (W * T) * U
    OBVIOUS
  <2>3. sum * T = (W * U) * T + (F * Z) * T
    BY <1>17
  <2>4. (W * T + F) * U = (W * T) * U + F * U
    OBVIOUS
  <2> QED BY <2>1, <2>2, <2>3, <2>4
<1>21. Decimal(w \o f) = W * T + F
  BY <1>8, <1>12
<1> QED BY <1>12, <1>19, <1>20, <1>21 DEF w, f, l

-----------------------------------------------------------------------------
(* What is made of a text *)

\* What is regrouped is as many values as are asked for.
LEMMA RegroupIsBytes ==
  ASSUME NEW values, NEW from \in Nat, NEW to \in Nat, NEW n \in Nat
  PROVE  Regroup(values, from, to, n) \in Bytes /\ Len(Regroup(values, from, to, n)) = n
<1> DEFINE bit(i) == IF i < from * Len(values) THEN Bit(values, from, i) ELSE 0
           group(j) == [k \in 1 .. to |-> bit(to * (j - 1) + k - 1)]
           value(j) == ValueOf(2, group(j))
<1>1. \A i : bit(i) \in Nat
  BY DEF Bit
<1> HIDE DEF bit
<1>2. ASSUME NEW j \in 1 .. n PROVE value(j) \in Nat
  <2>1. group(j) \in [1 .. to -> Nat] /\ Len(group(j)) = to
    BY <1>1
  <2> HIDE DEF group
  <2> QED BY <2>1, ValueOfIsNat
<1>3. Regroup(values, from, to, n) = [j \in 1 .. n |-> value(j)]
  BY DEF Regroup, bit
<1> HIDE DEF value
<1> QED BY <1>2, <1>3 DEF Bytes

\* The last of some places is one of them.
LEMMA LastIsThere ==
  ASSUME NEW n \in Nat, NEW S \in SUBSET (1 .. n), S # {}
  PROVE  Max(S) \in S
<1> DEFINE T == {n - i : i \in S}
<1>1. T \in SUBSET Nat /\ T # {}
  <2>1. \A i \in 1 .. n : n - i \in Nat
    OBVIOUS
  <2> QED BY <2>1
<1>2. PICK m \in T : \A k \in T : m <= k
  <2> HIDE DEF T
  <2> QED BY <1>1, SomeNumberIsFirst
<1>3. PICK x \in S : m = n - x
  BY <1>2
<1>4. ASSUME NEW y \in S PROVE x >= y
  <2>1. n - y \in T
    OBVIOUS
  <2>2. m <= n - y
    BY <1>2, <2>1
  <2> HIDE DEF T
  <2> QED BY <1>3, <2>2
<1> HIDE DEF T
<1> QED BY <1>3, <1>4 DEF Max

\* The bytes of a decoded text, whatever the text.
LEMMA ProgramIsBytes ==
  ASSUME NEW t, DecodeGeneric(t).ok, DecodeGeneric(t).data # <<>>
  PROVE  ToBytes(Tail(DecodeGeneric(t).data)) \in Bytes
<1> DEFINE s   == t.chars
           seps == {i \in 1 .. Len(s) : s[i] = "1"}
           sep == IF seps = {} THEN 0 ELSE Max(seps)
           part == SubSeq(s, sep + 1, Len(s))
           values == [i \in 1 .. Len(part) |-> CharsetRev[part[i]]]
           data == SubSeq(values, 1, Len(values) - 6)
<1>1. Len(s) \in 8 .. 90 /\ sep >= 2 /\ DecodeGeneric(t).data = data
  BY DEF DecodeGeneric, Malformed
<1> HIDE DEF s, data
<1>2. sep \in 1 .. Len(s)
  <2>1. seps \subseteq 1 .. Len(s)
    OBVIOUS
  <2> HIDE DEF seps
  <2>2. seps # {}
    BY <1>1
  <2>3. Max(seps) \in seps
    <3>1. Len(s) \in Nat
      <4> HIDE DEF sep
      <4> QED BY <1>1
    <3> QED BY <2>1, <2>2, <3>1, LastIsThere
  <2> QED BY <2>1, <2>2, <2>3
<1> HIDE DEF sep
<1>3. Len(part) \in Nat
  <2>1. sep + 1 \in Int /\ Len(s) \in Int
    BY <1>1, <1>2
  <2> DEFINE all == {s[i] : i \in sep + 1 .. Len(s)}
  <2>2. \A i \in sep + 1 .. Len(s) : s[i] \in all
    OBVIOUS
  <2> HIDE DEF all
  <2>3. part \in Seq(all)
    BY <2>1, <2>2, SubSeqProperties
  <2> HIDE DEF part
  <2> QED BY <2>3, LenProperties
<1> HIDE DEF part
<1> DEFINE all == {values[i] : i \in 1 .. Len(values) - 6}
<1>4. data \in Seq(all)
  <2>1. Len(values) = Len(part)
    BY <1>3
  <2>2. \A i \in 1 .. Len(values) - 6 : values[i] \in all
    OBVIOUS
  <2> HIDE DEF all, values
  <2> QED BY <1>3, <2>1, <2>2, SubSeqProperties DEF data
<1> HIDE DEF all
<1>5. Len(Tail(data)) \in Nat
  <2>1. data # <<>>
    BY <1>1
  <2> QED BY <1>4, <2>1, HeadTailProperties, LenProperties
<1>6. (5 * Len(Tail(data))) \div 8 \in Nat
  <2> DEFINE l == Len(Tail(data))
  <2>1. l \in Nat
    BY <1>5
  <2> HIDE DEF l
  <2>2. (5 * l) \div 8 \in Nat
    BY <2>1
  <2> QED BY <2>2 DEF l
<1> QED BY <1>1, <1>6, RegroupIsBytes DEF ToBytes

\* Where nothing is accepted, the script is empty.
LEMMA NothingIsScript ==
  IsScript(<<>>)
<1>1. <<>> \in Bytes /\ Len(<<>>) = 0
  BY DEF Bytes
<1> QED BY <1>1 DEF IsScript, Short

\* The script of a destination is bytes, and not many, whatever the text: a segwit
\* program of the lengths that are known, under its version, or a legacy payload.
LEMMA DestinationIsScript ==
  ASSUME NEW t, t.legacy = NoLegacy \/ t.legacy.payload \in Bytes
  PROVE  IsScript(DecodeMainnetDestination(t).script)
<1>1. IsScript(Refused.script)
  BY NothingIsScript DEF Refused
<1>2. ASSUME NEW type, NEW script, IsScript(script) PROVE IsScript(Accepted(type, script).script)
  BY <1>2 DEF Accepted
<1>3. ASSUME t.legacy.payload \in Bytes
      PROVE  IsScript(LegacyDestination(t.legacy.version, t.legacy.payload).script)
  <2> DEFINE payload == t.legacy.payload
             hash == <<118, 169, 20>> \o payload \o <<136, 172>>
             script == <<169, 20>> \o payload \o <<135>>
  <2>1. CASE Len(payload) = 20
    <3>1. PICK a, b, c, d : a = <<118, 169, 20>> /\ b = <<136, 172>> /\ c = <<169, 20>> /\ d = <<135>>
      OBVIOUS
    <3>2. /\ a \in Bytes /\ b \in Bytes /\ c \in Bytes /\ d \in Bytes
          /\ Len(a) = 3 /\ Len(b) = 2 /\ Len(c) = 2 /\ Len(d) = 1
      BY <3>1 DEF Bytes
    <3>3. hash = a \o payload \o b /\ script = c \o payload \o d
      BY <3>1
    <3> HIDE DEF payload, hash, script
    <3>4. /\ a \o payload \in Bytes /\ Len(a \o payload) = Len(a) + Len(payload)
          /\ c \o payload \in Bytes /\ Len(c \o payload) = Len(c) + Len(payload)
      BY <1>3, <3>2, ConcatIsBytes DEF payload
    <3>5. /\ hash \in Bytes /\ Len(hash) = Len(a \o payload) + Len(b)
          /\ script \in Bytes /\ Len(script) = Len(c \o payload) + Len(d)
      BY <3>2, <3>3, <3>4, ConcatIsBytes
    <3>6. Len(hash) = 25 /\ Len(script) = 23
      BY <2>1, <3>2, <3>4, <3>5
    <3>7. IsScript(hash) /\ IsScript(script)
      <4>1. Short(Len(hash)) /\ Short(Len(script))
        BY <3>6 DEF Short
      <4> QED BY <3>5, <4>1 DEF IsScript
    <3>8. LegacyDestination(t.legacy.version, payload) \in
            {Accepted("P2PKH", hash), Accepted("P2SH", script), Refused}
      BY DEF LegacyDestination, hash, script
    <3> QED BY <1>1, <1>2, <3>7, <3>8 DEF payload
  <2>2. CASE Len(payload) # 20
    BY <1>1, <2>2 DEF LegacyDestination
  <2> QED BY <2>1, <2>2
<1>4. IsScript(SegwitDestination(t).script)
  <2> DEFINE d == DecodeGeneric(t)
             program == ToBytes(Tail(d.data))
             type == DestinationType(d.data[1], Len(program))
             witver == d.data[1]
  <2>1. CASE d.ok /\ d.data # <<>> /\ type # ""
    <3>1. program \in Bytes
      BY <2>1, ProgramIsBytes
    <3>2. witver \in {0, 1, 2} /\ Len(program) \in {20, 32}
      BY <2>1 DEF DestinationType, WitnessVersion, AddressLength
    <3>3. IsScript(WitnessScript(witver, program))
      <4> DEFINE opcode == IF witver = 0 THEN 0 ELSE 80 + witver
                 front == <<opcode, Len(program)>>
      <4> HIDE DEF program, witver
      <4>1. opcode \in Nat /\ Len(program) \in Nat
        BY <3>1, <3>2, LenProperties DEF Bytes
      <4>2. front \in Bytes /\ Len(front) = 2
        <5> HIDE DEF opcode
        <5> QED BY <4>1 DEF Bytes
      <4>3. WitnessScript(witver, program) = front \o program
        BY DEF WitnessScript
      <4> HIDE DEF front
      <4>4. front \o program \in Bytes /\ Len(front \o program) = Len(front) + Len(program)
        BY <3>1, <4>2, ConcatIsBytes
      <4>5. PICK l \in Nat, all \in Nat : l = Len(program) /\ all = Len(front \o program) /\ all = 2 + l
        BY <4>2, <4>4
      <4>6. l = 20 \/ l = 32
        BY <3>2, <4>5
      <4>7. all = 22 \/ all = 34
        <5>1. all = 2 + l
          BY <4>5
        <5> QED BY <4>6, <5>1
      <4>8. Short(all)
        BY <4>7 DEF Short
      <4> QED BY <4>3, <4>4, <4>5, <4>8 DEF IsScript
    <3>4. SegwitDestination(t) \in {Accepted(type, WitnessScript(witver, program)), Refused}
      BY DEF SegwitDestination
    <3> HIDE DEF witver, program, type
    <3> QED BY <1>1, <1>2, <3>3, <3>4
  <2>2. CASE ~(d.ok /\ d.data # <<>> /\ type # "")
    <3>1. SegwitDestination(t) = Refused
      BY <2>2 DEF SegwitDestination
    <3> QED BY <1>1, <3>1
  <2> QED BY <2>1, <2>2
<1>5. CASE t.legacy # NoLegacy
  BY <1>3, <1>5 DEF DecodeMainnetDestination
<1>6. CASE t.legacy = NoLegacy
  BY <1>1, <1>4, <1>6 DEF DecodeMainnetDestination
<1> QED BY <1>5, <1>6

\* So is the script of an address of the wallet's own.
LEMMA OwnScriptIsScript ==
  ASSUME NEW t
  PROVE  IsScript(P2QPKScript(t).script)
<1> DEFINE d == DecodeGeneric(t)
           program == ToBytes(Tail(d.data))
<1>1. CASE Decode(t).ok
  <2>1. d.ok /\ d.data # <<>> /\ Decode(t) = Accepted("P2QPK", program) /\ Len(program) = 32
    BY <1>1 DEF Decode, Refused, AddressLength
  <2>2. PICK front : front = <<82, 32>>
    OBVIOUS
  <2>3. program \in Bytes /\ front \in Bytes /\ Len(front) = 2
    <3>1. program \in Bytes
      BY <2>1, ProgramIsBytes
    <3>2. front \in Bytes /\ Len(front) = 2
      BY <2>2 DEF Bytes
    <3> QED BY <3>1, <3>2
  <2>4. P2QPKScript(t).script = front \o program
    BY <1>1, <2>1, <2>2 DEF P2QPKScript, Accepted
  <2> HIDE DEF program
  <2>5. front \o program \in Bytes /\ Len(front \o program) = Len(front) + Len(program)
    BY <2>3, ConcatIsBytes
  <2>6. Len(front \o program) = 34
    BY <2>1, <2>3, <2>5
  <2>7. Short(Len(front \o program))
    BY <2>6 DEF Short
  <2> QED BY <2>4, <2>5, <2>7 DEF IsScript
<1>2. CASE ~Decode(t).ok
  BY <1>2, NothingIsScript DEF P2QPKScript, Refused
<1> QED BY <1>1, <1>2

\* No character of the charset is a blank.
LEMMA NoBlanks ==
  " " \notin Range(Charset)
<1> DEFINE T == {"q", "p", "z", "r", "y", "9", "x", "8", "g", "f", "2", "t", "v", "d", "w", "0",
                 "s", "3", "j", "n", "5", "4", "k", "h", "c", "e", "6", "m", "u", "a", "7", "l"}
<1>1. Charset \in Seq(T)
  BY SMTT(60) DEF Charset
<1>2. " " \notin T
  OBVIOUS
<1>3. \A i \in DOMAIN Charset : Charset[i] \in T
  <2> HIDE DEF T
  <2> QED BY <1>1, LenProperties, ElementOfSeq
<1> QED BY <1>2, <1>3 DEF Range

\* The mainnet P2QPK address that a text decodes to.
MainnetProgram(t, program) ==
  LET d == DecodeGeneric(t)
  IN  /\ d.ok /\ d.data # <<>> /\ HasBytes(Tail(d.data))
      /\ d.constant = ConstantForWitnessVersion(d.data[1])
      /\ d.data[1] = 2 /\ Len(program) = 32
      /\ d.hrp = HRP.Mainnet /\ program = ToBytes(Tail(d.data))

\* Both decoders make the same of it.
LEMMA BothDecode ==
  ASSUME NEW t, NEW program, MainnetProgram(t, program)
  PROVE  SegwitDestination(t) = P2QPKScript(t)
<1> DEFINE d == DecodeGeneric(t)
           type == DestinationType(d.data[1], Len(program))
<1>0. /\ d.ok /\ d.data # <<>> /\ HasBytes(Tail(d.data))
      /\ d.constant = ConstantForWitnessVersion(d.data[1])
      /\ d.data[1] = 2 /\ Len(program) = 32
      /\ d.hrp = HRP.Mainnet /\ program = ToBytes(Tail(d.data))
  BY DEF MainnetProgram
<1>1. HRP.Mainnet \in Range(HRP)
  BY DEF HRP, Range
<1>2. type = "P2QPK"
  BY <1>0 DEF DestinationType, WitnessVersion, AddressLength
<1>3. WitnessScript(d.data[1], program) = <<82, 32>> \o program
  <2>1. PICK v, l : v = d.data[1] /\ l = Len(program)
    OBVIOUS
  <2>2. v = 2 /\ l = 32
    BY <1>0, <2>1
  <2>3. (IF v = 0 THEN 0 ELSE 80 + v) = 82
    BY <2>2
  <2>4. WitnessScript(v, program) = <<82, l>> \o program
    BY <2>1, <2>3 DEF WitnessScript
  <2> QED BY <2>1, <2>2, <2>4
<1>4. SegwitDestination(t) = Accepted(type, WitnessScript(d.data[1], program))
  <2>1. d.data[1] <= 16 /\ type # ""
    <3>1. type # ""
      BY <1>2
    <3>2. PICK v : v = d.data[1]
      OBVIOUS
    <3>3. v = 2
      BY <1>0, <3>2
    <3>4. v <= 16
      BY <3>3
    <3> QED BY <3>1, <3>2, <3>4
  <2> HIDE DEF type
  <2> QED BY <1>0, <2>1 DEF SegwitDestination, type
<1>5. Decode(t) = Accepted("P2QPK", program)
  BY <1>0, <1>1 DEF Decode, WitnessVersion, AddressLength
<1>6. P2QPKScript(t) = Accepted("P2QPK", <<82, 32>> \o program)
  BY <1>5 DEF P2QPKScript, Accepted
<1> QED BY <1>2, <1>3, <1>4, <1>6

\* What is accepted as a P2QPK destination is an address of the wallet's own.
LEMMA AcceptedByBoth ==
  ASSUME NEW t, DecodeMainnetDestination(t).type = "P2QPK"
  PROVE  P2QPKScript(t) = DecodeMainnetDestination(t)
<1> DEFINE d == DecodeGeneric(t)
           program == ToBytes(Tail(d.data))
           type == DestinationType(d.data[1], Len(program))
<1>1. Refused.type # "P2QPK"
  BY DEF Refused
<1>2. \A version, payload : LegacyDestination(version, payload).type # "P2QPK"
  BY DEF LegacyDestination, Accepted, Refused
<1>3. DecodeMainnetDestination(t) = SegwitDestination(t)
  BY <1>1, <1>2 DEF DecodeMainnetDestination
<1>4. /\ d.ok /\ d.data # <<>> /\ HasBytes(Tail(d.data)) /\ d.hrp = HRP.Mainnet
      /\ d.constant = ConstantForWitnessVersion(d.data[1])
      /\ SegwitDestination(t) = Accepted(type, WitnessScript(d.data[1], program))
  BY <1>1, <1>3 DEF SegwitDestination
<1>5. type = "P2QPK"
  BY <1>3, <1>4 DEF Accepted
<1>6. d.data[1] = 2 /\ Len(program) = 32
  BY <1>5 DEF DestinationType, WitnessVersion, AddressLength
<1>7. MainnetProgram(t, program)
  BY <1>4, <1>6 DEF MainnetProgram
<1> HIDE DEF program
<1> QED BY <1>3, <1>7, BothDecode

\* The two decoders, written separately, agree, whatever the text: each mainnet
\* P2QPK destination is an address of the wallet's own, with the same script, and
\* each address of the wallet's own that has the mainnet prefix is such a
\* destination.
THEOREM DecodersAgree ==
  ASSUME NEW t, t.chars \in Seq(STRING), t.legacy # NoLegacy => t.chars = <<>>
  PROVE  /\ DecodeMainnetDestination(t).type = "P2QPK" => P2QPKScript(t) = DecodeMainnetDestination(t)
         /\ P2QPKScript(t).ok /\ DecodeGeneric(t).hrp = HRP.Mainnet
              => DecodeMainnetDestination(t) = P2QPKScript(t)
<1> DEFINE d == DecodeGeneric(t)
           program == ToBytes(Tail(d.data))
           s    == t.chars
           seps == {i \in 1 .. Len(s) : s[i] = "1"}
           sep  == IF seps = {} THEN 0 ELSE Max(seps)
           hrp  == SubSeq(s, 1, sep - 1)
           part == SubSeq(s, sep + 1, Len(s))
<1>1. SUFFICES ASSUME P2QPKScript(t).ok, d.hrp = HRP.Mainnet
               PROVE  DecodeMainnetDestination(t) = P2QPKScript(t)
  BY AcceptedByBoth
<1>2. Decode(t).ok
  BY <1>1 DEF P2QPKScript, Refused
<1>3. /\ d.ok /\ d.data # <<>> /\ HasBytes(Tail(d.data))
      /\ d.constant = ConstantForWitnessVersion(d.data[1])
      /\ d.data[1] = 2 /\ Len(program) = 32
  BY <1>2 DEF Decode, Refused, WitnessVersion, AddressLength
<1>4. SegwitDestination(t) = P2QPKScript(t)
  <2>1. MainnetProgram(t, program)
    BY <1>1, <1>3 DEF MainnetProgram
  <2> HIDE DEF program
  <2> QED BY <2>1, BothDecode
<1>5. /\ sep >= 2 /\ sep + 6 <= Len(s) /\ d.hrp = hrp
      /\ " " \notin Range(hrp) /\ Range(part) \subseteq Range(Charset)
  BY <1>3 DEF DecodeGeneric, Malformed
<1>6. s \in Seq(STRING) /\ Len(s) \in Nat
  BY LenProperties
<1>7. sep \in Nat
  <2>1. seps \in SUBSET (1 .. Len(s))
    BY <1>6
  <2>2. seps = {} \/ Max(seps) \in seps
    <3> HIDE DEF seps, s
    <3> QED BY <1>6, <2>1, LastIsThere
  <2> QED BY <2>2
<1> HIDE DEF sep
<1>8. s # <<>> /\ t.legacy = NoLegacy
  <2>1. Len(<<>>) = 0
    OBVIOUS
  <2>2. s # <<>>
    <3>1. sep >= 2 /\ sep + 6 <= Len(s)
      BY <1>5
    <3> HIDE DEF s
    <3> QED BY <1>7, <2>1, <3>1
  <2> QED BY <2>2
<1> HIDE DEF s
<1>9. sep \in Nat /\ sep >= 2 /\ sep + 6 <= Len(s) /\ Len(s) \in Nat
  BY <1>5, <1>6, <1>7
<1>10. ASSUME NEW a \in Nat \ {0}, NEW b \in Int, b <= Len(s)
      PROVE  /\ SubSeq(s, a, b) \in Seq(STRING)
             /\ \A i \in 1 .. b - a + 1 : SubSeq(s, a, b)[i] = s[a + i - 1] /\ i \in DOMAIN SubSeq(s, a, b)
  <2>1. \A i \in a .. b : s[i] \in STRING
    <3>1. \A i \in a .. b : i \in 1 .. Len(s)
      BY <1>9, <1>10
    <3> QED BY <1>6, <3>1, ElementOfSeq
  <2>2. /\ SubSeq(s, a, b) \in Seq(STRING)
        /\ Len(SubSeq(s, a, b)) = (IF a <= b THEN b - a + 1 ELSE 0)
        /\ \A i \in 1 .. b - a + 1 : SubSeq(s, a, b)[i] = s[a + i - 1]
    BY <2>1, SubSeqProperties
  <2>3. DOMAIN SubSeq(s, a, b) = 1 .. Len(SubSeq(s, a, b))
    BY <2>2, LenProperties
  <2> QED BY <2>2, <2>3
<1>11. s[1] # " "
  <2>1. PICK a, b : a = 1 /\ b = sep - 1 /\ a \in Nat \ {0} /\ b \in Int /\ b <= Len(s)
    BY <1>9
  <2>2. \A i \in 1 .. b - a + 1 : SubSeq(s, a, b)[i] = s[a + i - 1] /\ i \in DOMAIN SubSeq(s, a, b)
    BY <1>10, <2>1
  <2>3. PICK i : i = 1 /\ i \in 1 .. b - a + 1 /\ a + i - 1 = 1
    BY <1>9, <2>1
  <2>4. hrp[i] = s[1] /\ i \in DOMAIN hrp
    BY <2>1, <2>2, <2>3
  <2>5. hrp[i] \in Range(hrp)
    BY <2>4 DEF Range
  <2> HIDE DEF hrp
  <2> QED BY <1>5, <2>4, <2>5
<1>12. s[Len(s)] # " "
  <2>1. PICK a, b : a = sep + 1 /\ b = Len(s) /\ a \in Nat \ {0} /\ b \in Int /\ b <= Len(s)
    BY <1>9
  <2>2. \A i \in 1 .. b - a + 1 : SubSeq(s, a, b)[i] = s[a + i - 1] /\ i \in DOMAIN SubSeq(s, a, b)
    BY <1>10, <2>1
  <2>3. PICK i : i = Len(s) - sep /\ i \in 1 .. b - a + 1 /\ a + i - 1 = Len(s)
    BY <1>9, <2>1
  <2>4. part[i] = s[Len(s)] /\ i \in DOMAIN part
    BY <2>1, <2>2, <2>3
  <2>5. part[i] \in Range(part)
    BY <2>4 DEF Range
  <2> HIDE DEF part
  <2> QED BY <1>5, <2>4, <2>5, NoBlanks
<1>13. DecodeMainnetDestination(t) = SegwitDestination(t)
  BY <1>8, <1>11, <1>12 DEF DecodeMainnetDestination, s
<1> QED BY <1>4, <1>13

-----------------------------------------------------------------------------
(* What is serialized is bytes *)

Inputs == [TxIDLE : Bytes, Vout : Int, NSequence : Bytes]
Outputs == [Amount : Int, Script : Bytes]
Witnesses == [Sig : Bytes, PubKey : Bytes]
Transactions == [NVersion : Int, NLockTime : Int, Inputs : Seq(Inputs),
                 SpentUTXOs : Seq(Outputs), Outputs : Seq(Outputs)]

\* A compact size is bytes, and so are bytes after their number.
LEMMA CompactSizeIsBytes ==
  ASSUME NEW v \in Nat
  PROVE  CompactSize(v) \in Bytes
<1>1. <<v>> \in Bytes /\ <<253>> \in Bytes
  BY DEF Bytes
<1>2. LE(v, 2) \in Bytes
  BY LEIsBytes
<1> QED BY <1>1, <1>2, ConcatIsBytes DEF CompactSize

\* An item of a witness is bytes.
LEMMA ItemIsBytes ==
  ASSUME NEW s \in Bytes
  PROVE  Item(s) \in Bytes
<1>1. Len(s) \in Nat
  BY LenProperties DEF Bytes
<1> QED BY <1>1, CompactSizeIsBytes, ConcatIsBytes DEF Item

\* An input, an output and a witness are written as bytes.
LEMMA FieldsAreBytes ==
  /\ \A in \in Inputs : InputBytes(in) \in Bytes
  /\ \A out \in Outputs : OutputBytes(out) \in Bytes
  /\ \A w \in Witnesses : WitnessBytes(w) \in Bytes
<1>1. ASSUME NEW in \in Inputs PROVE InputBytes(in) \in Bytes
  <2>1. in.TxIDLE \in Bytes /\ LE(in.Vout, 4) \in Bytes /\ CompactSize(0) \in Bytes /\ in.NSequence \in Bytes
    BY LEIsBytes, CompactSizeIsBytes DEF Inputs
  <2>2. in.TxIDLE \o LE(in.Vout, 4) \in Bytes
    BY <2>1, ConcatIsBytes
  <2>3. in.TxIDLE \o LE(in.Vout, 4) \o CompactSize(0) \in Bytes
    BY <2>1, <2>2, ConcatIsBytes
  <2> QED BY <2>1, <2>3, ConcatIsBytes DEF InputBytes
<1>2. ASSUME NEW out \in Outputs PROVE OutputBytes(out) \in Bytes
  <2>1. out.Script \in Bytes /\ LE(out.Amount, 8) \in Bytes
    BY LEIsBytes DEF Outputs
  <2>2. CompactSize(Len(out.Script)) \in Bytes
    BY <2>1, LenProperties, CompactSizeIsBytes DEF Bytes
  <2>3. LE(out.Amount, 8) \o CompactSize(Len(out.Script)) \in Bytes
    BY <2>1, <2>2, ConcatIsBytes
  <2> QED BY <2>1, <2>3, ConcatIsBytes DEF OutputBytes
<1>3. ASSUME NEW w \in Witnesses PROVE WitnessBytes(w) \in Bytes
  <2>1. CompactSize(2) \in Bytes /\ Item(w.Sig) \in Bytes /\ Item(w.PubKey) \in Bytes
    BY CompactSizeIsBytes, ItemIsBytes DEF Witnesses
  <2>2. CompactSize(2) \o Item(w.Sig) \in Bytes
    BY <2>1, ConcatIsBytes
  <2> QED BY <2>1, <2>2, ConcatIsBytes DEF WitnessBytes
<1> QED BY <1>1, <1>2, <1>3

\* Each part of a serialized transaction is bytes.
LEMMA PartsAreBytes ==
  ASSUME NEW t \in Transactions, NEW witnesses \in Seq(Witnesses)
  PROVE  /\ LE(t.NVersion, 4) \in Bytes /\ Len(LE(t.NVersion, 4)) = 4
         /\ LE(t.NLockTime, 4) \in Bytes
         /\ CompactSize(Len(t.Inputs)) \in Bytes /\ Each(t.Inputs, InputBytes) \in Bytes
         /\ CompactSize(Len(t.Outputs)) \in Bytes /\ Each(t.Outputs, OutputBytes) \in Bytes
         /\ Each(witnesses, WitnessBytes) \in Bytes
<1>1. t.Inputs \in Seq(Inputs) /\ t.Outputs \in Seq(Outputs) /\ t.NVersion \in Int /\ t.NLockTime \in Int
  BY DEF Transactions
<1>2. Len(t.Inputs) \in Nat /\ Len(t.Outputs) \in Nat /\ Len(witnesses) \in Nat
  BY <1>1, LenProperties
<1>3. Each(t.Inputs, InputBytes) \in Bytes
  <2>1. \A i \in 1 .. Len(t.Inputs) : InputBytes(t.Inputs[i]) \in Bytes
    BY <1>1, FieldsAreBytes, ElementOfSeq
  <2>2. [i \in 1 .. Len(t.Inputs) |-> InputBytes(t.Inputs[i])] \in Seq(Bytes)
    BY <1>2, <2>1
  <2> QED BY <2>2, FlattenIsBytes DEF Each
<1>4. Each(t.Outputs, OutputBytes) \in Bytes
  <2>1. \A i \in 1 .. Len(t.Outputs) : OutputBytes(t.Outputs[i]) \in Bytes
    BY <1>1, FieldsAreBytes, ElementOfSeq
  <2>2. [i \in 1 .. Len(t.Outputs) |-> OutputBytes(t.Outputs[i])] \in Seq(Bytes)
    BY <1>2, <2>1
  <2> QED BY <2>2, FlattenIsBytes DEF Each
<1>5. Each(witnesses, WitnessBytes) \in Bytes
  <2>1. \A i \in 1 .. Len(witnesses) : WitnessBytes(witnesses[i]) \in Bytes
    BY FieldsAreBytes, ElementOfSeq
  <2>2. [i \in 1 .. Len(witnesses) |-> WitnessBytes(witnesses[i])] \in Seq(Bytes)
    BY <1>2, <2>1
  <2> QED BY <2>2, FlattenIsBytes DEF Each
<1>6. /\ LE(t.NVersion, 4) \in Bytes /\ Len(LE(t.NVersion, 4)) = 4
      /\ LE(t.NLockTime, 4) \in Bytes
  BY <1>1, WidthsAreBytes
<1>7. CompactSize(Len(t.Inputs)) \in Bytes /\ CompactSize(Len(t.Outputs)) \in Bytes
  BY <1>2, CompactSizeIsBytes
<1> QED BY <1>3, <1>4, <1>5, <1>6, <1>7

\* What SerializeBIP144 and p2qpkTxID write is bytes, and not none.
LEMMA SerializedIsBytes ==
  ASSUME NEW t \in Transactions, NEW witnesses \in Seq(Witnesses)
  PROVE  /\ SerializeBIP144(t, witnesses) \in Bytes
         /\ P2qpkTxID(t) \in Bytes /\ P2qpkTxID(t) # NoTxID
<1> DEFINE version == LE(t.NVersion, 4)
           time    == LE(t.NLockTime, 4)
           nin     == CompactSize(Len(t.Inputs))
           ins     == Each(t.Inputs, InputBytes)
           nout    == CompactSize(Len(t.Outputs))
           outs    == Each(t.Outputs, OutputBytes)
           wit     == Each(witnesses, WitnessBytes)
<1>1. /\ version \in Bytes /\ Len(version) = 4 /\ time \in Bytes /\ nin \in Bytes /\ ins \in Bytes
      /\ nout \in Bytes /\ outs \in Bytes /\ wit \in Bytes
  BY PartsAreBytes
<1>2. /\ SerializeBIP144(t, witnesses) = version \o <<0, 1>> \o nin \o ins \o nout \o outs \o wit \o time
      /\ P2qpkTxID(t) = version \o nin \o ins \o nout \o outs \o time
  BY DEF SerializeBIP144, P2qpkTxID
<1> HIDE DEF version, time, nin, ins, nout, outs, wit
<1>3. version \o <<0, 1>> \o nin \o ins \o nout \o outs \o wit \o time \in Bytes
  <2>1. version \o <<0, 1>> \in Bytes
    <3>1. <<0, 1>> \in Bytes
      BY DEF Bytes
    <3> QED BY <1>1, <3>1, ConcatIsBytes
  <2>2. version \o <<0, 1>> \o nin \in Bytes
    BY <1>1, <2>1, ConcatIsBytes
  <2>3. version \o <<0, 1>> \o nin \o ins \in Bytes
    BY <1>1, <2>2, ConcatIsBytes
  <2>4. version \o <<0, 1>> \o nin \o ins \o nout \in Bytes
    BY <1>1, <2>3, ConcatIsBytes
  <2>5. version \o <<0, 1>> \o nin \o ins \o nout \o outs \in Bytes
    BY <1>1, <2>4, ConcatIsBytes
  <2>6. version \o <<0, 1>> \o nin \o ins \o nout \o outs \o wit \in Bytes
    BY <1>1, <2>5, ConcatIsBytes
  <2> QED BY <1>1, <2>6, ConcatIsBytes
<1>4. /\ version \o nin \o ins \o nout \o outs \o time \in Bytes
      /\ Len(version \o nin \o ins \o nout \o outs \o time) > 0
  <2>0. ASSUME NEW s \in Bytes, NEW b \in Bytes, Len(s) >= 4
        PROVE  s \o b \in Bytes /\ Len(s \o b) >= 4
    <3>1. Len(s) \in Nat /\ Len(b) \in Nat
      BY LenProperties DEF Bytes
    <3> QED BY <2>0, <3>1, ConcatIsBytes
  <2>1. version \o nin \in Bytes /\ Len(version \o nin) >= 4
    <3>1. Len(version) >= 4
      BY <1>1
    <3> QED BY <1>1, <2>0, <3>1
  <2>2. version \o nin \o ins \in Bytes /\ Len(version \o nin \o ins) >= 4
    BY <1>1, <2>0, <2>1
  <2>3. version \o nin \o ins \o nout \in Bytes /\ Len(version \o nin \o ins \o nout) >= 4
    BY <1>1, <2>0, <2>2
  <2>4. /\ version \o nin \o ins \o nout \o outs \in Bytes
        /\ Len(version \o nin \o ins \o nout \o outs) >= 4
    BY <1>1, <2>0, <2>3
  <2>5. /\ version \o nin \o ins \o nout \o outs \o time \in Bytes
        /\ Len(version \o nin \o ins \o nout \o outs \o time) >= 4
    BY <1>1, <2>0, <2>4
  <2>6. Len(version \o nin \o ins \o nout \o outs \o time) \in Nat
    BY <2>5, LenProperties DEF Bytes
  <2> QED BY <2>5, <2>6
<1>5. Len(NoTxID) = 0
  BY DEF NoTxID
<1> QED BY <1>2, <1>3, <1>4, <1>5

-----------------------------------------------------------------------------
(* A reading inverts a writing *)

\* In raw, after the first "at" bytes, come those of b.
Holds(raw, at, b) ==
  at \in Nat /\ at + Len(b) <= Len(raw) /\ \A i \in 1 .. Len(b) : raw[at + i] = b[i]

\* All bytes come after none; what comes after "at" can be split.
LEMMA HoldsParts ==
  ASSUME NEW raw \in Bytes, NEW at, NEW a \in Bytes, NEW b \in Bytes, Holds(raw, at, a \o b)
  PROVE  Holds(raw, at, a) /\ Holds(raw, at + Len(a), b)
<1> DEFINE ab == a \o b
           p == at + Len(a)
<1>1. /\ Len(a) \in Nat /\ Len(b) \in Nat /\ Len(raw) \in Nat /\ Len(ab) = Len(a) + Len(b)
      /\ \A i \in 1 .. Len(a) + Len(b) : ab[i] = IF i <= Len(a) THEN a[i] ELSE b[i - Len(a)]
  BY LenProperties, ConcatProperties DEF Bytes
<1>2. at \in Nat /\ at + Len(ab) <= Len(raw) /\ \A i \in 1 .. Len(ab) : raw[at + i] = ab[i]
  BY DEF Holds
<1> HIDE DEF ab
<1>3. \A i \in 1 .. Len(a) : raw[at + i] = a[i]
  <2>1. ASSUME NEW i \in 1 .. Len(a) PROVE raw[at + i] = a[i]
    <3>1. i \in 1 .. Len(a) + Len(b) /\ i <= Len(a)
      BY <1>1
    <3> QED BY <1>1, <1>2, <3>1
  <2> QED BY <2>1
<1>4. \A i \in 1 .. Len(b) : raw[p + i] = b[i]
  <2>1. ASSUME NEW i \in 1 .. Len(b) PROVE raw[p + i] = b[i]
    <3>1. PICK j \in 1 .. Len(a) + Len(b) : j = Len(a) + i
      BY <1>1
    <3>2. ~(j <= Len(a)) /\ j - Len(a) = i /\ at + j = p + i
      BY <1>1, <1>2, <3>1
    <3>3. raw[at + j] = ab[j] /\ ab[j] = b[j - Len(a)]
      BY <1>1, <1>2, <3>2
    <3> HIDE DEF p
    <3> QED BY <3>2, <3>3
  <2> QED BY <2>1
<1>5. p \in Nat /\ at + Len(a) <= Len(raw) /\ p + Len(b) <= Len(raw)
  BY <1>1, <1>2
<1> QED BY <1>2, <1>3, <1>4, <1>5 DEF Holds

\* Bytes are all there after none of them.
LEMMA HoldsAll ==
  ASSUME NEW raw \in Bytes
  PROVE  Holds(raw, 0, raw)
<1>1. Len(raw) \in Nat
  BY LenProperties DEF Bytes
<1>2. \A i \in 1 .. Len(raw) : 0 + i = i
  BY <1>1
<1> QED BY <1>1, <1>2 DEF Holds

\* They are what is taken there.
LEMMA HoldsTake ==
  ASSUME NEW raw \in Bytes, NEW at, NEW b \in Bytes, Holds(raw, at, b)
  PROVE  /\ Take(raw, at, Len(b)) = [at |-> at + Len(b), got |-> b]
         /\ SubSeq(raw, at + 1, at + Len(b)) = b
<1> DEFINE n == Len(b)
           part == SubSeq(raw, at + 1, at + n)
<1>1. n \in Nat /\ Len(raw) \in Nat
  BY LenProperties DEF Bytes
<1>2. at \in Nat /\ at + n <= Len(raw) /\ \A i \in 1 .. n : raw[at + i] = b[i]
  BY DEF Holds
<1> HIDE DEF n
<1>3. PICK p \in Nat \ {0}, q \in Int : p = at + 1 /\ q = at + n
  BY <1>1, <1>2
<1>4. part = SubSeq(raw, p, q) /\ q <= Len(raw) /\ q - p + 1 = n /\ (IF p <= q THEN q - p + 1 ELSE 0) = n
  BY <1>1, <1>2, <1>3
<1> HIDE DEF part
<1>5. part \in Bytes /\ Len(part) = n /\ \A i \in 1 .. n : part[i] = b[i]
  <2>1. /\ part \in Bytes
        /\ Len(part) = IF p <= q THEN q - p + 1 ELSE 0
        /\ \A i \in 1 .. q - p + 1 : part[i] = raw[p + i - 1]
    BY <1>4, SubSeqIsBytes
  <2>2. \A i \in 1 .. n : p + i - 1 = at + i
    BY <1>2, <1>3
  <2> QED BY <1>2, <1>4, <2>1, <2>2
<1>6. part = b
  BY <1>5, SameBytes DEF n
<1> QED BY <1>6 DEF Take, part, n

\* Where each of the blocks s begins, when the first does at pos[0].
Begins(raw, s, pos) ==
  \A i \in 1 .. Len(s) : pos[i] = pos[i - 1] + Len(s[i]) /\ Holds(raw, pos[i - 1], s[i])

\* Blocks that are written one after the other are there one after the other.
LEMMA FlattenHolds ==
  ASSUME NEW raw \in Bytes, NEW at, NEW s \in Seq(Bytes), Holds(raw, at, FlattenSeq(s))
  PROVE  \E pos : Begins(raw, s, pos) /\ pos[0] = at /\ pos[Len(s)] = at + Len(FlattenSeq(s))
<1> DEFINE n == Len(s)
<1>1. n \in Nat /\ \A i \in 1 .. n : s[i] \in Bytes
  BY LenProperties
<1>2. PICK join : Joins(s, join) /\ FlattenSeq(s) = join[n]
  BY FlattenJoins
<1>3. /\ \A i \in 0 .. n : join[i] \in Bytes
      /\ join[0] = <<>> /\ \A i \in 1 .. n : join[i] = join[i - 1] \o s[i]
  BY <1>2 DEF Joins
<1> HIDE DEF n
<1> DEFINE S == {j \in 0 .. n : Holds(raw, at, join[n - j])}
<1>4. 0 \in S
  BY <1>1, <1>2
<1>5. ASSUME NEW j \in 1 .. n, j - 1 \in S PROVE j \in S
  <2> DEFINE i == n - (j - 1)
  <2>1. i \in 1 .. n /\ i - 1 = n - j /\ i - 1 \in 0 .. n
    BY <1>1
  <2>2. Holds(raw, at, join[i])
    BY <1>5
  <2> HIDE DEF i
  <2>3. Holds(raw, at, join[i - 1])
    <3>1. join[i] = join[i - 1] \o s[i] /\ join[i - 1] \in Bytes /\ s[i] \in Bytes
      BY <1>1, <1>3, <2>1
    <3> QED BY <2>2, <3>1, HoldsParts
  <2> QED BY <2>1, <2>3
<1>6. \A j \in 0 .. n : j \in S
  <2> HIDE DEF S
  <2> QED BY <1>1, <1>4, <1>5, OneByOne
<1>7. \A i \in 0 .. n : Holds(raw, at, join[i])
  <2>1. ASSUME NEW i \in 0 .. n PROVE Holds(raw, at, join[i])
    <3>1. n - i \in 0 .. n /\ n - (n - i) = i
      BY <1>1
    <3>2. n - i \in S
      BY <1>6, <3>1
    <3> QED BY <3>1, <3>2
  <2> QED BY <2>1
<1> DEFINE pos == [i \in 0 .. n |-> at + Len(join[i])]
<1>8. ASSUME NEW i \in 1 .. n
      PROVE  pos[i] = pos[i - 1] + Len(s[i]) /\ Holds(raw, pos[i - 1], s[i])
  <2>1. i - 1 \in 0 .. n /\ i \in 0 .. n
    BY <1>1
  <2>2. join[i] = join[i - 1] \o s[i] /\ join[i - 1] \in Bytes /\ s[i] \in Bytes
    BY <1>1, <1>3, <2>1
  <2>3. Holds(raw, at, join[i - 1] \o s[i])
    BY <1>7, <2>1, <2>2
  <2>4. Holds(raw, at + Len(join[i - 1]), s[i])
    BY <2>2, <2>3, HoldsParts
  <2>5. Len(join[i]) = Len(join[i - 1]) + Len(s[i]) /\ Len(join[i - 1]) \in Nat /\ Len(s[i]) \in Nat
    BY <2>2, ConcatIsBytes, LenProperties DEF Bytes
  <2>6. at \in Nat
    BY <1>7, <2>1 DEF Holds
  <2>7. pos[i - 1] = at + Len(join[i - 1]) /\ pos[i] = at + Len(join[i])
    BY <2>1
  <2> HIDE DEF pos
  <2>8. pos[i] = pos[i - 1] + Len(s[i])
    <3>1. \A x, y \in Nat : at + (x + y) = at + x + y
      BY <2>6
    <3> QED BY <2>5, <2>7, <3>1
  <2> QED BY <2>4, <2>7, <2>8, Zenon
<1>9. pos[0] = at /\ pos[n] = at + Len(join[n])
  <2>1. 0 \in 0 .. n /\ n \in 0 .. n /\ Len(<<>>) = 0
    BY <1>1, EmptySeq
  <2>2. at \in Nat
    BY <1>7, <2>1 DEF Holds
  <2> QED BY <1>3, <2>1, <2>2
<1> HIDE DEF pos
<1> QED BY <1>2, <1>8, <1>9 DEF Begins, n

\* A number of two bytes fits in two, and one of a byte in four.
LEMMA SmallFits ==
  ASSUME NEW v \in Nat
  PROVE  (Short(v) => v < Far /\ Fits(v, 2)) /\ (v <= 255 => Fits(v, 4))
<1>1. ASSUME Short(v) PROVE v < Far /\ Fits(v, 2)
  <2> DEFINE g == Shifts(v, 2)
  <2>1. 2 \in Nat
    OBVIOUS
  <2>2. g[0] = v /\ \A i \in 1 .. 2 : g[i] = g[i - 1] \div 256
    BY <2>1, ShiftsAre
  <2> HIDE DEF g
  <2>3. g[1] = v \div 256
    BY <2>2
  <2>4. g[2] = g[1] \div 256
    BY <2>2
  <2>5. (v \div 256) \div 256 = 0
    BY <1>1 DEF Short
  <2>6. v < Far
    BY <1>1, LengthAssumption DEF Short
  <2> QED BY <2>3, <2>4, <2>5, <2>6 DEF Fits, g
<1>2. ASSUME v <= 255 PROVE Fits(v, 4)
  <2> DEFINE g == Shifts(v, 4)
  <2>1. 4 \in Nat
    OBVIOUS
  <2>2. g[0] = v /\ \A i \in 1 .. 4 : g[i] = g[i - 1] \div 256
    BY <2>1, ShiftsAre
  <2> HIDE DEF g
  <2>3. v \div 256 = 0 /\ 0 \div 256 = 0
    BY <1>2
  <2>4. g[1] = 0
    BY <2>2, <2>3
  <2>5. g[2] = 0
    BY <2>2, <2>3, <2>4
  <2>6. g[3] = 0
    BY <2>2, <2>3, <2>5
  <2>7. g[4] = 0
    BY <2>2, <2>3, <2>6
  <2> QED BY <2>7 DEF Fits, g
<1> QED BY <1>1, <1>2

\* A compact size of up to two bytes is read as it was written.
LEMMA CompactSizeReads ==
  ASSUME NEW raw \in Bytes, NEW at, NEW v \in Nat, Short(v), Holds(raw, at, CompactSize(v))
  PROVE  /\ Len(CompactSize(v)) = CompactSizeLen(v)
         /\ ReadCompact(raw, at, Len(raw)) = [value |-> v, at |-> at + CompactSizeLen(v)]
<1>0. Len(raw) \in Nat
  BY LenProperties DEF Bytes
<1>1. CASE v < 253
  <2>1. CompactSize(v) = <<v>> /\ CompactSizeLen(v) = 1
    BY <1>1 DEF CompactSize, CompactSizeLen
  <2>2. at \in Nat /\ at + 1 <= Len(raw) /\ raw[at + 1] = v
    BY <2>1 DEF Holds
  <2>3. CompactWidth(v) = 0
    BY <1>1 DEF CompactWidth
  <2>4. ~(at = Truncated \/ at >= Len(raw) \/ Len(raw) - at - 1 < 0)
    BY <1>0, <2>2 DEF Truncated
  <2>5. ReadCompact(raw, at, Len(raw)) = [value |-> v, at |-> at + 1 + 0]
    BY <2>2, <2>3, <2>4 DEF ReadCompact
  <2> QED BY <2>1, <2>2, <2>5
<1>2. CASE ~(v < 253)
  <2> DEFINE mark == <<253>>
             low  == LE(v, 2)
  <2>1. CompactSize(v) = mark \o low /\ CompactSizeLen(v) = 3
    BY <1>2 DEF CompactSize, CompactSizeLen
  <2>2. mark \in Bytes /\ Len(mark) = 1 /\ mark[1] = 253 /\ low \in Bytes /\ Len(low) = 2
    <3>1. LE(v, 2) \in Bytes /\ Len(LE(v, 2)) = 2
      <4>1. 2 \in Nat /\ v \in Int
        OBVIOUS
      <4> QED BY <4>1, WidthsAreBytes
    <3> QED BY <3>1 DEF Bytes
  <2>0. mark \in Bytes /\ low \in Bytes
    BY <2>2
  <2>3. PICK p \in Nat : p = at + 1
    BY DEF Holds
  <2> HIDE DEF mark
  <2>4. Holds(raw, at, mark) /\ Holds(raw, p, low)
    <3> HIDE DEF low
    <3>1. Holds(raw, at, mark \o low)
      BY <2>1
    <3>2. Holds(raw, at, mark) /\ Holds(raw, at + Len(mark), low)
      BY <2>0, <3>1, HoldsParts
    <3> QED BY <2>2, <2>3, <3>2
  <2>5. at \in Nat /\ raw[p] = 253
    <3>1. at \in Nat /\ raw[at + 1] = 253
      BY <2>2, <2>4 DEF Holds
    <3> QED BY <2>3, <3>1
  <2>6. p + 2 <= Len(raw)
    BY <2>2, <2>4 DEF Holds
  <2>7. SubSeq(raw, p + 1, p + 2) = LE(v, 2)
    <3> HIDE DEF low
    <3>1. SubSeq(raw, p + 1, p + Len(low)) = low
      BY <2>0, <2>4, HoldsTake
    <3> QED BY <2>2, <3>1 DEF low
  <2>8. LittleEndian(LE(v, 2)) = v
    <3>1. v < Far /\ Fits(v, 2) /\ 2 \in Nat
      BY SmallFits
    <3> QED BY <3>1, LittleEndianInverts
  <2>9. CompactWidth(253) = 2
    BY DEF CompactWidth
  <2>10. ~(at = Truncated \/ at >= Len(raw) \/ Len(raw) - at - 1 < 2)
    BY <1>0, <2>3, <2>5, <2>6 DEF Truncated
  <2>11. at + 1 = p /\ at + 2 = p + 1 /\ at + 1 + 2 = p + 2 /\ at + 3 = p + 2
    BY <2>3, <2>5
  <2>12. ReadCompact(raw, at, Len(raw)) = [value |-> v, at |-> at + 3]
    <3> DEFINE width == CompactWidth(raw[at + 1])
    <3>1. width = 2 /\ width # 0
      BY <2>5, <2>9, <2>11
    <3>2. SubSeq(raw, at + 2, at + 1 + width) = LE(v, 2) /\ at + 1 + width = at + 3
      BY <2>7, <2>11, <3>1
    <3>3. ~(at = Truncated \/ at >= Len(raw) \/ Len(raw) - at - 1 < width)
      BY <2>10, <3>1
    <3>4. ReadCompact(raw, at, Len(raw)) =
            [value |-> IF width = 0 THEN raw[at + 1] ELSE LittleEndian(SubSeq(raw, at + 2, at + 1 + width)),
             at |-> at + 1 + width]
      BY <3>3, Zenon DEF ReadCompact
    <3> HIDE DEF width
    <3> QED BY <2>8, <3>1, <3>2, <3>4
  <2>13. Len(CompactSize(v)) = 3
    <3> HIDE DEF low
    <3>1. Len(mark \o low) = Len(mark) + Len(low)
      BY <2>0, ConcatIsBytes
    <3> QED BY <2>1, <2>2, <3>1
  <2> QED BY <2>1, <2>12, <2>13
<1> QED BY <1>1, <1>2

\* So are bytes after their number.
LEMMA SizedReads ==
  ASSUME NEW raw \in Bytes, NEW at, NEW b \in Bytes, Short(Len(b)),
         Holds(raw, at, CompactSize(Len(b)) \o b)
  PROVE  ReadSized(raw, at) = [at |-> at + CompactSizeLen(Len(b)) + Len(b), got |-> b]
<1>1. Len(b) \in Nat
  BY LenProperties DEF Bytes
<1>2. CompactSize(Len(b)) \in Bytes
  BY <1>1, CompactSizeIsBytes
<1>3. Holds(raw, at, CompactSize(Len(b))) /\ Holds(raw, at + Len(CompactSize(Len(b))), b)
  BY <1>2, HoldsParts
<1>4. /\ Len(CompactSize(Len(b))) = CompactSizeLen(Len(b))
      /\ ReadCompact(raw, at, Len(raw)) = [value |-> Len(b), at |-> at + CompactSizeLen(Len(b))]
  BY <1>1, <1>3, CompactSizeReads
<1>5. Take(raw, at + CompactSizeLen(Len(b)), Len(b))
        = [at |-> at + CompactSizeLen(Len(b)) + Len(b), got |-> b]
  BY <1>3, <1>4, HoldsTake
<1> QED BY <1>4, <1>5 DEF ReadSized

\* A number that fits is read as it was written.
LEMMA NumberReads ==
  ASSUME NEW raw \in Bytes, NEW at, NEW v \in Nat, v < Far, NEW n \in Nat, Fits(v, n),
         Holds(raw, at, LE(v, n))
  PROVE  ReadNumber(raw, at, n) = v
<1>1. LE(v, n) \in Bytes /\ Len(LE(v, n)) = n
  <2>1. v \in Int
    OBVIOUS
  <2> QED BY <2>1, LEIsBytes, Zenon
<1>2. Take(raw, at, n) = [at |-> at + n, got |-> LE(v, n)]
  BY <1>1, HoldsTake
<1> QED BY <1>2, LittleEndianInverts DEF ReadNumber

\* What is read n times is a sequence, if each reading gives its element and
\* comes to the next one.
LEMMA EachReads ==
  ASSUME NEW n \in Nat, NEW S, NEW s \in Seq(S), Len(s) = n, NEW pos, NEW reader,
         \A i \in 1 .. n : reader[pos[i - 1]] = [at |-> pos[i], got |-> s[i]]
  PROVE  ReadEach(n, pos[0], reader) = [at |-> pos[n], got |-> s]
<1> DEFINE Next(prev) == LET next == reader[prev.at] IN [at |-> next.at, got |-> Append(prev.got, next.got)]
           UpTo(g) == g = [i \in 0 .. n |-> IF i = 0 THEN [at |-> pos[0], got |-> <<>>] ELSE Next(g[i - 1])]
           upTo == CHOOSE g : UpTo(g)
           G(i) == [at |-> pos[i], got |-> SubSeq(s, 1, i)]
<1>1. SubSeq(s, 1, 0) = <<>> /\ SubSeq(s, 1, n) = s
  BY SubSeqEmpty, SubSeqFull
<1>2. ASSUME NEW i \in 1 .. n PROVE SubSeq(s, 1, i) = Append(SubSeq(s, 1, i - 1), s[i])
  <2>1. 1 \in 1 .. Len(s) /\ i \in 1 .. Len(s)
    OBVIOUS
  <2>2. SubSeq(s, 1, i) = SubSeq(s, 1, i - 1) \o <<s[i]>>
    BY <2>1, SubSeqRecursiveSecond
  <2>3. s[i] \in S /\ SubSeq(s, 1, i - 1) \in Seq(S)
    <3>1. \A k \in 1 .. i - 1 : s[k] \in S
      BY ElementOfSeq
    <3>2. i - 1 \in Int /\ 1 \in Int
      OBVIOUS
    <3> QED BY <2>1, <3>1, <3>2, ElementOfSeq, SubSeqProperties
  <2> QED BY <2>2, <2>3, AppendIsConcat
<1>3. ASSUME NEW i \in 1 .. n PROVE G(i) = Next(G(i - 1))
  <2>1. G(i - 1).at = pos[i - 1] /\ G(i - 1).got = SubSeq(s, 1, i - 1)
    OBVIOUS
  <2>2. reader[pos[i - 1]].at = pos[i] /\ reader[pos[i - 1]].got = s[i]
    <3>1. reader[pos[i - 1]] = [at |-> pos[i], got |-> s[i]]
      OBVIOUS
    <3> QED BY <3>1
  <2>3. Next(G(i - 1)) = [at |-> pos[i], got |-> Append(SubSeq(s, 1, i - 1), s[i])]
    <3> HIDE DEF G
    <3> QED BY <2>1, <2>2
  <2> QED BY <1>2, <2>3
<1>4. G(0) = [at |-> pos[0], got |-> <<>>] /\ G(n) = [at |-> pos[n], got |-> s]
  BY <1>1
<1>5. ReadEach(n, pos[0], reader) = upTo[n]
  BY DEF ReadEach
<1> HIDE DEF G, Next
<1>6. \E g : UpTo(g)
  <2> DEFINE g == [i \in 0 .. n |-> G(i)]
  <2>1. ASSUME NEW i \in 0 .. n
        PROVE  G(i) = IF i = 0 THEN [at |-> pos[0], got |-> <<>>] ELSE Next(g[i - 1])
    <3>1. CASE i = 0
      BY <1>4, <3>1
    <3>2. CASE i # 0
      <4>1. i \in 1 .. n /\ i - 1 \in 0 .. n
        BY <3>2
      <4>2. g[i - 1] = G(i - 1)
        BY <4>1
      <4> QED BY <1>3, <3>2, <4>1, <4>2
    <3> QED BY <3>1, <3>2
  <2>2. UpTo(g)
    BY <2>1
  <2> QED BY <2>2
<1>7. UpTo(upTo)
  <2> HIDE DEF UpTo
  <2> QED BY <1>6
<1> HIDE DEF upTo
<1>8. upTo[0] = G(0) /\ \A i \in 1 .. n : upTo[i] = Next(upTo[i - 1])
  BY <1>4, <1>7
<1> DEFINE T == {i \in 0 .. n : upTo[i] = G(i)}
<1>9. \A i \in 0 .. n : i \in T
  <2>1. 0 \in T
    BY <1>8
  <2>2. \A i \in 1 .. n : i - 1 \in T => i \in T
    BY <1>3, <1>8
  <2> HIDE DEF T
  <2> QED BY <2>1, <2>2, OneByOne
<1>10. upTo[n] = G(n)
  BY <1>9
<1> QED BY <1>4, <1>5, <1>10

\* Four parts are there, one after the other.
LEMMA HoldsFour ==
  ASSUME NEW raw \in Bytes, NEW at, NEW a \in Bytes, NEW b \in Bytes, NEW c \in Bytes, NEW d \in Bytes,
         Holds(raw, at, a \o b \o c \o d)
  PROVE  /\ at \in Nat /\ Len(a) \in Nat /\ Len(b) \in Nat /\ Len(c) \in Nat /\ Len(d) \in Nat
         /\ Len(a \o b \o c \o d) = Len(a) + Len(b) + Len(c) + Len(d)
         /\ Holds(raw, at, a) /\ Holds(raw, at + Len(a), b)
         /\ Holds(raw, at + Len(a) + Len(b), c) /\ Holds(raw, at + Len(a) + Len(b) + Len(c), d)
<1>1. a \o b \in Bytes /\ Len(a \o b) = Len(a) + Len(b)
  BY ConcatIsBytes
<1>2. a \o b \o c \in Bytes /\ Len(a \o b \o c) = Len(a \o b) + Len(c)
  BY <1>1, ConcatIsBytes
<1>3. a \o b \o c \o d \in Bytes /\ Len(a \o b \o c \o d) = Len(a \o b \o c) + Len(d)
  BY <1>2, ConcatIsBytes
<1>4. at \in Nat /\ Len(a) \in Nat /\ Len(b) \in Nat /\ Len(c) \in Nat /\ Len(d) \in Nat
  BY LenProperties DEF Bytes, Holds
<1>5. Holds(raw, at, a \o b \o c) /\ Holds(raw, at + Len(a \o b \o c), d)
  BY <1>2, HoldsParts
<1>6. Holds(raw, at, a \o b) /\ Holds(raw, at + Len(a \o b), c)
  BY <1>1, <1>5, HoldsParts
<1>7. Holds(raw, at, a) /\ Holds(raw, at + Len(a), b)
  BY <1>6, HoldsParts
<1>8. /\ Len(a \o b \o c) = Len(a) + Len(b) + Len(c)
      /\ at + (Len(a) + Len(b)) = at + Len(a) + Len(b)
      /\ at + (Len(a) + Len(b) + Len(c)) = at + Len(a) + Len(b) + Len(c)
  BY <1>1, <1>2, <1>4
<1> QED BY <1>1, <1>3, <1>4, <1>5, <1>6, <1>7, <1>8

\* What can be written in n bytes, and read.
Writable(v, n) == v \in Nat /\ v < Far /\ Fits(v, n)

GoodInput(in) ==
  in \in Inputs /\ Len(in.TxIDLE) = 32 /\ Writable(in.Vout, 4) /\ Len(in.NSequence) = 4
GoodOutput(out) == out \in Outputs /\ Writable(out.Amount, 8) /\ Short(Len(out.Script))
GoodWitness(w) == w \in Witnesses /\ Short(Len(w.Sig)) /\ Short(Len(w.PubKey))

\* An input is read as it was written, and takes 41 bytes.
LEMMA InputReads ==
  ASSUME NEW raw \in Bytes, NEW at, NEW in, GoodInput(in), Holds(raw, at, InputBytes(in))
  PROVE  ReadInput(raw, at) = [at |-> at + Len(InputBytes(in)), got |-> in] /\ Len(InputBytes(in)) = 41
<1> DEFINE id   == in.TxIDLE
           vout == LE(in.Vout, 4)
           none == CompactSize(0)
           seq  == in.NSequence
<1>1. id \in Bytes /\ vout \in Bytes /\ none \in Bytes /\ seq \in Bytes
  <2>1. in.Vout \in Int /\ 4 \in Nat /\ 0 \in Nat
    BY DEF GoodInput, Writable
  <2>2. vout \in Bytes
    BY <2>1, WidthsAreBytes
  <2>3. none \in Bytes
    BY <2>1, CompactSizeIsBytes, Zenon
  <2> QED BY <2>2, <2>3 DEF GoodInput, Inputs
<1>2. Len(id) = 32 /\ Len(vout) = 4 /\ Len(seq) = 4 /\ none = <<0>> /\ Len(none) = 1
  <2>1. in.Vout \in Int /\ 4 \in Nat
    BY DEF GoodInput, Writable
  <2>2. Len(vout) = 4
    BY <2>1, WidthsAreBytes
  <2>3. none = <<0>>
    BY DEF CompactSize
  <2> QED BY <2>2, <2>3 DEF GoodInput
<1>3. InputBytes(in) = id \o vout \o none \o seq
  BY DEF InputBytes
<1> HIDE DEF id, vout, none, seq
<1>4. /\ at \in Nat /\ Len(id \o vout \o none \o seq) = Len(id) + Len(vout) + Len(none) + Len(seq)
      /\ Holds(raw, at, id) /\ Holds(raw, at + Len(id), vout)
      /\ Holds(raw, at + Len(id) + Len(vout), none) /\ Holds(raw, at + Len(id) + Len(vout) + Len(none), seq)
  <2>1. Holds(raw, at, id \o vout \o none \o seq)
    BY <1>3
  <2> QED BY <1>1, <2>1, HoldsFour
<1>5. /\ Len(InputBytes(in)) = 41 /\ at + Len(id) = at + 32 /\ at + Len(id) + Len(vout) = at + 36
      /\ at + Len(id) + Len(vout) + Len(none) = at + 37 /\ at + 37 + 4 = at + 41
  BY <1>2, <1>3, <1>4
<1>6. Take(raw, at, 32).got = id
  <2>1. Take(raw, at, Len(id)) = [at |-> at + Len(id), got |-> id]
    BY <1>1, <1>4, HoldsTake
  <2> QED BY <1>2, <2>1
<1>7. ReadNumber(raw, at + 32, 4) = in.Vout
  <2>1. Holds(raw, at + 32, LE(in.Vout, 4)) /\ 4 \in Nat
    BY <1>4, <1>5 DEF vout
  <2>2. in.Vout \in Nat /\ in.Vout < Far /\ Fits(in.Vout, 4)
    BY DEF GoodInput, Writable
  <2> QED BY <2>1, <2>2, NumberReads
<1>8. ReadSized(raw, at + 36).at = at + 37
  <2>1. Holds(raw, at + 36, CompactSize(0)) /\ 0 \in Nat /\ Short(0)
    BY <1>4, <1>5 DEF none, Short
  <2>2. ReadCompact(raw, at + 36, Len(raw)) = [value |-> 0, at |-> at + 36 + CompactSizeLen(0)]
    BY <2>1, CompactSizeReads
  <2>3. CompactSizeLen(0) = 1
    BY DEF CompactSizeLen
  <2>4. at + 36 + 1 + 0 = at + 37
    BY <1>4
  <2>5. ReadSized(raw, at + 36).at = at + 36 + 1 + 0
    BY <2>2, <2>3 DEF ReadSized, Take
  <2> QED BY <2>4, <2>5
<1>9. Take(raw, at + 37, 4).got = seq
  <2>1. Holds(raw, at + 37, seq)
    BY <1>4, <1>5
  <2>2. Take(raw, at + 37, Len(seq)) = [at |-> at + 37 + Len(seq), got |-> seq]
    BY <1>1, <2>1, HoldsTake
  <2> QED BY <1>2, <2>2
<1>10. in = [TxIDLE |-> id, Vout |-> in.Vout, NSequence |-> seq]
  BY DEF GoodInput, Inputs, id, seq
<1> DEFINE script == ReadSized(raw, at + 36)
<1>11. ReadInput(raw, at) =
         [at |-> script.at + 4,
          got |-> [TxIDLE |-> Take(raw, at, 32).got, Vout |-> ReadNumber(raw, at + 32, 4),
                   NSequence |-> Take(raw, script.at, 4).got]]
  BY DEF ReadInput
<1> HIDE DEF script
<1>12. script.at = at + 37
  BY <1>8 DEF script
<1>13. ReadInput(raw, at) = [at |-> at + 37 + 4, got |-> in]
  BY <1>6, <1>7, <1>9, <1>10, <1>11, <1>12
<1> QED BY <1>5, <1>13

\* So is an output.
LEMMA OutputReads ==
  ASSUME NEW raw \in Bytes, NEW at, NEW out, GoodOutput(out), Holds(raw, at, OutputBytes(out))
  PROVE  ReadOutput(raw, at) = [at |-> at + Len(OutputBytes(out)), got |-> out]
<1> DEFINE amount == LE(out.Amount, 8)
           script == out.Script
           length == CompactSize(Len(script))
<1>1. amount \in Bytes /\ Len(amount) = 8
  <2>1. out.Amount \in Int /\ 8 \in Nat
    BY DEF GoodOutput, Writable
  <2>2. amount \in Bytes
    BY <2>1, WidthsAreBytes
  <2>3. Len(amount) = 8
    BY <2>1, WidthsAreBytes
  <2> QED BY <2>2, <2>3
<1>2. script \in Bytes /\ length \in Bytes /\ Len(script) \in Nat /\ Short(Len(script))
  <2>1. script \in Bytes /\ Short(Len(script))
    BY DEF GoodOutput, Outputs
  <2>2. Len(script) \in Nat
    BY <2>1, LenProperties DEF Bytes
  <2> QED BY <2>1, <2>2, CompactSizeIsBytes
<1>3. OutputBytes(out) = amount \o length \o script
  BY DEF OutputBytes
<1> HIDE DEF amount
<1>4. amount \o length \o script = amount \o (length \o script)
  <2>1. amount \in Seq(Nat) /\ length \in Seq(Nat) /\ script \in Seq(Nat)
    BY <1>1, <1>2 DEF Bytes
  <2> HIDE DEF length, script
  <2> QED BY <2>1, BytesAssociate
<1>5. /\ length \o script \in Bytes
      /\ Len(OutputBytes(out)) = Len(amount) + (Len(length) + Len(script)) /\ Len(length) \in Nat
  <2> HIDE DEF length, script
  <2>1. length \o script \in Bytes /\ Len(length \o script) = Len(length) + Len(script)
    BY <1>2, ConcatIsBytes
  <2>2. Len(amount \o (length \o script)) = Len(amount) + Len(length \o script)
    BY <1>1, <2>1, ConcatIsBytes
  <2>3. Len(length) \in Nat
    BY <1>2, LenProperties DEF Bytes
  <2> QED BY <1>3, <1>4, <2>1, <2>2, <2>3
<1>6. Holds(raw, at, amount) /\ Holds(raw, at + Len(amount), length \o script) /\ at \in Nat
  <2> HIDE DEF length, script
  <2>1. Holds(raw, at, amount \o (length \o script))
    BY <1>3, <1>4
  <2>2. Holds(raw, at, amount) /\ Holds(raw, at + Len(amount), length \o script)
    BY <1>1, <1>5, <2>1, HoldsParts
  <2> QED BY <2>2 DEF Holds
<1>7. Holds(raw, at + 8, length \o script)
  BY <1>1, <1>6
<1>8. ReadSized(raw, at + 8) = [at |-> at + 8 + CompactSizeLen(Len(script)) + Len(script), got |-> script]
  <2> HIDE DEF script
  <2> QED BY <1>2, <1>7, SizedReads
<1>9. Len(length) = CompactSizeLen(Len(script))
  <2> HIDE DEF script
  <2>1. Holds(raw, at + 8, length)
    <3> HIDE DEF length
    <3> QED BY <1>2, <1>7, HoldsParts
  <2> QED BY <1>2, <2>1, CompactSizeReads
<1>10. ReadNumber(raw, at, 8) = out.Amount
  <2>1. Holds(raw, at, LE(out.Amount, 8)) /\ 8 \in Nat
    BY <1>6 DEF amount
  <2>2. out.Amount \in Nat /\ out.Amount < Far /\ Fits(out.Amount, 8)
    BY DEF GoodOutput, Writable
  <2> QED BY <2>1, <2>2, NumberReads
<1>11. out = [Amount |-> out.Amount, Script |-> script]
  BY DEF GoodOutput, Outputs
<1>12. at + 8 + CompactSizeLen(Len(script)) + Len(script) = at + Len(OutputBytes(out))
  <2> HIDE DEF script, length
  <2> QED BY <1>1, <1>2, <1>5, <1>6, <1>9
<1> HIDE DEF script, length
<1>13. ReadOutput(raw, at) =
         [at |-> ReadSized(raw, at + 8).at,
          got |-> [Amount |-> ReadNumber(raw, at, 8), Script |-> ReadSized(raw, at + 8).got]]
  BY DEF ReadOutput
<1> QED BY <1>8, <1>10, <1>11, <1>12, <1>13

\* A witness is read as it was written.
LEMMA StackReads ==
  ASSUME NEW raw \in Bytes, NEW at, NEW w, GoodWitness(w), Holds(raw, at, WitnessBytes(w))
  PROVE  /\ ReadStack(raw, at) = [at |-> at + Len(WitnessBytes(w)), got |-> <<w.Sig, w.PubKey>>]
         /\ Len(WitnessBytes(w)) = 1 + (CompactSizeLen(Len(w.Sig)) + Len(w.Sig))
                                     + (CompactSizeLen(Len(w.PubKey)) + Len(w.PubKey))
<1> DEFINE count == CompactSize(2)
           sig   == w.Sig
           key   == w.PubKey
           S     == CompactSizeLen(Len(sig)) + Len(sig)
           K     == CompactSizeLen(Len(key)) + Len(key)
<1>1. sig \in Bytes /\ key \in Bytes /\ Short(Len(sig)) /\ Short(Len(key)) /\ Len(sig) \in Nat /\ Len(key) \in Nat
  BY LenProperties DEF GoodWitness, Witnesses, Bytes
<1>2. Item(sig) \in Bytes /\ Item(key) \in Bytes
  BY <1>1, ItemIsBytes
<1>3. count \in Bytes /\ Short(2) /\ 2 \in Nat /\ CompactSizeLen(2) = 1
  BY CompactSizeIsBytes DEF Short, CompactSizeLen
<1>4. WitnessBytes(w) = count \o Item(sig) \o Item(key)
  BY DEF WitnessBytes
<1>5. Len(count) = 1
  BY DEF CompactSize
<1>6. CompactSizeLen(Len(sig)) \in Nat /\ CompactSizeLen(Len(key)) \in Nat
  BY DEF CompactSizeLen
<1>7. S \in Nat /\ K \in Nat
  BY <1>1, <1>6
<1> HIDE DEF count, sig, key
<1>8. /\ count \o Item(sig) \in Bytes
      /\ Len(count \o Item(sig)) = Len(count) + Len(Item(sig))
  BY <1>2, <1>3, ConcatIsBytes
<1>9. Len(WitnessBytes(w)) = Len(count \o Item(sig)) + Len(Item(key))
  BY <1>2, <1>4, <1>8, ConcatIsBytes
<1>10. Holds(raw, at, count \o Item(sig)) /\ Holds(raw, at + Len(count \o Item(sig)), Item(key))
  BY <1>2, <1>4, <1>8, HoldsParts
<1>11. Holds(raw, at, count) /\ Holds(raw, at + Len(count), Item(sig)) /\ at \in Nat
  <2>1. Holds(raw, at, count) /\ Holds(raw, at + Len(count), Item(sig))
    BY <1>2, <1>3, <1>10, HoldsParts
  <2> QED BY <2>1 DEF Holds
<1> DEFINE p == at + 1
           q == at + 1 + S
           r == at + 1 + S + K
<1>12. Holds(raw, p, Item(sig))
  BY <1>5, <1>11
<1>13. ReadSized(raw, p) = [at |-> q, got |-> sig] /\ Len(Item(sig)) = S
  <2>1. Holds(raw, p, CompactSize(Len(sig)) \o sig)
    BY <1>12 DEF Item
  <2>2. ReadSized(raw, p) = [at |-> p + CompactSizeLen(Len(sig)) + Len(sig), got |-> sig]
    <3> HIDE DEF p
    <3> QED BY <1>1, <2>1, SizedReads
  <2>3. p + CompactSizeLen(Len(sig)) + Len(sig) = q
    BY <1>1, <1>6, <1>11
  <2>4. Len(CompactSize(Len(sig))) = CompactSizeLen(Len(sig))
    <3> HIDE DEF p
    <3>1. CompactSize(Len(sig)) \in Bytes
      BY <1>1, CompactSizeIsBytes
    <3>2. Holds(raw, p, CompactSize(Len(sig)))
      BY <1>1, <2>1, <3>1, HoldsParts
    <3> QED BY <1>1, <3>2, CompactSizeReads
  <2>5. Len(Item(sig)) = Len(CompactSize(Len(sig))) + Len(sig)
    BY <1>1, CompactSizeIsBytes, ConcatIsBytes DEF Item
  <2> QED BY <2>2, <2>3, <2>4, <2>5
<1>14. Len(count \o Item(sig)) = 1 + S /\ at + (1 + S) = q
  BY <1>5, <1>7, <1>8, <1>11, <1>13
<1>15. Holds(raw, q, Item(key))
  BY <1>10, <1>14
<1>16. ReadSized(raw, q) = [at |-> r, got |-> key] /\ Len(Item(key)) = K
  <2>1. Holds(raw, q, CompactSize(Len(key)) \o key)
    BY <1>15 DEF Item
  <2>2. ReadSized(raw, q) = [at |-> q + CompactSizeLen(Len(key)) + Len(key), got |-> key]
    <3> HIDE DEF q
    <3> QED BY <1>1, <2>1, SizedReads
  <2>3. q + CompactSizeLen(Len(key)) + Len(key) = r
    <3> HIDE DEF S
    <3> QED BY <1>1, <1>6, <1>7, <1>11
  <2>4. Len(CompactSize(Len(key))) = CompactSizeLen(Len(key))
    <3> HIDE DEF q
    <3>1. CompactSize(Len(key)) \in Bytes
      BY <1>1, CompactSizeIsBytes
    <3>2. Holds(raw, q, CompactSize(Len(key)))
      BY <1>1, <2>1, <3>1, HoldsParts
    <3> QED BY <1>1, <3>2, CompactSizeReads
  <2>5. Len(Item(key)) = Len(CompactSize(Len(key))) + Len(key)
    BY <1>1, CompactSizeIsBytes, ConcatIsBytes DEF Item
  <2> QED BY <2>2, <2>3, <2>4, <2>5
<1>17. Len(WitnessBytes(w)) = 1 + S + K /\ at + (1 + S + K) = r
  <2> HIDE DEF S, K
  <2> QED BY <1>7, <1>9, <1>11, <1>14, <1>16
<1>18. ReadCompact(raw, at, Len(raw)) = [value |-> 2, at |-> p]
  BY <1>3, <1>11, CompactSizeReads DEF count
<1>19. p \in 0 .. Len(raw) /\ q \in 0 .. Len(raw)
  <2>1. p \in Nat /\ q \in Nat /\ Len(Item(sig)) \in Nat /\ Len(Item(key)) \in Nat /\ Len(raw) \in Nat
    <3>1. Len(raw) \in Nat
      BY LenProperties DEF Bytes
    <3> HIDE DEF S, K
    <3> QED BY <1>7, <1>11, <1>13, <1>16, <3>1
  <2>2. p + Len(Item(sig)) <= Len(raw) /\ q + Len(Item(key)) <= Len(raw)
    BY <1>12, <1>15 DEF Holds
  <2> HIDE DEF p, q
  <2> QED BY <2>1, <2>2
<1> HIDE DEF S, K, p, q, r
<1> DEFINE pos    == [i \in 0 .. 2 |-> IF i = 0 THEN p ELSE IF i = 1 THEN q ELSE r]
           reader == [a \in 0 .. Len(raw) |-> ReadSized(raw, a)]
           got    == <<sig, key>>
<1>20. pos[0] = p /\ pos[1] = q /\ pos[2] = r
  OBVIOUS
<1>21. got \in Seq(Bytes) /\ Len(got) = 2 /\ got[1] = sig /\ got[2] = key
  BY <1>1
<1>22. \A i \in 1 .. 2 : reader[pos[i - 1]] = [at |-> pos[i], got |-> got[i]]
  <2>1. reader[pos[0]] = [at |-> pos[1], got |-> got[1]]
    BY <1>13, <1>19, <1>20
  <2>2. reader[pos[1]] = [at |-> pos[2], got |-> got[2]]
    BY <1>16, <1>19, <1>20
  <2> HIDE DEF pos, reader, got
  <2>3. ASSUME NEW i \in 1 .. 2 PROVE reader[pos[i - 1]] = [at |-> pos[i], got |-> got[i]]
    <3>1. CASE i = 1
      BY <2>1, <3>1
    <3>2. CASE i = 2
      BY <2>2, <3>2
    <3> QED BY <3>1, <3>2
  <2> QED BY <2>3
<1>23. ReadEach(2, pos[0], reader) = [at |-> pos[2], got |-> got]
  <2> HIDE DEF pos, reader, got
  <2>1. PICK n \in Nat : n = 2
    OBVIOUS
  <2>2. got \in Seq(Bytes) /\ Len(got) = n /\ \A i \in 1 .. n : reader[pos[i - 1]] = [at |-> pos[i], got |-> got[i]]
    BY <1>21, <1>22, <2>1
  <2>3. ReadEach(n, pos[0], reader) = [at |-> pos[n], got |-> got]
    BY <2>2, EachReads
  <2> QED BY <2>1, <2>3
<1>24. ReadStack(raw, at) = ReadEach(2, p, reader)
  BY <1>18 DEF ReadStack
<1>25. ReadStack(raw, at) = [at |-> r, got |-> <<sig, key>>]
  <2> HIDE DEF pos, reader
  <2> QED BY <1>20, <1>23, <1>24
<1> QED BY <1>17, <1>25 DEF sig, key, S, K

\* Each block is read as it was written, wherever it is.
EachIsRead(raw, s, reader, vals) ==
  \A i \in 1 .. Len(s) : \A a \in 0 .. Len(raw) :
    Holds(raw, a, s[i]) => reader[a] = [at |-> a + Len(s[i]), got |-> vals[i]]

\* Such blocks are read as they were written one after the other.
LEMMA BlocksRead ==
  ASSUME NEW raw \in Bytes, NEW at, NEW s \in Seq(Bytes), NEW S, NEW vals \in Seq(S), Len(vals) = Len(s),
         Holds(raw, at, FlattenSeq(s)), NEW reader, EachIsRead(raw, s, reader, vals)
  PROVE  ReadEach(Len(s), at, reader) = [at |-> at + Len(FlattenSeq(s)), got |-> vals]
<1>1. PICK pos : Begins(raw, s, pos) /\ pos[0] = at /\ pos[Len(s)] = at + Len(FlattenSeq(s))
  BY FlattenHolds
<1>2. Len(s) \in Nat /\ Len(raw) \in Nat /\ \A i \in 1 .. Len(s) : s[i] \in Bytes
  BY LenProperties, ElementOfSeq DEF Bytes
<1>3. ASSUME NEW i \in 1 .. Len(s) PROVE reader[pos[i - 1]] = [at |-> pos[i], got |-> vals[i]]
  <2>1. pos[i] = pos[i - 1] + Len(s[i]) /\ Holds(raw, pos[i - 1], s[i])
    BY <1>1 DEF Begins
  <2>2. pos[i - 1] \in 0 .. Len(raw)
    <3>1. pos[i - 1] \in Nat /\ pos[i - 1] + Len(s[i]) <= Len(raw) /\ Len(s[i]) \in Nat
      BY <1>2, <2>1, LenProperties DEF Holds, Bytes
    <3> QED BY <1>2, <3>1
  <2> QED BY <2>1, <2>2 DEF EachIsRead
<1>4. ReadEach(Len(s), pos[0], reader) = [at |-> pos[Len(s)], got |-> vals]
  BY <1>2, <1>3, EachReads
<1> QED BY <1>1, <1>4

\* The inputs of a transaction are read as they were written.
LEMMA InputsRead ==
  ASSUME NEW raw \in Bytes, NEW at, NEW ins \in Seq(Inputs), \A i \in 1 .. Len(ins) : GoodInput(ins[i]),
         Holds(raw, at, Each(ins, InputBytes))
  PROVE  ReadEach(Len(ins), at, [a \in 0 .. Len(raw) |-> ReadInput(raw, a)])
           = [at |-> at + Len(Each(ins, InputBytes)), got |-> ins]
<1> DEFINE n == Len(ins)
           s == [i \in 1 .. n |-> InputBytes(ins[i])]
           reader == [a \in 0 .. Len(raw) |-> ReadInput(raw, a)]
<1>1. n \in Nat /\ \A i \in 1 .. n : ins[i] \in Inputs
  BY LenProperties, ElementOfSeq
<1>2. \A i \in 1 .. n : s[i] = InputBytes(ins[i]) /\ s[i] \in Bytes
  BY <1>1, FieldsAreBytes
<1>3. s \in Seq(Bytes) /\ Len(s) = n
  <2> HIDE DEF n
  <2> QED BY <1>1, <1>2
<1>4. Each(ins, InputBytes) = FlattenSeq(s)
  BY DEF Each
<1> HIDE DEF s
<1>5. ASSUME NEW i \in 1 .. n, NEW a \in 0 .. Len(raw), Holds(raw, a, s[i])
      PROVE  reader[a] = [at |-> a + Len(s[i]), got |-> ins[i]]
  <2>1. Holds(raw, a, InputBytes(ins[i])) /\ s[i] = InputBytes(ins[i]) /\ GoodInput(ins[i])
    BY <1>2, <1>5
  <2>2. ReadInput(raw, a) = [at |-> a + Len(s[i]), got |-> ins[i]]
    <3>1. ReadInput(raw, a) = [at |-> a + Len(InputBytes(ins[i])), got |-> ins[i]]
      BY <2>1, InputReads
    <3> QED BY <2>1, <3>1
  <2> QED BY <2>2
<1> HIDE DEF n, reader
<1>6. ReadEach(Len(s), at, reader) = [at |-> at + Len(FlattenSeq(s)), got |-> ins]
  <2>1. Len(ins) = Len(s) /\ Holds(raw, at, FlattenSeq(s))
    BY <1>3, <1>4 DEF n
  <2>2. EachIsRead(raw, s, reader, ins)
    BY <1>3, <1>5 DEF EachIsRead
  <2>3. s \in Seq(Bytes)
    BY <1>3
  <2> QED BY <2>1, <2>2, <2>3, BlocksRead
<1> QED BY <1>3, <1>4, <1>6 DEF n, reader

\* So are its outputs.
LEMMA OutputsRead ==
  ASSUME NEW raw \in Bytes, NEW at, NEW outs \in Seq(Outputs), \A i \in 1 .. Len(outs) : GoodOutput(outs[i]),
         Holds(raw, at, Each(outs, OutputBytes))
  PROVE  ReadEach(Len(outs), at, [a \in 0 .. Len(raw) |-> ReadOutput(raw, a)])
           = [at |-> at + Len(Each(outs, OutputBytes)), got |-> outs]
<1> DEFINE n == Len(outs)
           s == [i \in 1 .. n |-> OutputBytes(outs[i])]
           reader == [a \in 0 .. Len(raw) |-> ReadOutput(raw, a)]
<1>1. n \in Nat /\ \A i \in 1 .. n : outs[i] \in Outputs
  BY LenProperties, ElementOfSeq
<1>2. \A i \in 1 .. n : s[i] = OutputBytes(outs[i]) /\ s[i] \in Bytes
  BY <1>1, FieldsAreBytes
<1>3. s \in Seq(Bytes) /\ Len(s) = n
  <2> HIDE DEF n
  <2> QED BY <1>1, <1>2
<1>4. Each(outs, OutputBytes) = FlattenSeq(s)
  BY DEF Each
<1> HIDE DEF s
<1>5. ASSUME NEW i \in 1 .. n, NEW a \in 0 .. Len(raw), Holds(raw, a, s[i])
      PROVE  reader[a] = [at |-> a + Len(s[i]), got |-> outs[i]]
  <2>1. Holds(raw, a, OutputBytes(outs[i])) /\ s[i] = OutputBytes(outs[i]) /\ GoodOutput(outs[i])
    BY <1>2, <1>5
  <2>2. ReadOutput(raw, a) = [at |-> a + Len(s[i]), got |-> outs[i]]
    <3>1. ReadOutput(raw, a) = [at |-> a + Len(OutputBytes(outs[i])), got |-> outs[i]]
      BY <2>1, OutputReads
    <3> QED BY <2>1, <3>1
  <2> QED BY <2>2
<1> HIDE DEF n, reader
<1>6. ReadEach(Len(s), at, reader) = [at |-> at + Len(FlattenSeq(s)), got |-> outs]
  <2>1. Len(outs) = Len(s) /\ Holds(raw, at, FlattenSeq(s))
    BY <1>3, <1>4 DEF n
  <2>2. EachIsRead(raw, s, reader, outs)
    BY <1>3, <1>5 DEF EachIsRead
  <2>3. s \in Seq(Bytes)
    BY <1>3
  <2> QED BY <2>1, <2>2, <2>3, BlocksRead
<1> QED BY <1>3, <1>4, <1>6 DEF n, reader

\* What a node makes of witnesses: the two items of each.
Stacks(ws) == [i \in 1 .. Len(ws) |-> <<ws[i].Sig, ws[i].PubKey>>]

\* All witnesses are read as they were written.
LEMMA WitnessesRead ==
  ASSUME NEW raw \in Bytes, NEW at, NEW ws \in Seq(Witnesses), \A i \in 1 .. Len(ws) : GoodWitness(ws[i]),
         Holds(raw, at, Each(ws, WitnessBytes))
  PROVE  ReadEach(Len(ws), at, [a \in 0 .. Len(raw) |-> ReadStack(raw, a)])
           = [at |-> at + Len(Each(ws, WitnessBytes)), got |-> Stacks(ws)]
<1> DEFINE n == Len(ws)
           s == [i \in 1 .. n |-> WitnessBytes(ws[i])]
           reader == [a \in 0 .. Len(raw) |-> ReadStack(raw, a)]
           got == Stacks(ws)
<1>1. n \in Nat /\ \A i \in 1 .. n : ws[i] \in Witnesses
  BY LenProperties, ElementOfSeq
<1>2. \A i \in 1 .. n : s[i] = WitnessBytes(ws[i]) /\ s[i] \in Bytes
  BY <1>1, FieldsAreBytes
<1>3. s \in Seq(Bytes) /\ Len(s) = n
  <2> HIDE DEF n
  <2> QED BY <1>1, <1>2
<1>4. Each(ws, WitnessBytes) = FlattenSeq(s)
  BY DEF Each
<1>5. got \in Seq(Seq(Bytes)) /\ Len(got) = n /\ \A i \in 1 .. n : got[i] = <<ws[i].Sig, ws[i].PubKey>>
  <2>1. \A i \in 1 .. n : <<ws[i].Sig, ws[i].PubKey>> \in Seq(Bytes)
    <3>1. ASSUME NEW i \in 1 .. n PROVE <<ws[i].Sig, ws[i].PubKey>> \in Seq(Bytes)
      <4>1. ws[i].Sig \in Bytes /\ ws[i].PubKey \in Bytes
        BY <1>1 DEF Witnesses
      <4> QED BY <4>1
    <3> QED BY <3>1
  <2>2. got = [i \in 1 .. n |-> <<ws[i].Sig, ws[i].PubKey>>]
    BY DEF Stacks
  <2> HIDE DEF got, n
  <2> QED BY <1>1, <2>1, <2>2
<1> HIDE DEF s, got
<1>6. ASSUME NEW i \in 1 .. n, NEW a \in 0 .. Len(raw), Holds(raw, a, s[i])
      PROVE  reader[a] = [at |-> a + Len(s[i]), got |-> got[i]]
  <2>1. Holds(raw, a, WitnessBytes(ws[i])) /\ s[i] = WitnessBytes(ws[i]) /\ GoodWitness(ws[i])
    BY <1>2, <1>6
  <2>2. got[i] = <<ws[i].Sig, ws[i].PubKey>>
    BY <1>5
  <2>3. ReadStack(raw, a) = [at |-> a + Len(WitnessBytes(ws[i])), got |-> <<ws[i].Sig, ws[i].PubKey>>]
    BY <2>1, StackReads
  <2>4. ReadStack(raw, a) = [at |-> a + Len(s[i]), got |-> got[i]]
    BY <2>1, <2>2, <2>3
  <2> QED BY <2>4
<1> HIDE DEF n, reader
<1>7. ReadEach(Len(s), at, reader) = [at |-> at + Len(FlattenSeq(s)), got |-> got]
  <2>1. Len(got) = Len(s) /\ Holds(raw, at, FlattenSeq(s))
    BY <1>3, <1>4, <1>5
  <2>2. EachIsRead(raw, s, reader, got)
    BY <1>3, <1>6 DEF EachIsRead
  <2>3. PICK T : got \in Seq(T)
    BY <1>5
  <2>4. s \in Seq(Bytes)
    BY <1>3
  <2> QED BY <2>1, <2>2, <2>3, <2>4, BlocksRead
<1> QED BY <1>3, <1>4, <1>7 DEF n, reader, got

\* What the bytes of a transaction can say.
GoodTransaction(t) ==
  /\ t \in Transactions /\ Writable(t.NVersion, 4) /\ Writable(t.NLockTime, 4)
  /\ Short(Len(t.Inputs)) /\ \A i \in 1 .. Len(t.Inputs) : GoodInput(t.Inputs[i])
  /\ Short(Len(t.Outputs)) /\ \A i \in 1 .. Len(t.Outputs) : GoodOutput(t.Outputs[i])

\* A transaction is read as it was written, to its last byte.
LEMMA TransactionReads ==
  ASSUME NEW t, GoodTransaction(t), NEW ws \in Seq(Witnesses), Len(ws) = Len(t.Inputs),
         \A i \in 1 .. Len(ws) : GoodWitness(ws[i]), NEW raw, raw = SerializeBIP144(t, ws)
  PROVE  /\ NodeReads(raw) = [NVersion |-> t.NVersion, Inputs |-> t.Inputs, Outputs |-> t.Outputs,
                              Witnesses |-> Stacks(ws), NLockTime |-> t.NLockTime, Size |-> Len(raw)]
         /\ Len(raw) = Len(P2qpkTxID(t)) + 2 + Len(Each(ws, WitnessBytes))
         /\ Len(P2qpkTxID(t)) = 8 + CompactSizeLen(Len(t.Inputs)) + Len(Each(t.Inputs, InputBytes))
                                  + CompactSizeLen(Len(t.Outputs)) + Len(Each(t.Outputs, OutputBytes))
<1> DEFINE version == LE(t.NVersion, 4)
           marker  == <<0, 1>>
           nin     == CompactSize(Len(t.Inputs))
           ins     == Each(t.Inputs, InputBytes)
           nout    == CompactSize(Len(t.Outputs))
           outs    == Each(t.Outputs, OutputBytes)
           wit     == Each(ws, WitnessBytes)
           time    == LE(t.NLockTime, 4)
           head    == version \o marker \o nin \o ins
           id4     == version \o nin \o ins \o nout
<1>1. /\ version \in Bytes /\ marker \in Bytes /\ nin \in Bytes /\ ins \in Bytes /\ nout \in Bytes
      /\ outs \in Bytes /\ wit \in Bytes /\ time \in Bytes /\ Len(version) = 4
  <2>1. t \in Transactions
    BY DEF GoodTransaction
  <2>2. marker \in Bytes
    BY DEF Bytes
  <2> HIDE DEF marker
  <2> QED BY <2>1, <2>2, PartsAreBytes
<1>2. Len(marker) = 2 /\ Len(time) = 4
  <2>1. t.NLockTime \in Int /\ 4 \in Nat
    BY DEF GoodTransaction, Writable
  <2>2. Len(time) = 4
    BY <2>1, WidthsAreBytes
  <2> QED BY <2>2
<1>3. /\ raw = head \o nout \o outs \o wit \o time
      /\ P2qpkTxID(t) = id4 \o outs \o time
  BY DEF SerializeBIP144, P2qpkTxID
<1>4. /\ Short(Len(t.Inputs)) /\ Len(t.Inputs) \in Nat /\ Short(Len(t.Outputs)) /\ Len(t.Outputs) \in Nat
  BY DEF GoodTransaction, Short
<1> HIDE DEF version, marker, nin, ins, nout, outs, wit, time
<1>5. /\ head \in Bytes /\ id4 \in Bytes
      /\ Len(head) = Len(version) + Len(marker) + Len(nin) + Len(ins)
      /\ Len(id4) = Len(version) + Len(nin) + Len(ins) + Len(nout)
  <2>1. /\ version \o marker \in Bytes /\ Len(version \o marker) = Len(version) + Len(marker)
        /\ version \o nin \in Bytes /\ Len(version \o nin) = Len(version) + Len(nin)
    BY <1>1, ConcatIsBytes
  <2>2. /\ version \o marker \o nin \in Bytes
        /\ Len(version \o marker \o nin) = Len(version \o marker) + Len(nin)
        /\ version \o nin \o ins \in Bytes
        /\ Len(version \o nin \o ins) = Len(version \o nin) + Len(ins)
    BY <1>1, <2>1, ConcatIsBytes
  <2>3. /\ head \in Bytes /\ Len(head) = Len(version \o marker \o nin) + Len(ins)
        /\ id4 \in Bytes /\ Len(id4) = Len(version \o nin \o ins) + Len(nout)
    BY <1>1, <2>2, ConcatIsBytes
  <2> HIDE DEF head, id4
  <2> QED BY <2>1, <2>2, <2>3
<1>6. /\ raw \in Bytes /\ Holds(raw, 0, raw)
  <2>1. head \o nout \in Bytes
    BY <1>1, <1>5, ConcatIsBytes
  <2>2. head \o nout \o outs \in Bytes
    BY <1>1, <2>1, ConcatIsBytes
  <2>3. head \o nout \o outs \o wit \in Bytes
    BY <1>1, <2>2, ConcatIsBytes
  <2>4. head \o nout \o outs \o wit \o time \in Bytes
    BY <1>1, <2>3, ConcatIsBytes
  <2> QED BY <1>3, <2>4, HoldsAll
<1> HIDE DEF head
<1>7. /\ Holds(raw, 0, head \o nout \o outs \o wit)
      /\ Holds(raw, Len(head \o nout \o outs \o wit), time)
      /\ Len(raw) = Len(head \o nout \o outs \o wit) + Len(time)
  <2>1. head \o nout \in Bytes
    BY <1>1, <1>5, ConcatIsBytes
  <2>2. head \o nout \o outs \in Bytes
    BY <1>1, <2>1, ConcatIsBytes
  <2>3. head \o nout \o outs \o wit \in Bytes
    BY <1>1, <2>2, ConcatIsBytes
  <2> DEFINE most == head \o nout \o outs \o wit
  <2>4. raw = most \o time /\ most \in Bytes
    BY <1>3, <2>3
  <2> HIDE DEF most
  <2>5. Holds(raw, 0, most \o time)
    BY <1>6, <2>4
  <2>6. Holds(raw, 0, most) /\ Holds(raw, 0 + Len(most), time)
    BY <1>1, <1>6, <2>4, <2>5, HoldsParts
  <2>7. Len(raw) = Len(most) + Len(time) /\ Len(most) \in Nat
    BY <1>1, <2>4, ConcatIsBytes, LenProperties DEF Bytes
  <2>8. 0 + Len(most) = Len(most)
    BY <2>7
  <2> QED BY <2>6, <2>7, <2>8 DEF most
<1> DEFINE pnout == Len(head)
           pouts == Len(head) + Len(nout)
           pwit  == Len(head) + Len(nout) + Len(outs)
           ptime == Len(head) + Len(nout) + Len(outs) + Len(wit)
<1>8. /\ Len(head \o nout \o outs \o wit) = ptime
      /\ Holds(raw, 0, head) /\ Holds(raw, pnout, nout) /\ Holds(raw, pouts, outs) /\ Holds(raw, pwit, wit)
      /\ Len(head) \in Nat /\ Len(nout) \in Nat /\ Len(outs) \in Nat /\ Len(wit) \in Nat
  <2>0. PICK at : at = 0
    OBVIOUS
  <2>3. Holds(raw, at, head \o nout \o outs \o wit)
    BY <1>7, <2>0
  <2>4. /\ Len(head) \in Nat /\ Len(nout) \in Nat /\ Len(outs) \in Nat /\ Len(wit) \in Nat
        /\ Len(head \o nout \o outs \o wit) = Len(head) + Len(nout) + Len(outs) + Len(wit)
        /\ Holds(raw, at, head) /\ Holds(raw, at + Len(head), nout)
        /\ Holds(raw, at + Len(head) + Len(nout), outs) /\ Holds(raw, at + Len(head) + Len(nout) + Len(outs), wit)
    <3>1. /\ head \in Bytes /\ nout \in Bytes /\ outs \in Bytes /\ wit \in Bytes /\ raw \in Bytes
      BY <1>1, <1>5, <1>6
    <3> QED BY <2>3, <3>1, HoldsFour
  <2>1. /\ Len(head) \in Nat /\ Len(nout) \in Nat /\ Len(outs) \in Nat /\ Len(wit) \in Nat
        /\ Len(head \o nout \o outs \o wit) = Len(head) + Len(nout) + Len(outs) + Len(wit)
        /\ Holds(raw, 0, head) /\ Holds(raw, 0 + Len(head), nout)
        /\ Holds(raw, 0 + Len(head) + Len(nout), outs) /\ Holds(raw, 0 + Len(head) + Len(nout) + Len(outs), wit)
    BY <2>0, <2>4
  <2>2. /\ 0 + Len(head) = pnout /\ 0 + Len(head) + Len(nout) = pouts
        /\ 0 + Len(head) + Len(nout) + Len(outs) = pwit
    BY <2>1
  <2> HIDE DEF pnout, pouts, pwit
  <2> QED BY <2>1, <2>2 DEF ptime
<1>9. Holds(raw, ptime, time)
  <2> HIDE DEF ptime
  <2> QED BY <1>7, <1>8
<1> DEFINE pnin == Len(version) + Len(marker)
           pins == Len(version) + Len(marker) + Len(nin)
<1>10. /\ Holds(raw, 0, version) /\ Holds(raw, pnin, nin) /\ Holds(raw, pins, ins)
       /\ Len(nin) \in Nat /\ Len(ins) \in Nat
  <2>0. PICK at : at = 0
    OBVIOUS
  <2>1. Holds(raw, at, version \o marker \o nin \o ins)
    BY <1>8, <2>0 DEF head
  <2>4. /\ Len(version) \in Nat /\ Len(marker) \in Nat /\ Len(nin) \in Nat /\ Len(ins) \in Nat
        /\ Holds(raw, at, version)
        /\ Holds(raw, at + Len(version) + Len(marker), nin)
        /\ Holds(raw, at + Len(version) + Len(marker) + Len(nin), ins)
    <3>1. /\ version \in Bytes /\ marker \in Bytes /\ nin \in Bytes /\ ins \in Bytes /\ raw \in Bytes
      BY <1>1, <1>6
    <3> QED BY <2>1, <3>1, HoldsFour
  <2>2. /\ Len(version) \in Nat /\ Len(marker) \in Nat /\ Len(nin) \in Nat /\ Len(ins) \in Nat
        /\ Holds(raw, 0, version)
        /\ Holds(raw, 0 + Len(version) + Len(marker), nin)
        /\ Holds(raw, 0 + Len(version) + Len(marker) + Len(nin), ins)
    BY <2>0, <2>4
  <2>3. 0 + Len(version) + Len(marker) = pnin /\ 0 + Len(version) + Len(marker) + Len(nin) = pins
    BY <2>2
  <2> HIDE DEF pnin, pins
  <2> QED BY <2>2, <2>3
<1>11. pnin = 6 /\ pins = 6 + Len(nin) /\ pnout = 6 + Len(nin) + Len(ins)
  BY <1>1, <1>2, <1>5, <1>10
<1> DEFINE cursors == 0 .. Len(raw)
           readIns == [at \in cursors |-> ReadInput(raw, at)]
           readOuts == [at \in cursors |-> ReadOutput(raw, at)]
           readStacks == [at \in cursors |-> ReadStack(raw, at)]
<1>12. ReadCompact(raw, 6, Len(raw)) = [value |-> Len(t.Inputs), at |-> pins] /\ Len(nin) = CompactSizeLen(Len(t.Inputs))
  <2>1. Holds(raw, 6, CompactSize(Len(t.Inputs)))
    BY <1>10, <1>11 DEF nin
  <2>2. /\ Len(CompactSize(Len(t.Inputs))) = CompactSizeLen(Len(t.Inputs))
        /\ ReadCompact(raw, 6, Len(raw)) = [value |-> Len(t.Inputs), at |-> 6 + CompactSizeLen(Len(t.Inputs))]
    BY <1>4, <1>6, <2>1, CompactSizeReads
  <2> HIDE DEF pins
  <2> QED BY <1>11, <2>2 DEF nin
<1>13. ReadEach(Len(t.Inputs), pins, readIns) = [at |-> pnout, got |-> t.Inputs]
  <2>1. t.Inputs \in Seq(Inputs) /\ \A i \in 1 .. Len(t.Inputs) : GoodInput(t.Inputs[i])
    BY DEF GoodTransaction, Transactions
  <2>2. ReadEach(Len(t.Inputs), pins, readIns) = [at |-> pins + Len(ins), got |-> t.Inputs]
    <3> HIDE DEF pins
    <3> QED BY <1>6, <1>10, <2>1, InputsRead DEF ins
  <2>3. pins + Len(ins) = pnout
    BY <1>11
  <2> HIDE DEF pins, pnout, readIns
  <2> QED BY <2>2, <2>3
<1>14. ReadCompact(raw, pnout, Len(raw)) = [value |-> Len(t.Outputs), at |-> pouts] /\ Len(nout) = CompactSizeLen(Len(t.Outputs))
  <2>1. Holds(raw, pnout, CompactSize(Len(t.Outputs)))
    BY <1>8 DEF nout
  <2>2. /\ Len(CompactSize(Len(t.Outputs))) = CompactSizeLen(Len(t.Outputs))
        /\ ReadCompact(raw, pnout, Len(raw)) = [value |-> Len(t.Outputs), at |-> pnout + CompactSizeLen(Len(t.Outputs))]
    <3> HIDE DEF pnout
    <3> QED BY <1>4, <1>6, <2>1, CompactSizeReads
  <2> QED BY <2>2 DEF nout
<1>15. ReadEach(Len(t.Outputs), pouts, readOuts) = [at |-> pwit, got |-> t.Outputs]
  <2>1. t.Outputs \in Seq(Outputs) /\ \A i \in 1 .. Len(t.Outputs) : GoodOutput(t.Outputs[i])
    BY DEF GoodTransaction, Transactions
  <2>2. ReadEach(Len(t.Outputs), pouts, readOuts) = [at |-> pouts + Len(outs), got |-> t.Outputs]
    <3> HIDE DEF pouts
    <3> QED BY <1>6, <1>8, <2>1, OutputsRead DEF outs
  <2> QED BY <2>2
<1>16. ReadEach(Len(t.Inputs), pwit, readStacks) = [at |-> ptime, got |-> Stacks(ws)]
  <2>2. ReadEach(Len(ws), pwit, readStacks) = [at |-> pwit + Len(wit), got |-> Stacks(ws)]
    <3> HIDE DEF pwit
    <3> QED BY <1>6, <1>8, WitnessesRead DEF wit
  <2> QED BY <2>2
<1>17. ReadNumber(raw, 0, 4) = t.NVersion
  <2>1. Holds(raw, 0, LE(t.NVersion, 4)) /\ 4 \in Nat
    BY <1>10 DEF version
  <2>2. t.NVersion \in Nat /\ t.NVersion < Far /\ Fits(t.NVersion, 4)
    BY DEF GoodTransaction, Writable
  <2> QED BY <1>6, <2>1, <2>2, NumberReads
<1>18. ReadNumber(raw, ptime, 4) = t.NLockTime
  <2>1. Holds(raw, ptime, LE(t.NLockTime, 4)) /\ 4 \in Nat
    BY <1>9 DEF time
  <2>2. t.NLockTime \in Nat /\ t.NLockTime < Far /\ Fits(t.NLockTime, 4)
    BY DEF GoodTransaction, Writable
  <2> HIDE DEF ptime
  <2> QED BY <1>6, <2>1, <2>2, NumberReads
<1>19. ptime + 4 = Len(raw)
  <2> HIDE DEF ptime
  <2> QED BY <1>2, <1>7, <1>8
<1>20. NodeReads(raw) = [NVersion |-> t.NVersion, Inputs |-> t.Inputs, Outputs |-> t.Outputs,
                         Witnesses |-> Stacks(ws), NLockTime |-> t.NLockTime, Size |-> Len(raw)]
  <2> DEFINE rin   == ReadCompact(raw, 6, Len(raw))
             rins  == ReadEach(rin.value, rin.at, readIns)
             rout  == ReadCompact(raw, rins.at, Len(raw))
             routs == ReadEach(rout.value, rout.at, readOuts)
             rwit  == ReadEach(rin.value, routs.at, readStacks)
  <2>1. NodeReads(raw) = [NVersion |-> ReadNumber(raw, 0, 4), Inputs |-> rins.got, Outputs |-> routs.got,
                          Witnesses |-> rwit.got, NLockTime |-> ReadNumber(raw, rwit.at, 4), Size |-> rwit.at + 4]
    BY DEF NodeReads
  <2> HIDE DEF readIns, readOuts, readStacks, pins, pnout, pouts, pwit, ptime
  <2>2. rin.value = Len(t.Inputs) /\ rin.at = pins
    BY <1>12
  <2> HIDE DEF rin
  <2>3. rins.at = pnout /\ rins.got = t.Inputs
    BY <1>13, <2>2
  <2> HIDE DEF rins
  <2>4. rout.value = Len(t.Outputs) /\ rout.at = pouts
    BY <1>14, <2>3
  <2> HIDE DEF rout
  <2>5. routs.at = pwit /\ routs.got = t.Outputs
    BY <1>15, <2>4
  <2> HIDE DEF routs
  <2>6. rwit.at = ptime /\ rwit.got = Stacks(ws)
    BY <1>16, <2>2, <2>5
  <2> HIDE DEF rwit
  <2> QED BY <1>17, <1>18, <1>19, <2>1, <2>3, <2>5, <2>6
<1>21. Len(P2qpkTxID(t)) = Len(version) + Len(nin) + Len(ins) + Len(nout) + Len(outs) + Len(time)
  <2> HIDE DEF id4
  <2>1. id4 \o outs \in Bytes /\ Len(id4 \o outs) = Len(id4) + Len(outs)
    BY <1>1, <1>5, ConcatIsBytes
  <2>2. Len(id4 \o outs \o time) = Len(id4 \o outs) + Len(time)
    BY <1>1, <2>1, ConcatIsBytes
  <2> QED BY <1>3, <1>5, <2>1, <2>2
<1>22. Len(raw) = 6 + Len(nin) + Len(ins) + Len(nout) + Len(outs) + Len(wit) + 4
  <2> HIDE DEF pnin, pins, pouts, pwit
  <2> QED BY <1>8, <1>10, <1>11, <1>19
<1>23. Len(P2qpkTxID(t)) = 4 + Len(nin) + Len(ins) + Len(nout) + Len(outs) + 4
  BY <1>1, <1>2, <1>21
<1>24. /\ Len(raw) = Len(P2qpkTxID(t)) + 2 + Len(wit)
       /\ Len(P2qpkTxID(t)) = 8 + Len(nin) + Len(ins) + Len(nout) + Len(outs)
  BY <1>8, <1>10, <1>22, <1>23
<1> QED BY <1>12, <1>14, <1>20, <1>24 DEF ins, outs, wit

-----------------------------------------------------------------------------
(* The size that is planned for *)

\* Blocks are together as long as their lengths add up to.
LEMMA LengthsAddUp ==
  ASSUME NEW s \in Seq(Bytes), NEW g, g[0] = 0, \A i \in 1 .. Len(s) : g[i] = g[i - 1] + Len(s[i])
  PROVE  Len(FlattenSeq(s)) = g[Len(s)]
<1> DEFINE n == Len(s)
<1>1. n \in Nat /\ \A i \in 1 .. n : s[i] \in Bytes
  BY LenProperties
<1>2. PICK join : Joins(s, join) /\ FlattenSeq(s) = join[n]
  BY FlattenJoins
<1>3. /\ \A i \in 0 .. n : join[i] \in Bytes
      /\ join[0] = <<>> /\ \A i \in 1 .. n : join[i] = join[i - 1] \o s[i]
  BY <1>2 DEF Joins
<1>4. \A i \in 1 .. n : g[i] = g[i - 1] + Len(s[i])
  OBVIOUS
<1> HIDE DEF n
<1> DEFINE S == {i \in 0 .. n : Len(join[i]) = g[i]}
<1>5. 0 \in S
  <2>1. Len(<<>>) = 0
    BY EmptySeq
  <2> QED BY <1>1, <1>3, <2>1
<1>6. ASSUME NEW i \in 1 .. n, i - 1 \in S PROVE i \in S
  <2>1. i - 1 \in 0 .. n /\ i \in 0 .. n
    BY <1>1
  <2>2. join[i - 1] \in Bytes /\ s[i] \in Bytes /\ join[i] = join[i - 1] \o s[i]
    BY <1>1, <1>3, <2>1
  <2>3. Len(join[i]) = Len(join[i - 1]) + Len(s[i])
    BY <2>2, ConcatIsBytes
  <2>4. Len(join[i - 1]) = g[i - 1]
    BY <1>6
  <2>5. g[i] = g[i - 1] + Len(s[i])
    BY <1>4
  <2> QED BY <2>1, <2>3, <2>4, <2>5
<1>7. \A i \in 0 .. n : i \in S
  <2> HIDE DEF S
  <2> QED BY <1>1, <1>5, <1>6, OneByOne
<1>8. n \in S
  BY <1>1, <1>7
<1> QED BY <1>2, <1>8 DEF n

\* If all are equally long, as often.
LEMMA LengthsMultiply ==
  ASSUME NEW s \in Seq(Bytes), NEW c \in Nat, \A i \in 1 .. Len(s) : Len(s[i]) = c
  PROVE  Len(FlattenSeq(s)) = c * Len(s)
<1> DEFINE n == Len(s)
           g == [i \in 0 .. n |-> c * i]
<1>1. n \in Nat
  BY LenProperties
<1>2. g[0] = 0 /\ g[n] = c * n
  BY <1>1
<1>3. ASSUME NEW i \in 1 .. n PROVE g[i] = g[i - 1] + Len(s[i])
  <2>1. i \in 0 .. n /\ i - 1 \in 0 .. n /\ Len(s[i]) = c
    BY <1>1
  <2>2. g[i] = c * i /\ g[i - 1] = c * (i - 1)
    BY <2>1
  <2>3. c * i = c * (i - 1) + c
    OBVIOUS
  <2> HIDE DEF g
  <2> QED BY <2>1, <2>2, <2>3
<1> HIDE DEF g
<1>4. Len(FlattenSeq(s)) = g[n]
  BY <1>2, <1>3, LengthsAddUp
<1> QED BY <1>2, <1>4

\* Each input takes 41 bytes.
LEMMA InputsLength ==
  ASSUME NEW ins \in Seq(Inputs), \A i \in 1 .. Len(ins) : GoodInput(ins[i])
  PROVE  Len(Each(ins, InputBytes)) = 41 * Len(ins)
<1> DEFINE n == Len(ins)
           s == [i \in 1 .. n |-> InputBytes(ins[i])]
<1>1. n \in Nat /\ \A i \in 1 .. n : ins[i] \in Inputs
  BY LenProperties, ElementOfSeq
<1>2. \A i \in 1 .. n : s[i] = InputBytes(ins[i]) /\ s[i] \in Bytes
  BY <1>1, FieldsAreBytes
<1>3. s \in Seq(Bytes) /\ Len(s) = n
  <2> HIDE DEF n
  <2> QED BY <1>1, <1>2
<1>4. Each(ins, InputBytes) = FlattenSeq(s)
  BY DEF Each
<1> HIDE DEF s
<1>5. PICK c \in Nat : c = 41
  OBVIOUS
<1>6. ASSUME NEW i \in 1 .. n PROVE Len(s[i]) = c
  <2> DEFINE b == InputBytes(ins[i])
  <2>1. b \in Bytes /\ s[i] = b /\ GoodInput(ins[i])
    BY <1>2
  <2>2. PICK at : at = 0
    OBVIOUS
  <2>3. Holds(b, at, b)
    <3> HIDE DEF b
    <3> QED BY <2>1, <2>2, HoldsAll
  <2>4. Len(b) = 41
    BY <2>1, <2>3, InputReads
  <2> QED BY <1>5, <2>1, <2>4
<1>7. Len(FlattenSeq(s)) = c * Len(s)
  BY <1>3, <1>6, LengthsMultiply
<1> QED BY <1>3, <1>4, <1>5, <1>7

\* Each output takes what its script takes, and 8 bytes.
LEMMA OutputLength ==
  ASSUME NEW out, GoodOutput(out)
  PROVE  Len(OutputBytes(out)) = 8 + CompactSizeLen(Len(out.Script)) + Len(out.Script)
<1> DEFINE amount == LE(out.Amount, 8)
           script == out.Script
           length == CompactSize(Len(script))
<1>1. amount \in Bytes
  <2>1. out.Amount \in Int /\ 8 \in Nat
    BY DEF GoodOutput, Writable
  <2> QED BY <2>1, WidthsAreBytes
<1>2. Len(amount) = 8
  <2>1. out.Amount \in Int /\ 8 \in Nat
    BY DEF GoodOutput, Writable
  <2> QED BY <2>1, WidthsAreBytes
<1>3. script \in Bytes /\ Short(Len(script))
  BY DEF GoodOutput, Outputs
<1>4. Len(script) \in Nat
  BY <1>3, LenProperties DEF Bytes
<1>5. length \in Bytes
  BY <1>4, CompactSizeIsBytes
<1>6. Len(length) = CompactSizeLen(Len(script))
  <2>1. PICK at : at = 0
    OBVIOUS
  <2>2. Holds(length, at, CompactSize(Len(script)))
    BY <1>5, <2>1, HoldsAll
  <2> HIDE DEF script
  <2> QED BY <1>3, <1>4, <1>5, <2>2, CompactSizeReads
<1>7. OutputBytes(out) = amount \o length \o script
  BY DEF OutputBytes
<1> HIDE DEF amount, script, length
<1>8. amount \o length \in Bytes /\ Len(amount \o length) = Len(amount) + Len(length)
  BY <1>1, <1>5, ConcatIsBytes
<1>9. Len(amount \o length \o script) = Len(amount \o length) + Len(script)
  BY <1>3, <1>8, ConcatIsBytes
<1>10. Len(length) \in Nat
  BY <1>5, LenProperties DEF Bytes
<1>11. Len(OutputBytes(out)) = 8 + Len(length) + Len(script)
  BY <1>2, <1>4, <1>7, <1>8, <1>9, <1>10
<1> QED BY <1>6, <1>11 DEF script

\* Each witness takes what a signature and a public key take.
LEMMA WitnessesLength ==
  ASSUME NEW ws \in Seq(Witnesses), \A i \in 1 .. Len(ws) : GoodWitness(ws[i]),
         \A i \in 1 .. Len(ws) : Len(ws[i].Sig) = SLHDSASigLen /\ Len(ws[i].PubKey) = SLHDSAPKLen
  PROVE  Len(Each(ws, WitnessBytes))
           = (1 + (CompactSizeLen(SLHDSASigLen) + SLHDSASigLen) + (CompactSizeLen(SLHDSAPKLen) + SLHDSAPKLen)) * Len(ws)
<1> DEFINE n == Len(ws)
           s == [i \in 1 .. n |-> WitnessBytes(ws[i])]
           c == 1 + (CompactSizeLen(SLHDSASigLen) + SLHDSASigLen) + (CompactSizeLen(SLHDSAPKLen) + SLHDSAPKLen)
<1>1. n \in Nat /\ \A i \in 1 .. n : ws[i] \in Witnesses
  BY LenProperties, ElementOfSeq
<1>2. \A i \in 1 .. n : s[i] = WitnessBytes(ws[i]) /\ s[i] \in Bytes
  BY <1>1, FieldsAreBytes
<1>3. s \in Seq(Bytes) /\ Len(s) = n
  <2> HIDE DEF n
  <2> QED BY <1>1, <1>2
<1>4. Each(ws, WitnessBytes) = FlattenSeq(s)
  BY DEF Each
<1> HIDE DEF s
<1>5. c \in Nat
  BY LengthAssumption DEF CompactSizeLen
<1>6. ASSUME NEW i \in 1 .. n PROVE Len(s[i]) = c
  <2> DEFINE b == WitnessBytes(ws[i])
  <2>1. b \in Bytes /\ s[i] = b /\ GoodWitness(ws[i])
    BY <1>2
  <2>2. PICK at : at = 0
    OBVIOUS
  <2>3. Holds(b, at, b)
    <3> HIDE DEF b
    <3> QED BY <2>1, <2>2, HoldsAll
  <2>4. Len(b) = 1 + (CompactSizeLen(Len(ws[i].Sig)) + Len(ws[i].Sig))
                   + (CompactSizeLen(Len(ws[i].PubKey)) + Len(ws[i].PubKey))
    BY <2>1, <2>3, StackReads
  <2>5. Len(ws[i].Sig) = SLHDSASigLen /\ Len(ws[i].PubKey) = SLHDSAPKLen
    OBVIOUS
  <2> QED BY <2>1, <2>4, <2>5
<1> HIDE DEF c
<1>7. Len(FlattenSeq(s)) = c * Len(s)
  BY <1>3, <1>5, <1>6, LengthsMultiply
<1> QED BY <1>3, <1>4, <1>7 DEF c

\* What P2QPKVirtualSize adds up for the outputs is their length.
LEMMA OutputsLength ==
  ASSUME NEW outs \in Seq(Outputs), \A i \in 1 .. Len(outs) : GoodOutput(outs[i]), NEW g,
         g = [i \in 0 .. Len(outs) |->
                IF i = 0 THEN 0
                ELSE g[i - 1] + (8 + CompactSizeLen(Len(outs[i].Script)) + Len(outs[i].Script))]
  PROVE  Len(Each(outs, OutputBytes)) = g[Len(outs)]
<1> DEFINE n == Len(outs)
           s == [i \in 1 .. n |-> OutputBytes(outs[i])]
<1>1. n \in Nat /\ \A i \in 1 .. n : outs[i] \in Outputs
  BY LenProperties, ElementOfSeq
<1>2. \A i \in 1 .. n : s[i] = OutputBytes(outs[i]) /\ s[i] \in Bytes
  BY <1>1, FieldsAreBytes
<1>3. s \in Seq(Bytes) /\ Len(s) = n
  <2> HIDE DEF n
  <2> QED BY <1>1, <1>2
<1>4. Each(outs, OutputBytes) = FlattenSeq(s)
  BY DEF Each
<1> HIDE DEF s
<1>5. g[0] = 0
  BY <1>1
<1>6. ASSUME NEW i \in 1 .. n PROVE g[i] = g[i - 1] + Len(s[i])
  <2>1. g[i] = g[i - 1] + (8 + CompactSizeLen(Len(outs[i].Script)) + Len(outs[i].Script))
    BY <1>1
  <2>2. GoodOutput(outs[i])
    OBVIOUS
  <2>3. Len(OutputBytes(outs[i])) = 8 + CompactSizeLen(Len(outs[i].Script)) + Len(outs[i].Script)
    BY <2>2, OutputLength
  <2>4. s[i] = OutputBytes(outs[i])
    BY <1>2
  <2> QED BY <2>1, <2>3, <2>4
<1>7. Len(FlattenSeq(s)) = g[Len(s)]
  BY <1>3, <1>5, <1>6, LengthsAddUp
<1> QED BY <1>3, <1>4, <1>7

\* The size that the fee was planned for is the one that the node finds.
LEMMA SizeAgrees ==
  ASSUME NEW t, GoodTransaction(t), NEW ws \in Seq(Witnesses), Len(ws) = Len(t.Inputs),
         \A i \in 1 .. Len(ws) : GoodWitness(ws[i]),
         \A i \in 1 .. Len(ws) : Len(ws[i].Sig) = SLHDSASigLen /\ Len(ws[i].PubKey) = SLHDSAPKLen,
         NEW raw, raw = SerializeBIP144(t, ws)
  PROVE  P2QPKVirtualSize(Len(t.Inputs), t.Outputs) = NodeVSize(raw, t)
<1> DEFINE n == Len(t.Inputs)
           outs == t.Outputs
           m == Len(outs)
           OutputLen(out) == 8 + CompactSizeLen(Len(out.Script)) + Len(out.Script)
           UpTo(g) == g = [i \in 0 .. m |-> IF i = 0 THEN 0 ELSE g[i - 1] + OutputLen(outs[i])]
           upTo == CHOOSE g : UpTo(g)
           w == 1 + CompactSizeLen(SLHDSASigLen) + SLHDSASigLen + CompactSizeLen(SLHDSAPKLen) + SLHDSAPKLen
           stripped == 4 + CompactSizeLen(n) + 41 * n + CompactSizeLen(m) + 4 + upTo[m]
           witness == 2 + n * w
<1>1. outs \in Seq(Outputs) /\ t.Inputs \in Seq(Inputs)
  BY DEF GoodTransaction, Transactions
<1>2. m \in Nat /\ n \in Nat /\ (\A i \in 1 .. m : outs[i] \in Outputs)
  BY <1>1, LenProperties, ElementOfSeq
<1>3. P2QPKVirtualSize(n, outs) = (4 * stripped + witness + 3) \div 4
  BY DEF P2QPKVirtualSize
<1>4. \E g : UpTo(g)
  <2> DEFINE f == [i \in 1 .. m |-> [x \in Nat |-> x + OutputLen(outs[i])]]
  <2>1. \A i \in 1 .. m : OutputLen(outs[i]) \in Nat
    <3>1. ASSUME NEW i \in 1 .. m PROVE OutputLen(outs[i]) \in Nat
      <4>1. outs[i].Script \in Bytes
        BY <1>2 DEF Outputs
      <4>2. Len(outs[i].Script) \in Nat
        BY <4>1, LenProperties DEF Bytes
      <4>3. CompactSizeLen(Len(outs[i].Script)) \in Nat
        BY DEF CompactSizeLen
      <4>4. PICK c \in Nat, l \in Nat : c = CompactSizeLen(Len(outs[i].Script)) /\ l = Len(outs[i].Script)
        BY <4>2, <4>3
      <4>5. OutputLen(outs[i]) = 8 + c + l
        BY <4>4
      <4> HIDE DEF OutputLen, m, outs
      <4> QED BY <4>5
    <3> HIDE DEF OutputLen, m, outs
    <3> QED BY <3>1
  <2> HIDE DEF OutputLen, m, outs
  <2>2. f \in [1 .. m -> [Nat -> Nat]]
    BY <2>1
  <2>3. PICK g : Stepwise(m, Nat, 0, f, g)
    <3> HIDE DEF f
    <3> QED BY <1>2, <2>2, StepsExist
  <2>4. g \in [0 .. m -> Nat] /\ g[0] = 0 /\ \A i \in 1 .. m : g[i] = f[i][g[i - 1]]
    <3> HIDE DEF f
    <3> QED BY <2>3 DEF Stepwise
  <2>5. \A i \in 0 .. m : g[i] = IF i = 0 THEN 0 ELSE g[i - 1] + OutputLen(outs[i])
    <3>1. ASSUME NEW i \in 1 .. m PROVE g[i] = g[i - 1] + OutputLen(outs[i])
      <4>1. g[i - 1] \in Nat
        BY <1>2, <2>4
      <4>2. f[i][g[i - 1]] = g[i - 1] + OutputLen(outs[i])
        BY <4>1
      <4> HIDE DEF f
      <4> QED BY <2>4, <4>2
    <3> QED BY <1>2, <2>4, <3>1
  <2>6. g = [i \in 0 .. m |-> g[i]]
    BY <2>4
  <2>7. UpTo(g)
    BY <2>5, <2>6
  <2> QED BY <2>7
<1>5. UpTo(upTo)
  <2> HIDE DEF UpTo
  <2> QED BY <1>4
<1> HIDE DEF upTo
<1>6. Len(Each(outs, OutputBytes)) = upTo[m]
  <2>1. \A i \in 1 .. Len(outs) : GoodOutput(outs[i])
    BY DEF GoodTransaction
  <2>2. upTo = [i \in 0 .. Len(outs) |->
                  IF i = 0 THEN 0
                  ELSE upTo[i - 1] + (8 + CompactSizeLen(Len(outs[i].Script)) + Len(outs[i].Script))]
    BY <1>5
  <2> HIDE DEF outs
  <2> QED BY <1>1, <2>1, <2>2, OutputsLength
<1>7. Len(Each(t.Inputs, InputBytes)) = 41 * n
  BY <1>1, InputsLength DEF GoodTransaction
<1> DEFINE v == 1 + (CompactSizeLen(SLHDSASigLen) + SLHDSASigLen) + (CompactSizeLen(SLHDSAPKLen) + SLHDSAPKLen)
<1>8. Len(Each(ws, WitnessBytes)) = v * Len(ws)
  BY WitnessesLength
<1>9. w = v /\ w \in Nat
  BY LengthAssumption DEF CompactSizeLen
<1> HIDE DEF w, v
<1>10. Len(Each(ws, WitnessBytes)) = n * w
  BY <1>2, <1>8, <1>9
<1>11. /\ Len(raw) = Len(P2qpkTxID(t)) + 2 + Len(Each(ws, WitnessBytes))
       /\ Len(P2qpkTxID(t)) = 8 + CompactSizeLen(n) + Len(Each(t.Inputs, InputBytes))
                                + CompactSizeLen(m) + Len(Each(outs, OutputBytes))
  BY TransactionReads
<1>12. CompactSizeLen(n) \in Nat /\ CompactSizeLen(m) \in Nat /\ upTo[m] \in Nat
  <2>1. CompactSizeLen(n) \in Nat /\ CompactSizeLen(m) \in Nat
    BY DEF CompactSizeLen
  <2>2. Each(outs, OutputBytes) \in Bytes
    BY PartsAreBytes DEF GoodTransaction
  <2>3. Len(Each(outs, OutputBytes)) \in Nat
    BY <2>2, LenProperties DEF Bytes
  <2> QED BY <1>6, <2>1, <2>3
<1>13. PICK a \in Nat, b \in Nat, u \in Nat, k \in Nat, x \in Nat, y \in Nat :
         /\ a = CompactSizeLen(n) /\ b = CompactSizeLen(m) /\ u = upTo[m] /\ k = n
         /\ x = Len(Each(t.Inputs, InputBytes)) /\ y = n * w
  <2>1. n * w \in Nat /\ 41 * n \in Nat
    BY <1>2, <1>9
  <2>2. Len(Each(t.Inputs, InputBytes)) \in Nat
    BY <1>7, <2>1
  <2> HIDE DEF UpTo, OutputLen, n, m, outs, stripped, witness
  <2> QED BY <1>2, <1>12, <2>1, <2>2
<1>14. stripped = 4 + a + 41 * k + b + 4 + u /\ witness = 2 + y
  BY <1>13
<1>15. x = 41 * k /\ Len(P2qpkTxID(t)) = 8 + a + x + b + u /\ Len(raw) = Len(P2qpkTxID(t)) + 2 + y
  BY <1>6, <1>7, <1>10, <1>11, <1>13
<1> HIDE DEF UpTo, OutputLen, n, m, outs, stripped, witness
<1>16. NodeVSize(raw, t) = (3 * (8 + a + x + b + u) + (8 + a + x + b + u + 2 + y) + 3) \div 4
  BY <1>15 DEF NodeVSize
<1>17. P2QPKVirtualSize(n, outs) = (4 * (8 + a + x + b + u) + (2 + y) + 3) \div 4
  <2>1. 4 + a + 41 * k + b + 4 + u = 8 + a + x + b + u
    BY <1>15
  <2> QED BY <1>3, <1>14, <2>1
<1>18. 3 * (8 + a + x + b + u) + (8 + a + x + b + u + 2 + y) + 3 = 4 * (8 + a + x + b + u) + (2 + y) + 3
  OBVIOUS
<1>19. P2QPKVirtualSize(n, outs) = NodeVSize(raw, t)
  BY <1>16, <1>17, <1>18
<1> QED BY <1>19 DEF n, outs

-----------------------------------------------------------------------------
(* What is stored, and what is offered of it *)

\* What the proof needs besides the property: what was decoded and what is
\* stored are bytes, a stored identifier is the confirmed transaction's, and an
\* entry that is offered gives its identifier.
Stored ==
  /\ payee \in Payees
  /\ "legacy" \in DOMAIN text
  /\ text.legacy = NoLegacy \/ text.legacy.payload \in Bytes
  /\ IsScript(read.dest.script)
  /\ entry \in [TxID : Bytes, Raw : Bytes]
  /\ tx # NoTx => entry.TxID = P2qpkTxID(tx) /\ entry.TxID # NoTxID
  /\ offered => tx # NoTx /\ TxIDFromBIP144(entry.Raw) = entry.TxID

\* Another program's text has a payload, if any, that is its program.
LEMMA GivenTextIsTyped ==
  ASSUME NEW p \in Payees
  PROVE  /\ "legacy" \in DOMAIN GivenText(p)
         /\ GivenText(p).legacy = NoLegacy \/ GivenText(p).legacy.payload \in Bytes
<1>1. ASSUME NEW chars PROVE "legacy" \in DOMAIN Text(chars) /\ Text(chars).legacy = NoLegacy
  BY DEF Text
<1>2. ASSUME NEW hrp, NEW data, NEW c
      PROVE  "legacy" \in DOMAIN EncodeGeneric(hrp, data, c) /\ EncodeGeneric(hrp, data, c).legacy = NoLegacy
  <2> DEFINE combined == data \o CreateChecksum(hrp, data, c)
             chars == hrp \o <<"1">> \o [i \in 1 .. Len(combined) |-> Charset[combined[i] + 1]]
  <2>1. EncodeGeneric(hrp, data, c) = Text(chars)
    BY DEF EncodeGeneric
  <2> HIDE DEF chars
  <2> QED BY <1>1, <2>1
<1>3. p.encoding \in {"base58", "wallet", "bech32", "bech32m"} /\ p.program \in Seq(0 .. 255)
  BY PaymentAssumption
<1>4. CASE p.encoding = "base58"
  <2>1. GivenText(p) = LegacyText(p.version, p.program)
    BY <1>4 DEF GivenText
  <2>2. p.program \in Bytes
    BY <1>3, OctetsAreBytes
  <2> QED BY <2>1, <2>2 DEF LegacyText
<1>5. CASE p.encoding = "wallet"
  <2>1. GivenText(p) = Encode(p.program, p.net)
    BY <1>5 DEF GivenText
  <2> QED BY <1>2, <2>1 DEF Encode
<1>6. CASE p.encoding = "bech32"
  BY <1>2, <1>6 DEF GivenText
<1>7. CASE p.encoding = "bech32m"
  BY <1>2, <1>7 DEF GivenText
<1> QED BY <1>3, <1>4, <1>5, <1>6, <1>7

\* A signature is bytes.
LEMMA SignatureIsBytes ==
  ASSUME NEW k \in Nat
  PROVE  Signature(k) \in Bytes
<1>1. SLHDSASigLen \in Nat
  BY LengthAssumption
<1>2. [j \in 1 .. SLHDSASigLen |-> k] \in Seq(Nat)
  BY <1>1
<1> QED BY <1>2 DEF Signature, Bytes

\* What is spent, and what it is signed with, can be said in the bytes.
LEMMA SpendIsGood ==
  ASSUME NEW n \in DOMAIN Source, NEW outputs \in Seq(Outputs), NEW t,
         t = Spend(SubSeq(Source, 1, n), outputs)
  PROVE  /\ t \in Transactions /\ n \in Nat /\ n >= 1 /\ Len(t.Inputs) = n /\ Short(n)
         /\ \A i \in 1 .. n : GoodInput(t.Inputs[i])
         /\ t.Outputs = outputs /\ Writable(t.NVersion, 4) /\ Writable(t.NLockTime, 4)
<1> DEFINE Coins == [TxIDLE : Seq(0 .. 255), Vout : Nat, Amount : Nat]
           coins == SubSeq(Source, 1, n)
           In(i) == [TxIDLE |-> coins[i].TxIDLE, Vout |-> coins[i].Vout, NSequence |-> <<255, 255, 255, 255>>]
           Spent(i) == [Amount |-> coins[i].Amount, Script |-> SourceScript]
<1>1. Source \in Seq(Coins) /\ Len(Source) <= 65535
  BY PaymentAssumption
<1>2. \A i \in DOMAIN Source : /\ Len(Source[i].TxIDLE) = 32
                               /\ Source[i].Vout < Far /\ Fits(Source[i].Vout, 4)
  BY PaymentAssumption
<1> HIDE DEF Coins
<1>3. n \in Nat /\ n >= 1 /\ n <= Len(Source) /\ DOMAIN Source = 1 .. Len(Source) /\ Len(Source) \in Nat
  BY <1>1, LenProperties
<1>4. Short(n)
  BY <1>1, <1>3 DEF Short
<1>5. ASSUME NEW i \in 1 .. n PROVE Source[i] \in Coins
  <2>1. i \in 1 .. Len(Source)
    BY <1>3
  <2> QED BY <1>1, <2>1, ElementOfSeq
<1>6. coins \in Seq(Coins) /\ Len(coins) = n /\ \A i \in 1 .. n : coins[i] = Source[i]
  BY <1>3, <1>5, SubSeqProperties
<1> HIDE DEF coins
<1>7. SourceScript \in Bytes
  <2>1. <<82, 32>> \in Bytes
    BY DEF Bytes
  <2>2. OwnProgram \in Bytes
    BY PaymentAssumption, OctetsAreBytes
  <2> QED BY <2>1, <2>2, ConcatIsBytes DEF SourceScript
<1>8. ASSUME NEW i \in 1 .. n PROVE In(i) \in Inputs /\ Spent(i) \in Outputs /\ GoodInput(In(i))
  <2>1. coins[i] \in Coins /\ coins[i] = Source[i] /\ i \in DOMAIN Source
    BY <1>3, <1>5, <1>6
  <2>2. coins[i].TxIDLE \in Bytes /\ coins[i].Vout \in Nat /\ coins[i].Amount \in Nat
    BY <2>1, OctetsAreBytes DEF Coins
  <2>3. <<255, 255, 255, 255>> \in Bytes /\ Len(<<255, 255, 255, 255>>) = 4
    BY DEF Bytes
  <2>4. In(i) \in Inputs /\ Spent(i) \in Outputs
    BY <1>7, <2>2, <2>3 DEF Inputs, Outputs
  <2>5. Len(coins[i].TxIDLE) = 32 /\ Writable(coins[i].Vout, 4)
    BY <1>2, <2>1, <2>2 DEF Writable
  <2> QED BY <2>3, <2>4, <2>5 DEF GoodInput
<1>9. t = [NVersion |-> 2, NLockTime |-> 0, Inputs |-> [i \in 1 .. n |-> In(i)],
           SpentUTXOs |-> [i \in 1 .. n |-> Spent(i)], Outputs |-> outputs]
  <2>1. DOMAIN coins = 1 .. n
    BY <1>6, LenProperties
  <2>2. t = Spend(coins, outputs)
    BY DEF coins
  <2> QED BY <2>1, <2>2 DEF Spend
<1> HIDE DEF In, Spent
<1>10. [i \in 1 .. n |-> In(i)] \in Seq(Inputs) /\ [i \in 1 .. n |-> Spent(i)] \in Seq(Outputs)
  <2>1. [i \in 1 .. n |-> In(i)] \in Seq(Inputs)
    BY <1>3, <1>8
  <2>2. [i \in 1 .. n |-> Spent(i)] \in Seq(Outputs)
    BY <1>3, <1>8
  <2> QED BY <2>1, <2>2
<1>11. t \in Transactions
  <2>1. PICK ins \in Seq(Inputs), spent \in Seq(Outputs) :
          t = [NVersion |-> 2, NLockTime |-> 0, Inputs |-> ins, SpentUTXOs |-> spent, Outputs |-> outputs]
    BY <1>9, <1>10
  <2> QED BY <2>1 DEF Transactions
<1>12. Len(t.Inputs) = n /\ (\A i \in 1 .. n : t.Inputs[i] = In(i)) /\ t.Outputs = outputs
  BY <1>3, <1>9
<1>13. Writable(t.NVersion, 4) /\ Writable(t.NLockTime, 4)
  <2>1. ASSUME NEW v \in Nat, v <= 255 PROVE Writable(v, 4)
    <3>1. Short(v)
      BY <2>1 DEF Short
    <3>2. v < Far /\ Fits(v, 4)
      BY <2>1, <3>1, SmallFits
    <3> QED BY <3>2 DEF Writable
  <2>2. t.NVersion = 2 /\ t.NLockTime = 0
    BY <1>9
  <2>3. t.NVersion \in Nat /\ t.NVersion <= 255 /\ t.NLockTime \in Nat /\ t.NLockTime <= 255
    BY <2>2
  <2> QED BY <2>1, <2>3
<1> QED BY <1>3, <1>4, <1>8, <1>11, <1>12, <1>13

\* So can the witnesses.
LEMMA SignedIsGood ==
  ASSUME NEW n \in Nat
  PROVE  /\ Signed(n) \in Seq(Witnesses) /\ Len(Signed(n)) = n
         /\ \A i \in 1 .. n : /\ Signed(n)[i] = [Sig |-> Signature(i), PubKey |-> SourceKey]
                              /\ GoodWitness(Signed(n)[i])
                              /\ Len(Signed(n)[i].Sig) = SLHDSASigLen
                              /\ Len(Signed(n)[i].PubKey) = SLHDSAPKLen
<1> DEFINE W(i) == [Sig |-> Signature(i), PubKey |-> SourceKey]
<1>1. SourceKey \in Bytes /\ Len(SourceKey) = SLHDSAPKLen
  BY PaymentAssumption, OctetsAreBytes
<1>2. Short(SLHDSASigLen) /\ Short(SLHDSAPKLen)
  BY LengthAssumption DEF Short
<1>3. ASSUME NEW i \in 1 .. n
      PROVE  W(i) \in Witnesses /\ Len(W(i).Sig) = SLHDSASigLen /\ Len(W(i).PubKey) = SLHDSAPKLen
  <2>1. Signature(i) \in Bytes
    BY SignatureIsBytes
  <2>2. Len(Signature(i)) = SLHDSASigLen
    BY LengthAssumption DEF Signature
  <2> QED BY <1>1, <2>1, <2>2 DEF Witnesses
<1>4. ASSUME NEW i \in 1 .. n PROVE GoodWitness(W(i))
  BY <1>2, <1>3 DEF GoodWitness
<1>5. Signed(n) = [i \in 1 .. n |-> W(i)]
  BY DEF Signed
<1>6. \A i \in 1 .. n : W(i) = [Sig |-> Signature(i), PubKey |-> SourceKey]
  OBVIOUS
<1> HIDE DEF W
<1>7. [i \in 1 .. n |-> W(i)] \in Seq(Witnesses)
  BY <1>3
<1>8. Len(Signed(n)) = n /\ \A i \in 1 .. n : Signed(n)[i] = W(i)
  BY <1>5
<1> QED BY <1>3, <1>4, <1>5, <1>6, <1>7, <1>8

\* The outputs of a payment can be said in the bytes, the amount that was typed
\* first.
LEMMA OutputsAreGood ==
  ASSUME NEW script, IsScript(script), NEW amount \in Amounts, QOGEToSatoshis(amount) > 0,
         NEW change \in Changes, NEW outputs,
         outputs \in {<<[Amount |-> QOGEToSatoshis(amount), Script |-> script]>>,
                      <<[Amount |-> QOGEToSatoshis(amount), Script |-> script],
                        [Amount |-> change, Script |-> ChangeScript]>>}
  PROVE  /\ outputs \in Seq(Outputs) /\ Short(Len(outputs)) /\ Len(outputs) >= 1
         /\ outputs[1].Amount = QOGEToSatoshis(amount)
         /\ \A i \in 1 .. Len(outputs) : GoodOutput(outputs[i])
<1> DEFINE there == [Amount |-> QOGEToSatoshis(amount), Script |-> script]
           back  == [Amount |-> change, Script |-> ChangeScript]
<1>1. ASSUME NEW v \in Nat, v <= MaxInt64 PROVE Writable(v, 8)
  <2>1. MaxInt64 \in Nat /\ MaxInt64 < Far /\ Far \in Nat /\ Fits(MaxInt64, 8)
    BY PaymentAssumption, LengthAssumption
  <2>2. v < Far
    BY <1>1, <2>1
  <2>3. Fits(v, 8)
    <3>1. PICK k \in Nat : k = 8
      OBVIOUS
    <3>2. Fits(MaxInt64, k)
      BY <2>1, <3>1
    <3>3. Fits(v, k)
      BY <1>1, <2>1, <3>2, SmallerFits
    <3> QED BY <3>1, <3>3
  <2> QED BY <2>2, <2>3 DEF Writable
<1>2. GoodOutput(there) /\ there \in Outputs
  <2>1. QOGEToSatoshis(amount) \in Nat /\ QOGEToSatoshis(amount) <= MaxInt64
    BY AmountIsExact
  <2>2. Writable(QOGEToSatoshis(amount), 8)
    BY <1>1, <2>1
  <2>3. there \in Outputs /\ Short(Len(script))
    BY <2>1 DEF Outputs, IsScript
  <2> QED BY <2>2, <2>3 DEF GoodOutput
<1>3. GoodOutput(back) /\ back \in Outputs
  <2>1. change \in Nat /\ change <= MaxInt64
    BY PaymentAssumption
  <2>2. Writable(change, 8)
    BY <1>1, <2>1
  <2>3. ChangeScript \in Bytes /\ Short(Len(ChangeScript))
    BY OwnScriptIsScript DEF ChangeScript, IsScript
  <2>4. back \in Outputs
    BY <2>1, <2>3 DEF Outputs
  <2> QED BY <2>2, <2>3, <2>4 DEF GoodOutput
<1>4. there.Amount = QOGEToSatoshis(amount)
  OBVIOUS
<1>5. outputs = <<there>> \/ outputs = <<there, back>>
  OBVIOUS
<1> HIDE DEF there, back
<1>6. CASE outputs = <<there>>
  <2>1. outputs \in Seq(Outputs) /\ Len(outputs) = 1 /\ outputs[1] = there
    BY <1>2, <1>6
  <2>2. Short(Len(outputs)) /\ Len(outputs) >= 1
    BY <2>1 DEF Short
  <2>3. \A i \in 1 .. Len(outputs) : GoodOutput(outputs[i])
    BY <1>2, <2>1
  <2> QED BY <1>4, <2>1, <2>2, <2>3
<1>7. CASE outputs = <<there, back>>
  <2>1. outputs \in Seq(Outputs) /\ Len(outputs) = 2 /\ outputs[1] = there /\ outputs[2] = back
    BY <1>2, <1>3, <1>7
  <2>2. Short(Len(outputs)) /\ Len(outputs) >= 1
    BY <2>1 DEF Short
  <2>3. \A i \in 1 .. Len(outputs) : GoodOutput(outputs[i])
    <3>1. \A i \in 1 .. 2 : i = 1 \/ i = 2
      OBVIOUS
    <3> QED BY <1>2, <1>3, <2>1, <3>1
  <2> QED BY <1>4, <2>1, <2>2, <2>3
<1> QED BY <1>5, <1>6, <1>7

\* What is stored when a payment is signed is bytes, with an identifier.
LEMMA SignedIsStored ==
  ASSUME Stored, NEW n \in DOMAIN Source, NEW amount \in Amounts, NEW change \in Changes,
         SignAndStore(n, amount, change)
  PROVE  /\ entry' \in [TxID : Bytes, Raw : Bytes]
         /\ entry'.TxID = P2qpkTxID(tx') /\ entry'.TxID # NoTxID
<1> DEFINE there   == [Amount |-> QOGEToSatoshis(amount), Script |-> read.dest.script]
           back    == [Amount |-> change, Script |-> ChangeScript]
           outputs == IF change = 0 THEN <<there>> ELSE <<there, back>>
           t       == Spend(SubSeq(Source, 1, n), outputs)
           signed  == Signed(n)
           raw     == SerializeBIP144(t, signed)
<1>1. tx' = t /\ entry' = [TxID |-> P2qpkTxID(t), Raw |-> raw]
  BY DEF SignAndStore
<1>2. QOGEToSatoshis(amount) > 0 /\ IsScript(read.dest.script)
  BY DEF SignAndStore, Stored
<1>3. outputs \in Seq(Outputs)
  <2>1. outputs \in {<<there>>, <<there, back>>}
    OBVIOUS
  <2> HIDE DEF outputs
  <2> QED BY <1>2, <2>1, OutputsAreGood
<1> HIDE DEF outputs
<1>4. t \in Transactions /\ n \in Nat
  BY <1>3, SpendIsGood
<1>5. signed \in Seq(Witnesses)
  BY <1>4, SignedIsGood
<1>6. t \in Transactions
  BY <1>4
<1> HIDE DEF t, signed
<1>7. raw \in Bytes /\ P2qpkTxID(t) \in Bytes /\ P2qpkTxID(t) # NoTxID
  BY <1>5, <1>6, SerializedIsBytes
<1> HIDE DEF raw
<1> QED BY <1>1, <1>7

\* Each step keeps what is stored as it must be: copying and reading an address,
\* signing, a byte that changes on the disk, the next payment.
LEMMA StoredKept ==
  ASSUME Stored, [PayNext]_payVars
  PROVE  Stored'
<1>1. CASE CopyAddress
  BY <1>1, GivenTextIsTyped DEF Stored, CopyAddress, signVars, storeVars
<1>2. CASE Slip
  <2>1. "legacy" \in DOMAIN text' /\ (text'.legacy = text.legacy \/ text'.legacy = NoLegacy)
    <3>1. PICK field, v : /\ field \in {"chars", "case", "legacy"} /\ (field = "legacy" => v = NoLegacy)
                          /\ text' = [text EXCEPT ![field] = v]
      BY <1>2 DEF Slip
    <3> QED BY <3>1 DEF Stored
  <2> QED BY <1>2, <2>1 DEF Stored, Slip, signVars, storeVars
<1>3. CASE EnterDestination
  <2>1. IsScript(DecodeMainnetDestination(text).script) /\ IsScript(NotRead.dest.script)
    <3>1. text.legacy = NoLegacy \/ text.legacy.payload \in Bytes
      BY DEF Stored
    <3> QED BY <3>1, DestinationIsScript, NothingIsScript DEF NotRead, Refused
  <2>2. read'.dest.script \in {DecodeMainnetDestination(text).script, NotRead.dest.script}
    BY <1>3 DEF EnterDestination
  <2>3. "legacy" \in DOMAIN text' /\ text'.legacy = NoLegacy
    BY <1>3 DEF EnterDestination, NoText, Text
  <2> QED BY <1>3, <2>1, <2>2, <2>3 DEF Stored, EnterDestination, signVars, storeVars
<1>4. ASSUME NEW n \in DOMAIN Source, NEW amount \in Amounts, NEW change \in Changes,
             SignAndStore(n, amount, change)
      PROVE  Stored'
  <2>1. /\ entry' \in [TxID : Bytes, Raw : Bytes]
        /\ entry'.TxID = P2qpkTxID(tx') /\ entry'.TxID # NoTxID
    BY <1>4, SignedIsStored
  <2>2. ~offered /\ UNCHANGED <<payee, text, read, offered>>
    BY <1>4 DEF Stored, SignAndStore, copyVars
  <2> QED BY <2>1, <2>2 DEF Stored
<1>5. CASE Damage
  <2>1. PICK i \in 1 .. Len(entry.Raw) :
          \/ entry' = [entry EXCEPT !.Raw = SubSeq(@, 1, i - 1)]
          \/ entry' = [entry EXCEPT !.Raw = RemoveAt(@, i)]
          \/ \E b \in BadBytes : entry' = [entry EXCEPT !.Raw = ReplaceAt(@, i, b)]
          \/ \E b \in BadBytes : entry' = [entry EXCEPT !.Raw = InsertAt(@, i, b)]
    BY <1>5 DEF Damage
  <2> DEFINE raw == entry.Raw
  <2>2. raw \in Bytes /\ Len(raw) \in Nat
    BY LenProperties DEF Stored, Bytes
  <2>3. SubSeq(raw, 1, i - 1) \in Bytes /\ SubSeq(raw, i, Len(raw)) \in Bytes
    <3> HIDE DEF raw
    <3>1. i \in Nat \ {0} /\ i - 1 \in Int /\ i - 1 <= Len(raw) /\ Len(raw) \in Int /\ Len(raw) <= Len(raw)
      BY <2>2 DEF raw
    <3> QED BY <2>2, <3>1, SubSeqIsBytes
  <2>4. SubSeq(raw, i + 1, Len(raw)) \in Bytes
    <3> HIDE DEF raw
    <3>1. i + 1 \in Nat \ {0} /\ Len(raw) \in Int /\ Len(raw) <= Len(raw)
      BY <2>2
    <3> QED BY <2>2, <3>1, SubSeqIsBytes
  <2>5. RemoveAt(raw, i) \in Bytes
    BY <2>3, <2>4, ConcatIsBytes DEF RemoveAt
  <2>6. ASSUME NEW b \in BadBytes PROVE ReplaceAt(raw, i, b) \in Bytes /\ InsertAt(raw, i, b) \in Bytes
    <3>1. b \in Nat /\ <<b>> \in Bytes
      BY PaymentAssumption DEF Bytes
    <3>2. [raw EXCEPT ![i] = b] \in Bytes
      <4> HIDE DEF raw
      <4>1. raw \in Seq(Nat) /\ i \in 1 .. Len(raw)
        BY <2>2 DEF raw, Bytes
      <4> QED BY <3>1, <4>1, ExceptSeq DEF Bytes
    <3>3. SubSeq(raw, 1, i - 1) \o <<b>> \in Bytes
      BY <2>3, <3>1, ConcatIsBytes
    <3> QED BY <2>3, <3>2, <3>3, ConcatIsBytes DEF ReplaceAt, InsertAt
  <2>7. entry' \in [TxID : Bytes, Raw : Bytes] /\ entry'.TxID = entry.TxID
    <3>1. PICK r \in Bytes : entry' = [entry EXCEPT !.Raw = r]
      BY <2>1, <2>3, <2>5, <2>6
    <3> QED BY <3>1 DEF Stored
  <2> QED BY <1>5, <2>7 DEF Stored, Damage, copyVars, signVars
<1>6. CASE RenderPending
  BY <1>6 DEF Stored, RenderPending, copyVars, signVars
<1>7. CASE Restart
  <2>1. NoEntry \in [TxID : Bytes, Raw : Bytes] /\ IsScript(NotRead.dest.script)
    BY OctetsAreBytes, NothingIsScript DEF NoEntry, NoTxID, NotRead, Refused
  <2> QED BY <1>7, <2>1 DEF Stored, Restart, copyVars
<1>8. CASE UNCHANGED payVars
  BY <1>8 DEF Stored, payVars, copyVars, signVars, storeVars
<1> QED BY <1>1, <1>2, <1>3, <1>4, <1>5, <1>6, <1>7, <1>8 DEF PayNext

\* Before the first payment nothing is stored.
LEMMA StoredFirst ==
  ASSUME PayInit
  PROVE  Stored
<1>1. NoEntry \in [TxID : Bytes, Raw : Bytes] /\ IsScript(NotRead.dest.script)
  BY OctetsAreBytes, NothingIsScript DEF NoEntry, NoTxID, NotRead, Refused
<1> QED BY <1>1 DEF Stored, PayInit, NothingSigned, NoText, Text

\* For every payment, every mistake in copying and every change of the stored
\* bytes, and for transactions and signatures of every length: the bytes that
\* renderPending offers for broadcast have every field of the transaction that
\* was confirmed, in its place, and the marker; only witnesses can differ.
THEOREM OffersSafe == PaySpec => [](OffersWhatWasSigned /\ (offered => entry.TxID = P2qpkTxID(tx)))
<1>1. PayInit => Stored
  BY StoredFirst
<1>2. Stored /\ [PayNext]_payVars => Stored'
  BY StoredKept
<1>3. Stored => OffersWhatWasSigned /\ (offered => entry.TxID = P2qpkTxID(tx))
  <2> SUFFICES ASSUME Stored, offered
               PROVE  OffersWhatWasSigned /\ entry.TxID = P2qpkTxID(tx)
    BY DEF OffersWhatWasSigned
  <2>1. entry.Raw \in Bytes /\ TxIDFromBIP144(entry.Raw) = entry.TxID /\ entry.TxID # NoTxID
    BY DEF Stored
  <2> QED BY <2>1, OffersTheFields DEF Stored, OffersWhatWasSigned
<1> QED BY <1>1, <1>2, <1>3, PTL DEF PaySpec

\* What a transaction that was confirmed is: one whose bytes can say it, for the
\* amount that was typed, signed input by input; until a stored byte changes, its
\* bytes are stored.
Confirmed ==
  /\ asked \in Amounts /\ QOGEToSatoshis(asked) > 0
  /\ GoodTransaction(tx) /\ Len(tx.Outputs) >= 1 /\ tx.Outputs[1].Amount = QOGEToSatoshis(asked)
  /\ digests = Sighashes(tx)
  /\ vsize = P2QPKVirtualSize(Len(tx.Inputs), tx.Outputs)
  /\ ~damaged => entry.Raw = SerializeBIP144(tx, Signed(Len(tx.Inputs)))

\* A payment that is signed is confirmed as it was typed.
LEMMA SignedIsConfirmed ==
  ASSUME Stored, NEW n \in DOMAIN Source, NEW amount \in Amounts, NEW change \in Changes,
         SignAndStore(n, amount, change)
  PROVE  Confirmed'
<1> DEFINE there   == [Amount |-> QOGEToSatoshis(amount), Script |-> read.dest.script]
           back    == [Amount |-> change, Script |-> ChangeScript]
           outputs == IF change = 0 THEN <<there>> ELSE <<there, back>>
           t       == Spend(SubSeq(Source, 1, n), outputs)
<1>1. /\ asked' = amount /\ tx' = t /\ digests' = Sighashes(t)
      /\ vsize' = P2QPKVirtualSize(n, outputs)
      /\ entry'.Raw = SerializeBIP144(t, Signed(n))
      /\ QOGEToSatoshis(amount) > 0
  BY DEF SignAndStore
<1>2. IsScript(read.dest.script)
  BY DEF Stored
<1>3. outputs \in {<<there>>, <<there, back>>}
  OBVIOUS
<1>4. /\ outputs \in Seq(Outputs) /\ Short(Len(outputs)) /\ Len(outputs) >= 1
      /\ outputs[1].Amount = QOGEToSatoshis(amount)
      /\ \A i \in 1 .. Len(outputs) : GoodOutput(outputs[i])
  <2> HIDE DEF outputs
  <2> QED BY <1>1, <1>2, <1>3, OutputsAreGood
<1> HIDE DEF outputs
<1>5. /\ t \in Transactions /\ Len(t.Inputs) = n /\ Short(n)
      /\ \A i \in 1 .. n : GoodInput(t.Inputs[i])
      /\ t.Outputs = outputs /\ Writable(t.NVersion, 4) /\ Writable(t.NLockTime, 4)
  BY <1>4, SpendIsGood
<1> HIDE DEF t
<1>6. GoodTransaction(t)
  BY <1>4, <1>5 DEF GoodTransaction
<1>7. /\ asked' \in Amounts /\ QOGEToSatoshis(asked') > 0
      /\ GoodTransaction(tx') /\ Len(tx'.Outputs) >= 1 /\ tx'.Outputs[1].Amount = QOGEToSatoshis(asked')
      /\ digests' = Sighashes(tx')
      /\ vsize' = P2QPKVirtualSize(Len(tx'.Inputs), tx'.Outputs)
      /\ entry'.Raw = SerializeBIP144(tx', Signed(Len(tx'.Inputs)))
  BY <1>1, <1>4, <1>5, <1>6
<1> QED BY <1>7 DEF Confirmed

\* Each step keeps it so.
LEMMA ConfirmedKept ==
  ASSUME Stored, tx # NoTx => Confirmed, [PayNext]_payVars
  PROVE  (tx # NoTx => Confirmed)'
<1>1. CASE CopyAddress \/ Slip \/ EnterDestination
  BY <1>1 DEF Confirmed, CopyAddress, Slip, EnterDestination, signVars, storeVars
<1>2. ASSUME NEW n \in DOMAIN Source, NEW amount \in Amounts, NEW change \in Changes,
             SignAndStore(n, amount, change)
      PROVE  (tx # NoTx => Confirmed)'
  BY <1>2, SignedIsConfirmed
<1>3. CASE Damage
  BY <1>3 DEF Confirmed, Damage, signVars
<1>4. CASE RenderPending
  BY <1>4 DEF Confirmed, RenderPending, signVars
<1>5. CASE Restart
  BY <1>5 DEF Restart
<1>6. CASE UNCHANGED payVars
  BY <1>6 DEF Confirmed, payVars, signVars, storeVars
<1> QED BY <1>1, <1>2, <1>3, <1>4, <1>5, <1>6 DEF PayNext

\* The bytes of what was confirmed say it.
LEMMA ConfirmedIsRead ==
  ASSUME tx # NoTx, Confirmed
  PROVE  NodeReadsWhatWasSigned
<1> SUFFICES ASSUME ~damaged PROVE NodeReadsWhatWasSigned
  BY DEF NodeReadsWhatWasSigned
<1> DEFINE n   == Len(tx.Inputs)
           ws  == Signed(n)
           raw == entry.Raw
<1>1. GoodTransaction(tx) /\ raw = SerializeBIP144(tx, ws)
  BY DEF Confirmed
<1>2. tx \in Transactions /\ n \in Nat /\ DOMAIN tx.Inputs = 1 .. n
  <2>1. tx \in Transactions
    BY <1>1 DEF GoodTransaction
  <2>2. tx.Inputs \in Seq(Inputs)
    BY <2>1 DEF Transactions
  <2> QED BY <2>1, <2>2, LenProperties
<1>3. /\ ws \in Seq(Witnesses) /\ Len(ws) = n
      /\ \A i \in 1 .. n : /\ ws[i] = [Sig |-> Signature(i), PubKey |-> SourceKey]
                           /\ GoodWitness(ws[i])
                           /\ Len(ws[i].Sig) = SLHDSASigLen /\ Len(ws[i].PubKey) = SLHDSAPKLen
  <2> HIDE DEF n
  <2> QED BY <1>2, SignedIsGood
<1>4. /\ ws \in Seq(Witnesses) /\ Len(ws) = Len(tx.Inputs)
      /\ \A i \in 1 .. Len(ws) : GoodWitness(ws[i])
      /\ \A i \in 1 .. Len(ws) : Len(ws[i].Sig) = SLHDSASigLen /\ Len(ws[i].PubKey) = SLHDSAPKLen
  BY <1>3
<1> HIDE DEF ws, raw
<1>5. NodeReads(raw) = [NVersion |-> tx.NVersion, Inputs |-> tx.Inputs, Outputs |-> tx.Outputs,
                        Witnesses |-> Stacks(ws), NLockTime |-> tx.NLockTime, Size |-> Len(raw)]
  <2> HIDE DEF n
  <2> QED BY <1>1, <1>4, TransactionReads
<1>6. P2QPKVirtualSize(n, tx.Outputs) = NodeVSize(raw, tx)
  BY <1>1, <1>4, SizeAgrees
<1>7. vsize = NodeVSize(raw, tx)
  BY <1>6 DEF Confirmed
<1>8. tx.Outputs[1].Amount * TenTo(Len(asked.frac)) = Decimal(asked.whole \o asked.frac) * Unit
  <2>1. asked \in Amounts /\ QOGEToSatoshis(asked) > 0 /\ tx.Outputs[1].Amount = QOGEToSatoshis(asked)
    BY DEF Confirmed
  <2>2. QOGEToSatoshis(asked) * TenTo(Len(asked.frac)) = Decimal(asked.whole \o asked.frac) * Unit
    BY <2>1, AmountIsExact
  <2> QED BY <2>1, <2>2
<1> DEFINE stacks == Stacks(ws)
<1>9. Len(stacks) = n /\ \A i \in 1 .. n : stacks[i] = <<ws[i].Sig, ws[i].PubKey>>
  <2> HIDE DEF n
  <2> QED BY <1>2, <1>3 DEF Stacks
<1>10. ASSUME NEW i \in 1 .. n
       PROVE  /\ Len(stacks[i]) = 2 /\ stacks[i][2] = SourceKey
              /\ stacks[i][1] = Signature(i)
  <2>1. stacks[i] = <<ws[i].Sig, ws[i].PubKey>> /\ ws[i] = [Sig |-> Signature(i), PubKey |-> SourceKey]
    BY <1>3, <1>9
  <2>2. stacks[i] = <<Signature(i), SourceKey>>
    BY <2>1
  <2> HIDE DEF stacks
  <2> QED BY <2>2
<1>11. ASSUME NEW i \in 1 .. n
       PROVE  Len(Signature(i)) = SLHDSASigLen /\ Signature(i)[1] = i
  BY LengthAssumption DEF Signature
<1> HIDE DEF stacks
<1>12. \A i \in 1 .. n : digests[i] = ComputeP2QPKSighash(tx, i)
  BY <1>2 DEF Confirmed, Sighashes
<1>13. tx = [NVersion |-> tx.NVersion, NLockTime |-> tx.NLockTime, Inputs |-> tx.Inputs,
             SpentUTXOs |-> tx.SpentUTXOs, Outputs |-> tx.Outputs]
  BY <1>2 DEF Transactions
<1> DEFINE seen  == NodeReads(raw)
           known == [NVersion |-> seen.NVersion, NLockTime |-> seen.NLockTime, Inputs |-> seen.Inputs,
                     SpentUTXOs |-> tx.SpentUTXOs, Outputs |-> seen.Outputs]
<1>14. /\ seen.Size = Len(raw) /\ seen.Inputs = tx.Inputs /\ seen.Outputs = tx.Outputs
       /\ seen.NVersion = tx.NVersion /\ seen.NLockTime = tx.NLockTime /\ seen.Witnesses = stacks
  BY <1>5 DEF stacks
<1> HIDE DEF seen
<1>15. known = tx
  BY <1>13, <1>14
<1> HIDE DEF known
<1>16. ASSUME NEW i \in 1 .. n
       PROVE  /\ Len(seen.Witnesses[i]) = 2 /\ seen.Witnesses[i][2] = SourceKey
              /\ Len(seen.Witnesses[i][1]) = SLHDSASigLen
              /\ digests[seen.Witnesses[i][1][1]] = ComputeP2QPKSighash(known, i)
  <2>1. seen.Witnesses[i] = stacks[i]
    BY <1>14
  <2>2. digests[i] = ComputeP2QPKSighash(tx, i)
    BY <1>12
  <2> HIDE DEF n
  <2> QED BY <1>10, <1>11, <1>15, <2>1, <2>2
<1>17. /\ seen.Size = Len(raw)
       /\ seen.Inputs = tx.Inputs /\ seen.Outputs = tx.Outputs
       /\ seen.Outputs[1].Amount * TenTo(Len(asked.frac)) = Decimal(asked.whole \o asked.frac) * Unit
       /\ seen.NVersion = tx.NVersion /\ seen.NLockTime = tx.NLockTime
       /\ Len(seen.Witnesses) = n
       /\ \A i \in DOMAIN tx.Inputs :
            /\ Len(seen.Witnesses[i]) = 2
            /\ seen.Witnesses[i][2] = SourceKey
            /\ Len(seen.Witnesses[i][1]) = SLHDSASigLen
            /\ digests[seen.Witnesses[i][1][1]] = ComputeP2QPKSighash(known, i)
       /\ vsize = NodeVSize(raw, tx)
  <2>1. Len(seen.Witnesses) = n
    BY <1>9, <1>14
  <2>2. seen.Outputs[1].Amount * TenTo(Len(asked.frac)) = Decimal(asked.whole \o asked.frac) * Unit
    BY <1>8, <1>14
  <2> HIDE DEF n
  <2> QED BY <1>2, <1>7, <1>14, <1>16, <2>1, <2>2
<1> QED BY <1>17 DEF NodeReadsWhatWasSigned, seen, known, raw

\* A node that is given the undamaged bytes that signP2QPKInputs stored reads the
\* transaction that was confirmed, with the amount that was typed, exactly; behind
\* each input it finds a signature of that input's digest and the key, and it
\* counts the size that the fee was planned for.  This for every number of inputs,
\* every script and signature of at most 65535 bytes, and every amount.
THEOREM NodeReadsSafe == PaySpec => []NodeReadsWhatWasSigned
<1> DEFINE Inv == Stored /\ (tx # NoTx => Confirmed)
<1>1. PayInit => Inv
  BY StoredFirst DEF PayInit, NothingSigned
<1>2. Inv /\ [PayNext]_payVars => Inv'
  BY StoredKept, ConfirmedKept
<1>3. Inv => NodeReadsWhatWasSigned
  BY ConfirmedIsRead DEF NodeReadsWhatWasSigned
<1> QED BY <1>1, <1>2, <1>3, PTL DEF PaySpec

\* Of a destination that was accepted as a P2QPK address, the wallet's own decoder
\* makes the same script, whatever was typed.
THEOREM ReadAlike == PaySpec => [](read.dest.type = "P2QPK" => read.own = read.dest)
<1> DEFINE Alike == read.dest.type = "P2QPK" => read.own = read.dest
<1>1. NotRead.dest.type = "P2QPK" => NotRead.own = NotRead.dest
  BY DEF NotRead
<1>2. PayInit => Alike
  BY <1>1 DEF PayInit, NothingSigned
<1>3. ASSUME Alike, [PayNext]_payVars PROVE Alike'
  <2>1. CASE EnterDestination
    <3>1. DecodeMainnetDestination(text).type = "P2QPK" => P2QPKScript(text) = DecodeMainnetDestination(text)
      BY AcceptedByBoth
    <3>2. read' \in {[dest |-> DecodeMainnetDestination(text), own |-> P2QPKScript(text)], NotRead}
      BY <2>1 DEF EnterDestination
    <3> QED BY <1>1, <3>1, <3>2
  <2>2. CASE Restart
    BY <1>1, <2>2 DEF Restart
  <2>3. CASE ~EnterDestination /\ ~Restart
    <3>1. \A n, amount, change : SignAndStore(n, amount, change) => UNCHANGED read
      BY DEF SignAndStore
    <3>2. CopyAddress \/ Slip \/ Damage \/ RenderPending \/ UNCHANGED payVars => UNCHANGED read
      BY DEF CopyAddress, Slip, Damage, RenderPending, payVars
    <3>3. UNCHANGED read
      BY <1>3, <2>3, <3>1, <3>2 DEF PayNext
    <3> QED BY <1>3, <3>3
  <2> QED BY <2>1, <2>2, <2>3
<1> QED BY <1>2, <1>3, PTL DEF PaySpec
=============================================================================
