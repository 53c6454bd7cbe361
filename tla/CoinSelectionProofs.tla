------------------------ MODULE CoinSelectionProofs ------------------------
(* Theorems about fees and selections, for any outputs, amounts and rates.    *)
EXTENDS CoinSelection, FiniteSetTheorems, TLAPS

-----------------------------------------------------------------------------
(* Fees *)

\* A set of naturals that is not empty has a smallest element.
LEMMA MinIsMember ==
  ASSUME NEW S \in SUBSET Nat, S # {}
  PROVE  Min(S) \in S
<1> DEFINE Below(x) == 0 .. x
           T == {Below(x) : x \in S}
<1>1. T \subseteq FiniteSubsetsOf(Nat) /\ T # {}
  <2>1. ASSUME NEW x \in S PROVE Below(x) \subseteq Nat /\ IsFiniteSet(Below(x))
    BY FS_Interval
  <2> QED BY <2>1 DEF FiniteSubsetsOf
<1>2. PICK m \in T : \A u \in T : ~(<<u, m>> \in StrictSubsetOrdering(Nat))
  BY <1>1, FS_StrictSubsetOrderingWellFounded, WFMin
<1>3. PICK x \in S : m = Below(x)
  OBVIOUS
<1>4. ASSUME NEW y \in S PROVE x <= y
  <2>1. SUFFICES ASSUME y < x PROVE FALSE
    OBVIOUS
  <2>2. Below(y) \subseteq Below(x) /\ Below(y) # Below(x) /\ Below(y) \in T
    BY <2>1
  <2>3. Below(x) \subseteq Nat /\ Below(y) \subseteq Nat
    OBVIOUS
  <2> QED BY <1>2, <1>3, <2>2, <2>3 DEF StrictSubsetOrdering
<1> QED BY <1>4 DEF Min

\* Sizes are positive, and a change output makes a transaction larger.
LEMMA Sizes ==
  ASSUME NEW n \in Nat
  PROVE  /\ NoChangeSize(n) \in Nat \ {0} /\ ChangeSize(n) \in Nat \ {0}
         /\ NoChangeSize(n) <= ChangeSize(n)
BY CoinAssumption DEF NoChangeSize, ChangeSize, P2QPKVirtualSize, OutputBytes

\* A fee is the rate times the size, rounded up to the next satoshi.
LEMMA FeeRoundsUp ==
  ASSUME NEW rate \in Nat, NEW size \in Nat
  PROVE  /\ FeeForRate(rate, size) \in Nat
         /\ 1000 * FeeForRate(rate, size) >= rate * size
<1> DEFINE x == rate * size
<1>1. x \in Nat
  OBVIOUS
<1>2. FeeForRate(rate, size) = (x + 999) \div 1000
  BY DEF FeeForRate
<1> HIDE DEF x
<1>3. (x + 999) \div 1000 \in Nat /\ 1000 * ((x + 999) \div 1000) >= x
  BY <1>1
<1> QED BY <1>2, <1>3 DEF x

\* Who pays at least the fee pays at least the rate.
LEMMA FeePays ==
  ASSUME NEW rate \in Nat, NEW size \in Nat, NEW fee \in Int, fee >= FeeForRate(rate, size)
  PROVE  1000 * fee >= rate * size
<1> DEFINE x == rate * size
           y == FeeForRate(rate, size)
<1>1. x \in Nat /\ y \in Nat /\ 1000 * y >= x
  BY FeeRoundsUp
<1>2. fee >= y
  OBVIOUS
<1> HIDE DEF x, y
<1>3. 1000 * fee >= x
  BY <1>1, <1>2
<1> QED BY <1>3 DEF x

\* A larger transaction never costs less.
LEMMA FeeIsMonotonic ==
  ASSUME NEW rate \in Nat, NEW small \in Nat, NEW large \in Nat, small <= large
  PROVE  FeeForRate(rate, small) <= FeeForRate(rate, large)
<1> DEFINE x == rate * small
           y == rate * large
<1>1. x \in Nat /\ y \in Nat /\ x <= y
  <2> DEFINE d == large - small
  <2>1. d \in Nat /\ large = small + d
    OBVIOUS
  <2> HIDE DEF d
  <2>2. rate * large = rate * small + rate * d
    BY <2>1
  <2>3. rate * d \in Nat
    BY <2>1
  <2> QED BY <2>2, <2>3
<1>2. FeeForRate(rate, small) = (x + 999) \div 1000 /\ FeeForRate(rate, large) = (y + 999) \div 1000
  BY DEF FeeForRate
<1> HIDE DEF x, y
<1> QED BY <1>1, <1>2

\* The fee without change is at most the fee with it.
LEMMA FeeBounds ==
  ASSUME NEW rate \in Rates, NEW n \in Nat
  PROVE  /\ FeeForRate(rate, NoChangeSize(n)) \in Nat /\ FeeForRate(rate, ChangeSize(n)) \in Nat
         /\ FeeForRate(rate, NoChangeSize(n)) <= FeeForRate(rate, ChangeSize(n))
<1>1. rate \in Nat
  BY CoinAssumption
<1>2. NoChangeSize(n) \in Nat /\ ChangeSize(n) \in Nat /\ NoChangeSize(n) <= ChangeSize(n)
  BY Sizes
<1>3. FeeForRate(rate, NoChangeSize(n)) \in Nat
  BY <1>1, <1>2, FeeRoundsUp
<1>4. FeeForRate(rate, ChangeSize(n)) \in Nat
  BY <1>1, <1>2, FeeRoundsUp
<1>5. FeeForRate(rate, NoChangeSize(n)) <= FeeForRate(rate, ChangeSize(n))
  BY <1>1, <1>2, FeeIsMonotonic
<1> QED BY <1>3, <1>4, <1>5

-----------------------------------------------------------------------------
(* Sums: what the fold behind Total computes, by induction over sets of coins. *)

\* Among sets of coins there is always one that contains no other of them: what
\* every induction over the coins below starts from.
LEMMA SomeSetIsMinimal ==
  ASSUME NEW Sets \in SUBSET SUBSET Coin, Sets # {}
  PROVE  \E m \in Sets : \A s \in Sets : s \subseteq m => s = m
<1>1. Sets \subseteq FiniteSubsetsOf(Coin)
  BY CoinAssumption, FS_Subset DEF FiniteSubsetsOf
<1>2. PICK m \in Sets : \A s \in Sets : ~(<<s, m>> \in StrictSubsetOrdering(Coin))
  BY <1>1, FS_StrictSubsetOrderingWellFounded, WFMin
<1> QED BY <1>2 DEF StrictSubsetOrdering

\* The fold behind Total: the coin it takes first, and the function from sets
\* of coins to sums that it is the value of.
Chosen(s) == CHOOSE c \in s : TRUE
Sums(S, g) == g = [s \in SUBSET S |-> IF s = {} THEN 0
                                      ELSE Amount[Chosen(s)] + g[s \ {Chosen(s)}]]

\* The equation of such a function, case by case.
LEMMA SumsStep ==
  ASSUME NEW S, NEW g, Sums(S, g)
  PROVE  /\ g[{}] = 0
         /\ \A s \in SUBSET S : s # {} => g[s] = Amount[Chosen(s)] + g[s \ {Chosen(s)}]
<1> DEFINE f(s) == IF s = {} THEN 0 ELSE Amount[Chosen(s)] + g[s \ {Chosen(s)}]
<1>1. g = [s \in SUBSET S |-> f(s)]
  BY Zenon DEF Sums
<1>2. f({}) = 0 /\ \A s \in SUBSET S : s # {} => f(s) = Amount[Chosen(s)] + g[s \ {Chosen(s)}]
  OBVIOUS
<1> HIDE DEF f
<1>3. \A s \in SUBSET S : g[s] = f(s)
  BY <1>1
<1>4. {} \in SUBSET S
  OBVIOUS
<1> QED BY <1>2, <1>3, <1>4

\* What is chosen is a coin of the set.
LEMMA ChosenIsMember == ASSUME NEW s, s # {} PROVE Chosen(s) \in s
BY DEF Chosen

\* Total is the value of such a function, if there is one.
LEMMA TotalIsSum ==
  ASSUME NEW S, \E g : Sums(S, g)
  PROVE  \E g : Sums(S, g) /\ Total(S) = g[S]
<1>1. Total(S) = (CHOOSE g : Sums(S, g))[S]
  BY DEF Total, MapThenSumSet, MapThenFoldSet, Sums, Chosen
<1>2. Sums(S, CHOOSE g : Sums(S, g))
  OBVIOUS
<1> QED BY <1>1, <1>2

\* Two such functions agree where both are defined.
LEMMA SumsAgree ==
  ASSUME NEW S \in SUBSET Coin, NEW T \in SUBSET Coin, NEW g, NEW h, Sums(S, g), Sums(T, h),
         NEW s \in SUBSET S, s \in SUBSET T
  PROVE  g[s] = h[s]
<1> DEFINE Bad == {u \in SUBSET S : u \in SUBSET T /\ g[u] # h[u]}
<1>1. SUFFICES ASSUME Bad # {} PROVE FALSE
  OBVIOUS
<1>2. PICK m \in Bad : \A u \in Bad : u \subseteq m => u = m
  <2>1. Bad \in SUBSET SUBSET Coin
    OBVIOUS
  <2> HIDE DEF Bad
  <2> QED BY <1>1, <2>1, SomeSetIsMinimal
<1>3. CASE m = {}
  BY <1>2, <1>3, SumsStep
<1>4. CASE m # {}
  <2>1. Chosen(m) \in m
    BY <1>4, ChosenIsMember
  <2>2. g[m \ {Chosen(m)}] = h[m \ {Chosen(m)}]
    BY <1>2, <2>1
  <2>3. /\ g[m] = Amount[Chosen(m)] + g[m \ {Chosen(m)}]
        /\ h[m] = Amount[Chosen(m)] + h[m \ {Chosen(m)}]
    <3>1. \A u \in SUBSET S : u # {} => g[u] = Amount[Chosen(u)] + g[u \ {Chosen(u)}]
      BY SumsStep
    <3>2. \A u \in SUBSET T : u # {} => h[u] = Amount[Chosen(u)] + h[u \ {Chosen(u)}]
      BY SumsStep
    <3> QED BY <1>2, <1>4, <3>1, <3>2
  <2> QED BY <1>2, <2>2, <2>3
<1> QED BY <1>3, <1>4

\* For every set of coins there is one.
LEMMA SumsExist ==
  ASSUME NEW S \in SUBSET Coin
  PROVE  \E g : Sums(S, g)
<1> DEFINE Bad == {s \in SUBSET Coin : ~ \E g : Sums(s, g)}
<1>1. SUFFICES ASSUME Bad # {} PROVE FALSE
  OBVIOUS
<1>2. PICK m \in Bad : \A u \in Bad : u \subseteq m => u = m
  <2>1. Bad \in SUBSET SUBSET Coin
    OBVIOUS
  <2> HIDE DEF Bad
  <2> QED BY <1>1, <2>1, SomeSetIsMinimal
<1>3. ASSUME NEW v \in SUBSET m, v # m
      PROVE  \E g : Sums(v, g) /\ Total(v) = g[v]
  BY <1>2, <1>3, TotalIsSum
<1> DEFINE h == [u \in SUBSET m |-> IF u = {} THEN 0 ELSE Amount[Chosen(u)] + Total(u \ {Chosen(u)})]
<1>4. ASSUME NEW v \in SUBSET m, v # m
      PROVE  h[v] = Total(v)
  <2>1. PICK g : Sums(v, g) /\ Total(v) = g[v]
    BY <1>3, <1>4
  <2>2. CASE v = {}
    BY <2>1, <2>2, SumsStep
  <2>3. CASE v # {}
    <3> DEFINE w == v \ {Chosen(v)}
    <3>1. Chosen(v) \in v
      BY <2>3, ChosenIsMember
    <3>2. w \in SUBSET v /\ w \in SUBSET m /\ w # m /\ v \in SUBSET Coin /\ w \in SUBSET Coin
      BY <1>2, <1>4, <3>1
    <3>3. PICK f : Sums(w, f) /\ Total(w) = f[w]
      BY <1>3, <3>2
    <3>4. g[w] = f[w]
      BY <2>1, <3>2, <3>3, SumsAgree
    <3>5. g[v] = Amount[Chosen(v)] + g[w]
      <4>1. \A u \in SUBSET v : u # {} => g[u] = Amount[Chosen(u)] + g[u \ {Chosen(u)}]
        BY <2>1, SumsStep
      <4> QED BY <2>3, <4>1
    <3>6. h[v] = Amount[Chosen(v)] + Total(w)
      BY <2>3
    <3> QED BY <2>1, <3>3, <3>4, <3>5, <3>6
  <2> QED BY <2>2, <2>3
<1>5. \A u \in SUBSET m : u # {} => h[u \ {Chosen(u)}] = Total(u \ {Chosen(u)})
  <2>1. ASSUME NEW u \in SUBSET m, u # {}
        PROVE  u \ {Chosen(u)} \in SUBSET m /\ u \ {Chosen(u)} # m
    BY <2>1, ChosenIsMember
  <2> HIDE DEF h
  <2> QED BY <1>4, <2>1
<1>6. h = [u \in SUBSET m |-> IF u = {} THEN 0 ELSE Amount[Chosen(u)] + h[u \ {Chosen(u)}]]
  <2>1. \A u \in SUBSET m : h[u] = IF u = {} THEN 0 ELSE Amount[Chosen(u)] + Total(u \ {Chosen(u)})
    OBVIOUS
  <2>2. h = [u \in SUBSET m |-> h[u]]
    OBVIOUS
  <2> HIDE DEF h
  <2> QED BY <1>5, <2>1, <2>2
<1>7. Sums(m, h)
  BY <1>6 DEF Sums
<1> QED BY <1>2, <1>7

\* A total is that of the coins but one, and the amount of that one.
LEMMA TotalStep ==
  /\ Total({}) = 0
  /\ \A s \in SUBSET Coin : s # {} => Total(s) = Amount[Chosen(s)] + Total(s \ {Chosen(s)})
<1>1. Total({}) = 0
  <2>1. PICK g : Sums({}, g) /\ Total({}) = g[{}]
    BY SumsExist, TotalIsSum
  <2> QED BY <2>1, SumsStep
<1>2. ASSUME NEW s \in SUBSET Coin, s # {}
      PROVE  Total(s) = Amount[Chosen(s)] + Total(s \ {Chosen(s)})
  <2> DEFINE w == s \ {Chosen(s)}
  <2>1. PICK g : Sums(s, g) /\ Total(s) = g[s]
    BY SumsExist, TotalIsSum
  <2>2. w \in SUBSET Coin
    OBVIOUS
  <2>3. PICK f : Sums(w, f) /\ Total(w) = f[w]
    BY <2>2, SumsExist, TotalIsSum
  <2>4. g[w] = f[w]
    BY <2>1, <2>2, <2>3, SumsAgree
  <2>5. g[s] = Amount[Chosen(s)] + g[w]
    <3>1. \A u \in SUBSET s : u # {} => g[u] = Amount[Chosen(u)] + g[u \ {Chosen(u)}]
      BY <2>1, SumsStep
    <3> QED BY <1>2, <3>1
  <2> QED BY <2>1, <2>3, <2>4, <2>5
<1> QED BY <1>1, <1>2

\* A total is a natural number.
LEMMA TotalIsNat ==
  ASSUME NEW S \in SUBSET Coin
  PROVE  Total(S) \in Nat
<1> DEFINE Bad == {s \in SUBSET Coin : Total(s) \notin Nat}
<1>1. SUFFICES ASSUME Bad # {} PROVE FALSE
  OBVIOUS
<1>2. PICK m \in Bad : \A u \in Bad : u \subseteq m => u = m
  <2>1. Bad \in SUBSET SUBSET Coin
    OBVIOUS
  <2> HIDE DEF Bad
  <2> QED BY <1>1, <2>1, SomeSetIsMinimal
<1>3. CASE m = {}
  BY <1>2, <1>3, TotalStep
<1>4. CASE m # {}
  <2>1. Chosen(m) \in m
    BY <1>4, ChosenIsMember
  <2>2. Total(m \ {Chosen(m)}) \in Nat
    BY <1>2, <2>1
  <2>3. Amount[Chosen(m)] \in Nat
    BY <1>2, <2>1, CoinAssumption
  <2> QED BY <1>2, <1>4, <2>2, <2>3, TotalStep
<1> QED BY <1>3, <1>4

\* A coin adds its amount, whichever the fold would have taken first.
LEMMA TotalAdds ==
  ASSUME NEW S \in SUBSET Coin, NEW c \in Coin, c \notin S
  PROVE  Total(S \cup {c}) = Total(S) + Amount[c]
<1> DEFINE Bad == {s \in SUBSET Coin : \E d \in Coin : d \notin s /\ Total(s \cup {d}) # Total(s) + Amount[d]}
<1>1. SUFFICES ASSUME Bad # {} PROVE FALSE
  OBVIOUS
<1>2. PICK m \in Bad : \A u \in Bad : u \subseteq m => u = m
  <2>1. Bad \in SUBSET SUBSET Coin
    OBVIOUS
  <2> HIDE DEF Bad
  <2> QED BY <1>1, <2>1, SomeSetIsMinimal
<1>3. PICK d \in Coin : d \notin m /\ Total(m \cup {d}) # Total(m) + Amount[d]
  BY <1>2
<1> DEFINE t == m \cup {d}
           x == Chosen(t)
<1>4. x \in t /\ t \in SUBSET Coin /\ t # {}
  BY ChosenIsMember
<1>5. Total(t) = Amount[x] + Total(t \ {x})
  BY <1>4, TotalStep
<1>6. \A e \in Coin : Amount[e] \in Nat
  BY CoinAssumption
<1>7. CASE x = d
  <2>1. t \ {x} = m
    BY <1>3, <1>7
  <2> HIDE DEF t, x
  <2>2. Total(m) \in Nat
    BY TotalIsNat
  <2> QED BY <1>3, <1>5, <1>6, <1>7, <2>1, <2>2 DEF t
<1>8. CASE x # d
  <2> DEFINE w == m \ {x}
  <2>1. x \in m /\ w \in SUBSET Coin /\ w \subseteq m /\ w # m /\ d \notin w /\ x \notin w /\ x \in Coin
    BY <1>3, <1>4, <1>8
  <2>2. t \ {x} = w \cup {d} /\ w \cup {x} = m
    BY <1>3, <1>8, <2>1
  <2>3. w \notin Bad
    BY <1>2, <2>1
  <2>4. Total(w \cup {d}) = Total(w) + Amount[d] /\ Total(w \cup {x}) = Total(w) + Amount[x]
    BY <2>1, <2>3
  <2>5. Total(w) \in Nat
    BY <2>1, TotalIsNat
  <2> HIDE DEF t, x, w
  <2> QED BY <1>3, <1>5, <1>6, <2>1, <2>2, <2>4, <2>5 DEF t
<1> QED BY <1>7, <1>8

-----------------------------------------------------------------------------
(* Selections *)

\* The order of the coins is strict and total.
LEMMA BeforeIsTotal ==
  ASSUME NEW c \in Coin, NEW d \in Coin
  PROVE  /\ ~(Before(c, d) /\ Before(d, c)) /\ ~Before(c, c)
         /\ c # d => Before(c, d) \/ Before(d, c)
         /\ \A e \in Coin : Before(c, d) /\ Before(d, e) => Before(c, e)
BY CoinAssumption DEF Before

\* A strict and total order of the coins, and the n that come first in it.
Ordering(R) ==
  /\ \A c, d \in Coin : c # d => <<c, d>> \in R \/ <<d, c>> \in R
  /\ \A c \in Coin : <<c, c>> \notin R
  /\ \A c, d, e \in Coin : <<c, d>> \in R /\ <<d, e>> \in R => <<c, e>> \in R
First(R, coins, n) == {c \in coins : Cardinality({d \in coins : <<d, c>> \in R}) < n}
Bounded(s, coins, n) ==
  s \in SUBSET coins /\ IsFiniteSet(s) /\ Cardinality(s) \in Nat /\ Cardinality(s) <= n

\* At most n coins have fewer than n coins before them.
LEMMA RankBound ==
  ASSUME NEW coins \in SUBSET Coin, NEW n \in Nat, NEW R, Ordering(R)
  PROVE  Bounded(First(R, coins, n), coins, n)
<1> DEFINE first == First(R, coins, n)
           lower(c) == {d \in coins : <<d, c>> \in R}
           rank == [c \in first |-> Cardinality(lower(c))]
           Ranks == 0 .. n - 1
<1>0. IsFiniteSet(coins) /\ first \subseteq coins
  BY CoinAssumption, FS_Subset DEF First
<1>1. \A c \in coins : IsFiniteSet(lower(c)) /\ Cardinality(lower(c)) \in Nat
  <2>1. \A c \in coins : lower(c) \in SUBSET coins
    OBVIOUS
  <2> QED BY <1>0, <2>1, FS_Subset, FS_CardinalityType
<1>2. rank \in [first -> Ranks]
  <2>1. \A c \in first : Cardinality(lower(c)) < n
    BY DEF First
  <2> HIDE DEF lower, first
  <2>2. ASSUME NEW c \in first PROVE Cardinality(lower(c)) \in Ranks
    BY <1>0, <1>1, <2>1
  <2> HIDE DEF Ranks
  <2> QED BY <2>2
<1>3. ASSUME NEW c \in first, NEW d \in first, <<c, d>> \in R
      PROVE  rank[c] # rank[d]
  <2>1. lower(c) \subseteq lower(d) /\ c \in lower(d) /\ c \notin lower(c)
    BY <1>0, <1>3 DEF Ordering
  <2>2. lower(c) \in SUBSET lower(d) /\ lower(c) # lower(d)
    BY <2>1
  <2>3. IsFiniteSet(lower(d))
    BY <1>0, <1>1
  <2>4. Cardinality(lower(d)) # Cardinality(lower(c))
    BY <2>2, <2>3, FS_Subset
  <2> QED BY <2>4
<1>4. \A c, d \in first : rank[c] = rank[d] => c = d
  <2>1. ASSUME NEW c \in first, NEW d \in first, c # d
        PROVE  <<c, d>> \in R \/ <<d, c>> \in R
    BY <1>0, <2>1 DEF Ordering
  <2> HIDE DEF rank
  <2> QED BY <1>3, <2>1
<1>5. rank \in Injection(first, Ranks)
  <2> HIDE DEF rank, Ranks
  <2> QED BY <1>2, <1>4 DEF Injection, IsInjective
<1>6. IsFiniteSet(Ranks) /\ Cardinality(Ranks) = n
  BY FS_Interval
<1> HIDE DEF rank, Ranks
<1>7. IsFiniteSet(first) /\ Cardinality(first) <= Cardinality(Ranks)
  BY <1>5, <1>6, FS_Injection
<1> QED BY <1>0, <1>6, <1>7, FS_CardinalityType DEF Bounded

\* What is taken is at most n of what there is.
LEMMA TakenBound ==
  ASSUME NEW coins \in SUBSET Coin, NEW n \in Nat
  PROVE  Bounded(Smallest(coins, n), coins, n) /\ Bounded(Largest(coins, n), coins, n)
<1> DEFINE R == {p \in Coin \X Coin : Before(p[1], p[2])}
           Q == {p \in Coin \X Coin : Before(p[2], p[1])}
<1>1. /\ \A c, d \in Coin : c # d => Before(c, d) \/ Before(d, c)
      /\ \A c \in Coin : ~Before(c, c)
      /\ \A c, d, e \in Coin : Before(c, d) /\ Before(d, e) => Before(c, e)
  BY BeforeIsTotal
<1>2. \A c, d \in Coin : (<<c, d>> \in R <=> Before(c, d)) /\ (<<c, d>> \in Q <=> Before(d, c))
  OBVIOUS
<1> HIDE DEF R, Q
<1>3. Smallest(coins, n) = First(R, coins, n)
  <2>1. \A c \in coins : {d \in coins : Before(d, c)} = {d \in coins : <<d, c>> \in R}
    BY <1>2
  <2> QED BY <2>1 DEF Smallest, First
<1>4. Largest(coins, n) = First(Q, coins, n)
  <2>1. \A c \in coins : {d \in coins : Before(c, d)} = {d \in coins : <<d, c>> \in Q}
    BY <1>2
  <2> QED BY <2>1 DEF Largest, First
<1>5. Ordering(R)
  BY <1>1, <1>2 DEF Ordering
<1>6. Ordering(Q)
  BY <1>1, <1>2 DEF Ordering
<1> QED BY <1>3, <1>4, <1>5, <1>6, RankBound

\* A selection covers its amount with at most MaxInputs of the coins.
LEMMA SelectionCovers ==
  ASSUME NEW coins \in SUBSET Coin, NEW send, NEW rate, NEW s \in Selections(coins, send, rate)
  PROVE  /\ s \in SUBSET coins /\ Covers(s, send, rate)
         /\ Cardinality(s) \in Nat /\ Cardinality(s) <= MaxInputs
<1> DEFINE prefixes == {n \in 1 .. Limit(coins) : Covers(Smallest(coins, n), send, rate)}
           largest  == Largest(coins, MaxInputs)
<1>0. IsFiniteSet(coins) /\ Cardinality(coins) \in Nat /\ MaxInputs \in Nat
  BY CoinAssumption, FS_Subset, FS_CardinalityType
<1>1. Limit(coins) \in Nat /\ Limit(coins) <= MaxInputs
  <2>1. {MaxInputs, Cardinality(coins)} \in SUBSET Nat
    BY <1>0
  <2>2. \E x \in {MaxInputs, Cardinality(coins)} : \A y \in {MaxInputs, Cardinality(coins)} : x <= y
    BY <1>0
  <2> QED BY <1>0, <2>1, <2>2 DEF Limit, Min
<1>2. CASE prefixes # {}
  <2>1. prefixes \in SUBSET Nat
    BY <1>1
  <2>2. Min(prefixes) \in prefixes
    BY <1>2, <2>1, MinIsMember
  <2>3. s = Smallest(coins, Min(prefixes))
    BY <1>2 DEF Selections
  <2>4. Min(prefixes) \in Nat /\ Min(prefixes) <= MaxInputs /\ Covers(s, send, rate)
    BY <1>0, <1>1, <2>2, <2>3
  <2> HIDE DEF prefixes
  <2>5. s \in SUBSET coins /\ Cardinality(s) \in Nat /\ Cardinality(s) <= Min(prefixes)
    BY <2>3, <2>4, TakenBound DEF Bounded
  <2> QED BY <1>0, <2>4, <2>5
<1>3. CASE prefixes = {}
  <2>1. s = largest /\ Covers(s, send, rate)
    BY <1>3 DEF Selections
  <2> QED BY <1>0, <2>1, TakenBound DEF Bounded
<1> QED BY <1>2, <1>3

-----------------------------------------------------------------------------
(* Transactions *)

\* Only coins are ever on the address, and the last transaction is fair.
FairInv ==
  /\ unspent \in SUBSET Coin
  /\ FeeIsPaid /\ FeeIsNotWasted

\* A transaction that is signed pays what it should, and not more.
LEMMA SignIsFair ==
  ASSUME unspent \in SUBSET Coin, NEW selected \in SUBSET unspent,
         NEW rate \in Rates, NEW plan, Sign(selected, rate, plan),
         Cardinality(selected) \in Nat, Cardinality(selected) <= MaxInputs,
         Total(selected) = plan.Send + plan.Fee + plan.Change, plan.Send > 0, plan.Change >= 0,
         plan.Change > 0 => plan.Fee >= FeeForRate(rate, ChangeSize(Cardinality(selected))),
         ~(plan.Change > 0) => plan.Fee >= FeeForRate(rate, NoChangeSize(Cardinality(selected))),
         plan.Fee \in Int, plan.Fee <= FeeForRate(rate, ChangeSize(Cardinality(selected)))
  PROVE  FairInv'
<1> DEFINE n == Cardinality(selected)
           size == IF plan.Change > 0 THEN ChangeSize(n) ELSE NoChangeSize(n)
<1>1. /\ last'.Inputs = selected /\ last'.Rate = rate /\ last'.Send = plan.Send
      /\ last'.Fee = plan.Fee /\ last'.Change = plan.Change /\ unspent' \in SUBSET Coin
  BY DEF Sign
<1>2. SizeOf(last') = size
  BY <1>1 DEF SizeOf
<1>3. rate \in Nat /\ ChangeSize(n) \in Nat /\ NoChangeSize(n) \in Nat
  BY CoinAssumption, Sizes
<1>4. 1000 * plan.Fee >= rate * size
  <2>1. size \in Nat /\ plan.Fee >= FeeForRate(rate, size)
    BY <1>3
  <2> HIDE DEF n, size
  <2> QED BY <1>3, <2>1, FeePays
<1> HIDE DEF n, size
<1>5. FeeIsPaid'
  BY <1>1, <1>2, <1>4 DEF FeeIsPaid, n, size
<1>6. FeeIsNotWasted'
  BY <1>1 DEF FeeIsNotWasted, n
<1> QED BY <1>1, <1>5, <1>6 DEF FairInv

\* Withdrawing everything sends what is left after the fee.
LEMMA WithdrawIsFair ==
  ASSUME FairInv, NEW rate \in Rates, WithdrawMaximum(rate)
  PROVE  FairInv'
<1> DEFINE selected == Maximum(unspent)
           n == Cardinality(selected)
           fee == FeeForRate(rate, NoChangeSize(n))
           plan == PlanP2QPKWithdrawAll(Total(selected), rate, n)
<1>1. /\ selected \in SUBSET unspent /\ n \in Nat /\ n <= MaxInputs /\ selected \in SUBSET Coin
  BY CoinAssumption, TakenBound DEF Maximum, FairInv, Bounded
<1>2. Total(selected) \in Nat /\ Total(selected) > fee /\ Sign(selected, rate, plan)
  BY <1>1, TotalIsNat DEF WithdrawMaximum, CanWithdraw
<1>3. /\ rate \in Nat /\ fee \in Nat
      /\ fee <= FeeForRate(rate, ChangeSize(n)) /\ FeeForRate(rate, ChangeSize(n)) \in Nat
  BY <1>1, CoinAssumption, FeeBounds
<1>4. plan.Send = Total(selected) - fee /\ plan.Fee = fee /\ plan.Change = 0
  BY DEF PlanP2QPKWithdrawAll
<1> HIDE DEF selected, fee, plan
<1> QED BY <1>1, <1>2, <1>3, <1>4, SignIsFair DEF FairInv, fee

\* Sending an amount leaves a remainder that is change or a fee.
LEMMA SendIsFair ==
  ASSUME FairInv, NEW send \in Sends, NEW rate \in Rates, SendAmount(send, rate)
  PROVE  FairInv'
<1>1. PICK selected \in Selections(unspent, send, rate) :
        Sign(selected, rate, PlanP2QPKFee(Total(selected), send, rate, Cardinality(selected)))
  BY DEF SendAmount
<1> DEFINE n == Cardinality(selected)
           total == Total(selected)
           plan == PlanP2QPKFee(total, send, rate, n)
           small == FeeForRate(rate, NoChangeSize(n))
           large == FeeForRate(rate, ChangeSize(n))
<1>2. /\ selected \in SUBSET unspent /\ n \in Nat /\ n <= MaxInputs /\ Covers(selected, send, rate)
  BY SelectionCovers DEF FairInv
<1>3. /\ total \in Nat /\ send \in Nat /\ send > 0 /\ send <= total /\ total - send >= small
  BY <1>2, CoinAssumption, TotalIsNat DEF FairInv, Covers, CanPlanFee
<1>4. rate \in Nat /\ small \in Nat /\ large \in Nat /\ small <= large
  BY <1>2, CoinAssumption, FeeBounds
<1>5. plan = IF total - send > large
             THEN [Send |-> send, Fee |-> large, Change |-> total - send - large]
             ELSE [Send |-> send, Fee |-> total - send, Change |-> 0]
  BY DEF PlanP2QPKFee
<1> HIDE DEF plan, small, large, total
<1>6. /\ total = plan.Send + plan.Fee + plan.Change /\ plan.Send > 0 /\ plan.Change >= 0
      /\ plan.Change > 0 => plan.Fee >= large
      /\ ~(plan.Change > 0) => plan.Fee >= small
      /\ plan.Fee \in Int /\ plan.Fee <= large
  BY <1>3, <1>4, <1>5
<1>7. Sign(selected, rate, plan)
  BY <1>1 DEF plan, total
<1> QED BY <1>2, <1>6, <1>7, SignIsFair DEF FairInv, total, small, large

\* The inductive invariant holds of every reachable state.
THEOREM FairSafe == CoinSpec => []FairInv
<1>1. CoinInit => FairInv
  BY DEF CoinInit, FairInv, FeeIsPaid, FeeIsNotWasted
<1>2. FairInv /\ [CoinNext]_coinVars => FairInv'
  <2> SUFFICES ASSUME FairInv, [CoinNext]_coinVars PROVE FairInv'
    OBVIOUS
  <2>1. ASSUME NEW send \in Sends, NEW rate \in Rates, SendAmount(send, rate) PROVE FairInv'
    BY <2>1, SendIsFair
  <2>2. ASSUME NEW rate \in Rates, SendMaximum(rate) \/ RecoverMaximum(rate) PROVE FairInv'
    BY <2>2, WithdrawIsFair DEF SendMaximum, RecoverMaximum
  <2>3. ASSUME NEW c \in Coin, Deposit(c) PROVE FairInv'
    BY <2>3 DEF Deposit, FairInv, FeeIsPaid, FeeIsNotWasted, SizeOf
  <2>4. CASE UNCHANGED coinVars
    BY <2>4 DEF coinVars, FairInv, FeeIsPaid, FeeIsNotWasted, SizeOf
  <2> QED BY <2>1, <2>2, <2>3, <2>4 DEF CoinNext
<1> QED BY <1>1, <1>2, PTL DEF CoinSpec

\* Every transaction pays out exactly what it takes, has at most MaxInputs
\* inputs and pays at least its rate for the size it really has.
THEOREM FeePaid == CoinSpec => []FeeIsPaid
<1>1. FairInv => FeeIsPaid
  BY DEF FairInv
<1> QED BY <1>1, FairSafe, PTL

\* No fee is larger than the fee with a change output would have been.
THEOREM FeeNotWasted == CoinSpec => []FeeIsNotWasted
<1>1. FairInv => FeeIsNotWasted
  BY DEF FairInv
<1> QED BY <1>1, FairSafe, PTL

-----------------------------------------------------------------------------
(* What one more coin costs *)

\* One more input makes a transaction larger, by no more than the size of a
\* transaction of its own.
LEMMA SizesGrow ==
  ASSUME NEW n \in Nat
  PROVE  /\ NoChangeSize(n + 1) <= NoChangeSize(n) + NoChangeSize(1)
         /\ ChangeSize(n + 1) <= ChangeSize(n) + NoChangeSize(1)
         /\ \A m \in Nat : m <= n => /\ NoChangeSize(m) <= NoChangeSize(n)
                                     /\ ChangeSize(m) <= ChangeSize(n)
BY CoinAssumption DEF NoChangeSize, ChangeSize, P2QPKVirtualSize, OutputBytes

\* Two fees pay for the two sizes together: rounding up is done twice.
LEMMA FeesAdd ==
  ASSUME NEW rate \in Nat, NEW a \in Nat, NEW b \in Nat, NEW size \in Nat, size <= a + b
  PROVE  FeeForRate(rate, size) <= FeeForRate(rate, a) + FeeForRate(rate, b)
<1> DEFINE x == rate * a
           y == rate * b
           z == rate * (a + b)
<1>1. x \in Nat /\ y \in Nat /\ z \in Nat /\ z = x + y
  OBVIOUS
<1>2. FeeForRate(rate, size) <= FeeForRate(rate, a + b)
  BY FeeIsMonotonic
<1>3. /\ FeeForRate(rate, a) = (x + 999) \div 1000 /\ FeeForRate(rate, b) = (y + 999) \div 1000
      /\ FeeForRate(rate, a + b) = (z + 999) \div 1000
  BY DEF FeeForRate
<1>4. FeeForRate(rate, size) \in Nat
  BY FeeRoundsUp
<1> HIDE DEF x, y, z
<1>5. (z + 999) \div 1000 <= (x + 999) \div 1000 + (y + 999) \div 1000
  BY <1>1
<1>6. (z + 999) \div 1000 \in Nat /\ (x + 999) \div 1000 \in Nat /\ (y + 999) \div 1000 \in Nat
  BY <1>1
<1> QED BY <1>2, <1>3, <1>4, <1>5, <1>6

\* A rate whose fee fits for a size fits for a smaller one.
LEMMA FitsSmaller ==
  ASSUME NEW rate \in Nat, NEW small \in Nat \ {0}, NEW large \in Nat, small <= large,
         FeeFits(rate, large)
  PROVE  FeeFits(rate, small)
<1> DEFINE K == MaxInt64 - 999
           q == K \div large
           p == K \div small
<1>1. K \in Nat
  BY CoinAssumption
<1> HIDE DEF K
<1>2. q \in Nat /\ p \in Nat /\ large * q <= K /\ K < small * (p + 1)
  BY <1>1
<1>3. q <= p
  <2> HIDE DEF q, p
  <2>1. SUFFICES ASSUME q >= p + 1 PROVE FALSE
    BY <1>2
  <2>2. small * (p + 1) <= small * q
    BY <1>2, <2>1
  <2>3. small * q <= large * q
    BY <1>2
  <2>4. small * (p + 1) \in Nat /\ small * q \in Nat /\ large * q \in Nat
    BY <1>2
  <2> HIDE DEF K
  <2> QED BY <1>1, <1>2, <2>2, <2>3, <2>4
<1>4. rate <= q
  BY DEF FeeFits, K
<1>5. rate <= p
  <2> HIDE DEF q, p
  <2> QED BY <1>2, <1>3, <1>4
<1> QED BY <1>5 DEF FeeFits, K

\* The rates for which a transaction of MaxInputs inputs has a fee at all.
RatesFit == \A rate \in Rates : FeeFits(rate, ChangeSize(MaxInputs))

\* Then every smaller transaction has one, with and without change.
LEMMA AllSizesFit ==
  ASSUME RatesFit, NEW rate \in Rates, NEW n \in Nat, n <= MaxInputs
  PROVE  FeeFits(rate, NoChangeSize(n)) /\ FeeFits(rate, ChangeSize(n))
<1>1. rate \in Nat /\ MaxInputs \in Nat
  BY CoinAssumption
<1>2. /\ NoChangeSize(n) \in Nat \ {0} /\ ChangeSize(n) \in Nat \ {0}
      /\ NoChangeSize(n) <= ChangeSize(n) /\ ChangeSize(MaxInputs) \in Nat
  BY <1>1, Sizes
<1>3. ChangeSize(n) <= ChangeSize(MaxInputs)
  BY <1>1, SizesGrow
<1>4. NoChangeSize(n) <= ChangeSize(MaxInputs)
  BY <1>2, <1>3
<1>5. FeeFits(rate, ChangeSize(n))
  BY <1>1, <1>2, <1>3, FitsSmaller DEF RatesFit
<1>6. FeeFits(rate, NoChangeSize(n))
  BY <1>1, <1>2, <1>4, FitsSmaller DEF RatesFit
<1> QED BY <1>5, <1>6

\* The fee of one more input is at most that of a transaction of its own.
LEMMA MarginalFee ==
  ASSUME NEW rate \in Rates, NEW n \in Nat
  PROVE  LET own == FeeForRate(rate, NoChangeSize(1))
         IN  /\ own \in Nat
             /\ FeeForRate(rate, NoChangeSize(n)) \in Nat
             /\ FeeForRate(rate, NoChangeSize(n + 1)) \in Nat
             /\ FeeForRate(rate, NoChangeSize(n + 1)) <= FeeForRate(rate, NoChangeSize(n)) + own
<1>1. rate \in Nat
  BY CoinAssumption
<1>2. NoChangeSize(n) \in Nat /\ NoChangeSize(n + 1) \in Nat /\ NoChangeSize(1) \in Nat
  BY Sizes
<1>3. NoChangeSize(n + 1) <= NoChangeSize(n) + NoChangeSize(1)
  BY SizesGrow
<1>4. FeeForRate(rate, NoChangeSize(n + 1)) <= FeeForRate(rate, NoChangeSize(n)) + FeeForRate(rate, NoChangeSize(1))
  BY <1>1, <1>2, <1>3, FeesAdd
<1> QED BY <1>1, <1>2, <1>4, FeeRoundsUp

\* Coins that are worth spending pay for the transaction that takes them all.
LEMMA WorthPays ==
  ASSUME NEW coins \in SUBSET Coin, coins # {}, NEW rate \in Rates, \A c \in coins : Worth(c, rate)
  PROVE  Total(coins) > FeeForRate(rate, NoChangeSize(Cardinality(coins)))
<1> DEFINE fee(s) == FeeForRate(rate, NoChangeSize(Cardinality(s)))
           Bad == {s \in SUBSET coins : s # {} /\ ~(Total(s) > fee(s))}
<1>1. SUFFICES ASSUME Bad # {} PROVE FALSE
  OBVIOUS
<1>2. PICK m \in Bad : \A u \in Bad : u \subseteq m => u = m
  <2>1. Bad \in SUBSET SUBSET Coin
    OBVIOUS
  <2> HIDE DEF Bad
  <2> QED BY <1>1, <2>1, SomeSetIsMinimal
<1>3. PICK c \in m : TRUE
  BY <1>2
<1> DEFINE w == m \ {c}
           n == Cardinality(w)
<1>4. /\ w \in SUBSET Coin /\ c \in Coin /\ c \notin w /\ m = w \cup {c} /\ IsFiniteSet(w)
      /\ w \in SUBSET coins /\ c \in coins
  <2>1. /\ w \in SUBSET Coin /\ c \in Coin /\ c \notin w /\ m = w \cup {c}
        /\ w \in SUBSET coins /\ c \in coins
    BY <1>2, <1>3
  <2> HIDE DEF w
  <2> QED BY <2>1, CoinAssumption, FS_Subset
<1>5. n \in Nat /\ Cardinality(m) = n + 1
  <2> HIDE DEF w
  <2> QED BY <1>4, FS_CardinalityType, FS_AddElement
<1>6. Total(m) = Total(w) + Amount[c] /\ Total(w) \in Nat /\ Amount[c] \in Nat
  <2> HIDE DEF w
  <2> QED BY <1>4, TotalAdds, TotalIsNat, CoinAssumption
<1>7. Amount[c] > FeeForRate(rate, NoChangeSize(1))
  BY <1>4 DEF Worth
<1>8. /\ FeeForRate(rate, NoChangeSize(1)) \in Nat
      /\ FeeForRate(rate, NoChangeSize(n)) \in Nat
      /\ FeeForRate(rate, NoChangeSize(n + 1)) \in Nat
      /\ FeeForRate(rate, NoChangeSize(n + 1)) <= FeeForRate(rate, NoChangeSize(n)) + FeeForRate(rate, NoChangeSize(1))
  BY <1>5, MarginalFee
<1>9. ~(Total(m) > FeeForRate(rate, NoChangeSize(n + 1)))
  BY <1>2, <1>5
<1>10. CASE w = {}
  <2>1. n = 0 /\ Total(w) = 0
    BY <1>10, FS_EmptySet, TotalStep
  <2>2. n + 1 = 1
    BY <2>1
  <2> HIDE DEF w, n
  <2> QED BY <1>6, <1>7, <1>9, <2>1, <2>2
<1>11. CASE w # {}
  <2>1. w \notin Bad
    BY <1>2, <1>4
  <2>2. Total(w) > FeeForRate(rate, NoChangeSize(n))
    BY <1>4, <1>11, <2>1
  <2> HIDE DEF w, n
  <2> QED BY <1>6, <1>7, <1>8, <1>9, <2>2
<1> QED BY <1>10, <1>11

-----------------------------------------------------------------------------
(* The first coins of an order *)

\* Some coin of a set comes before the others.
LEMMA SomeCoinIsFirst ==
  ASSUME NEW coins \in SUBSET Coin, coins # {}, NEW R, Ordering(R)
  PROVE  \E c \in coins : \A d \in coins : <<d, c>> \notin R
<1> DEFINE lower(c) == {d \in coins : <<d, c>> \in R}
           Sets == {lower(c) : c \in coins}
<1>1. Sets \in SUBSET SUBSET Coin /\ Sets # {}
  OBVIOUS
<1>2. PICK m \in Sets : \A u \in Sets : u \subseteq m => u = m
  <2> HIDE DEF Sets
  <2> QED BY <1>1, SomeSetIsMinimal
<1>3. PICK c \in coins : m = lower(c)
  BY <1>2
<1>4. ASSUME NEW d \in coins, <<d, c>> \in R PROVE FALSE
  <2>1. lower(d) \subseteq lower(c)
    BY <1>3, <1>4 DEF Ordering
  <2>2. d \in lower(c) /\ d \notin lower(d)
    BY <1>4 DEF Ordering
  <2> QED BY <1>2, <1>3, <2>1, <2>2
<1> QED BY <1>4

\* The first n are n, or all there are, and come before the rest.
LEMMA FirstIsExact ==
  ASSUME NEW coins \in SUBSET Coin, NEW n \in Nat, NEW R, Ordering(R)
  PROVE  /\ First(R, coins, n) = coins \/ Cardinality(First(R, coins, n)) = n
         /\ \A c \in First(R, coins, n) : \A d \in coins \ First(R, coins, n) : <<c, d>> \in R
<1> DEFINE first == First(R, coins, n)
           lower(c) == {d \in coins : <<d, c>> \in R}
<1>1. \A c \in coins : IsFiniteSet(lower(c)) /\ Cardinality(lower(c)) \in Nat
  <2>1. IsFiniteSet(coins) /\ \A c \in coins : lower(c) \in SUBSET coins
    BY CoinAssumption, FS_Subset
  <2> QED BY <2>1, FS_Subset, FS_CardinalityType
<1>2. \A c \in coins : c \in first <=> Cardinality(lower(c)) < n
  BY DEF First
<1>3. first \in SUBSET coins /\ IsFiniteSet(first) /\ Cardinality(first) \in Nat /\ Cardinality(first) <= n
  BY RankBound DEF Bounded
<1>4. ASSUME NEW c \in first, NEW d \in coins \ first PROVE <<c, d>> \in R
  <2>1. SUFFICES ASSUME <<d, c>> \in R PROVE FALSE
    BY <1>3, <1>4 DEF Ordering
  <2>2. lower(d) \in SUBSET lower(c)
    BY <1>3, <2>1 DEF Ordering
  <2>3. Cardinality(lower(c)) < n /\ ~(Cardinality(lower(d)) < n) /\ c \in coins
    BY <1>2, <1>3
  <2>4. Cardinality(lower(d)) <= Cardinality(lower(c))
    <3> HIDE DEF lower
    <3> QED BY <1>1, <2>2, <2>3, FS_Subset
  <2> HIDE DEF lower
  <2> QED BY <1>1, <2>3, <2>4
<1>5. ASSUME first # coins PROVE Cardinality(first) = n
  <2>1. coins \ first # {} /\ coins \ first \in SUBSET Coin
    BY <1>3, <1>5
  <2>2. PICK d \in coins \ first : \A e \in coins \ first : <<e, d>> \notin R
    <3> HIDE DEF first
    <3> QED BY <2>1, SomeCoinIsFirst
  <2>3. lower(d) \in SUBSET first
    BY <2>2
  <2>4. Cardinality(lower(d)) <= Cardinality(first)
    <3> HIDE DEF lower, first
    <3> QED BY <1>3, <2>3, FS_Subset
  <2>5. ~(Cardinality(lower(d)) < n) /\ Cardinality(lower(d)) \in Nat
    BY <1>1, <1>2, <2>2
  <2> HIDE DEF lower, first
  <2> QED BY <1>3, <2>4, <2>5
<1> QED BY <1>4, <1>5

\* What is taken is n coins, or all there are, and no coin that is left behind
\* comes after one of the largest.
LEMMA TakenIsExact ==
  ASSUME NEW coins \in SUBSET Coin, NEW n \in Nat
  PROVE  /\ Smallest(coins, n) = coins \/ Cardinality(Smallest(coins, n)) = n
         /\ Largest(coins, n) = coins \/ Cardinality(Largest(coins, n)) = n
         /\ \A c \in Largest(coins, n) : \A d \in coins \ Largest(coins, n) : Before(d, c)
<1> DEFINE R == {p \in Coin \X Coin : Before(p[1], p[2])}
           Q == {p \in Coin \X Coin : Before(p[2], p[1])}
<1>1. /\ \A c, d \in Coin : c # d => Before(c, d) \/ Before(d, c)
      /\ \A c \in Coin : ~Before(c, c)
      /\ \A c, d, e \in Coin : Before(c, d) /\ Before(d, e) => Before(c, e)
  BY BeforeIsTotal
<1>2. \A c, d \in Coin : (<<c, d>> \in R <=> Before(c, d)) /\ (<<c, d>> \in Q <=> Before(d, c))
  OBVIOUS
<1> HIDE DEF R, Q
<1>3. Smallest(coins, n) = First(R, coins, n)
  <2>1. \A c \in coins : {d \in coins : Before(d, c)} = {d \in coins : <<d, c>> \in R}
    BY <1>2
  <2> QED BY <2>1 DEF Smallest, First
<1>4. Largest(coins, n) = First(Q, coins, n)
  <2>1. \A c \in coins : {d \in coins : Before(c, d)} = {d \in coins : <<d, c>> \in Q}
    BY <1>2
  <2> QED BY <2>1 DEF Largest, First
<1>5. Ordering(R)
  BY <1>1, <1>2 DEF Ordering
<1>6. Ordering(Q)
  BY <1>1, <1>2 DEF Ordering
<1>7. /\ First(R, coins, n) = coins \/ Cardinality(First(R, coins, n)) = n
      /\ First(Q, coins, n) = coins \/ Cardinality(First(Q, coins, n)) = n
      /\ \A c \in First(Q, coins, n) : \A d \in coins \ First(Q, coins, n) : <<c, d>> \in Q
  BY <1>5, <1>6, FirstIsExact
<1>8. Largest(coins, n) \subseteq coins
  BY DEF Largest
<1> QED BY <1>2, <1>3, <1>4, <1>7, <1>8

-----------------------------------------------------------------------------
(* Completeness of the selection *)

\* A selection with room covers what it covered with one more coin that is
\* worth spending.
LEMMA CoverGrows ==
  ASSUME RatesFit, NEW rate \in Rates, NEW send \in Sends,
         NEW s \in SUBSET Coin, NEW c \in Coin, c \notin s, Worth(c, rate),
         Covers(s, send, rate), Cardinality(s) < MaxInputs
  PROVE  Covers(s \cup {c}, send, rate)
<1> DEFINE n == Cardinality(s)
           t == s \cup {c}
<1>1. IsFiniteSet(s)
  BY CoinAssumption, FS_Subset
<1>2. n \in Nat /\ Cardinality(t) = n + 1 /\ MaxInputs \in Nat /\ n + 1 <= MaxInputs
  BY <1>1, CoinAssumption, FS_CardinalityType, FS_AddElement
<1>3. /\ Total(t) = Total(s) + Amount[c] /\ Total(s) \in Nat /\ Amount[c] \in Nat /\ send \in Nat
  BY CoinAssumption, TotalAdds, TotalIsNat
<1>4. FeeFits(rate, NoChangeSize(n + 1)) /\ FeeFits(rate, ChangeSize(n + 1))
  BY <1>2, AllSizesFit
<1>5. /\ FeeForRate(rate, NoChangeSize(1)) \in Nat
      /\ FeeForRate(rate, NoChangeSize(n)) \in Nat
      /\ FeeForRate(rate, NoChangeSize(n + 1)) \in Nat
      /\ FeeForRate(rate, NoChangeSize(n + 1)) <= FeeForRate(rate, NoChangeSize(n)) + FeeForRate(rate, NoChangeSize(1))
  BY <1>2, MarginalFee
<1>6. Amount[c] > FeeForRate(rate, NoChangeSize(1))
  BY DEF Worth
<1>7. send <= Total(s) /\ Total(s) - send >= FeeForRate(rate, NoChangeSize(n))
  BY DEF Covers, CanPlanFee
<1> HIDE DEF n, t
<1>8. send <= Total(t) /\ Total(t) - send >= FeeForRate(rate, NoChangeSize(n + 1))
  BY <1>3, <1>5, <1>6, <1>7
<1>9. Covers(t, send, rate)
  BY <1>2, <1>4, <1>8 DEF Covers, CanPlanFee
<1> QED BY <1>9 DEF t

\* It covers as much with a coin exchanged for one that comes after it.
LEMMA CoverSwaps ==
  ASSUME NEW rate, NEW send \in Sends, NEW s \in SUBSET Coin, NEW y \in s, NEW x \in Coin,
         x \notin s, Before(y, x), Covers(s, send, rate),
         FeeForRate(rate, NoChangeSize(Cardinality(s))) \in Nat
  PROVE  /\ Covers((s \ {y}) \cup {x}, send, rate)
         /\ Cardinality((s \ {y}) \cup {x}) = Cardinality(s)
<1> DEFINE w == s \ {y}
           t == w \cup {x}
<1>1. w \in SUBSET Coin /\ y \in Coin /\ y \notin w /\ x \notin w /\ s = w \cup {y}
  OBVIOUS
<1> HIDE DEF w
<1>2. IsFiniteSet(w)
  BY <1>1, CoinAssumption, FS_Subset
<1>3. Cardinality(t) = Cardinality(s)
  BY <1>1, <1>2, FS_AddElement
<1>4. Total(t) = Total(w) + Amount[x] /\ Total(s) = Total(w) + Amount[y]
  BY <1>1, TotalAdds
<1>5. Total(w) \in Nat /\ Amount[x] \in Nat /\ Amount[y] \in Nat /\ Amount[y] <= Amount[x] /\ send \in Nat
  BY <1>1, CoinAssumption, TotalIsNat DEF Before
<1> HIDE DEF t
<1>6. Covers(t, send, rate)
  <2> DEFINE fee == FeeForRate(rate, NoChangeSize(Cardinality(s)))
  <2>1. send <= Total(s) /\ Total(s) - send >= fee /\ fee \in Nat
    BY DEF Covers, CanPlanFee
  <2> HIDE DEF fee
  <2>2. send <= Total(t) /\ Total(t) - send >= fee
    BY <1>4, <1>5, <2>1
  <2> QED BY <1>3, <2>2 DEF Covers, CanPlanFee, fee
<1> QED BY <1>3, <1>6 DEF t, w

\* If any selection covers an amount, the best one does: of the selections that
\* cover it, one that misses the fewest of the best coins misses none, for it
\* could take one more of them, or exchange one for it.
LEMMA BestCovers ==
  ASSUME RatesFit, NEW rate \in Rates, NEW send \in Sends,
         NEW coins \in SUBSET Coin, \A c \in coins : Worth(c, rate),
         NEW best \in SUBSET coins, Cardinality(best) <= MaxInputs,
         best = coins \/ Cardinality(best) = MaxInputs,
         \A c \in best : \A d \in coins \ best : Before(d, c),
         NEW some \in SUBSET coins, Cardinality(some) <= MaxInputs, Covers(some, send, rate)
  PROVE  Covers(best, send, rate)
<1> DEFINE Good == {s \in SUBSET coins : Cardinality(s) <= MaxInputs /\ Covers(s, send, rate)}
           Missed == {best \ s : s \in Good}
<1>0. /\ IsFiniteSet(coins) /\ MaxInputs \in Nat
      /\ \A s \in SUBSET coins : IsFiniteSet(s) /\ Cardinality(s) \in Nat
  BY CoinAssumption, FS_Subset, FS_CardinalityType
<1>1. PICK m \in Missed : \A u \in Missed : u \subseteq m => u = m
  <2>1. Missed \in SUBSET SUBSET Coin /\ Missed # {}
    OBVIOUS
  <2> HIDE DEF Missed
  <2> QED BY <2>1, SomeSetIsMinimal
<1>2. PICK s \in Good : m = best \ s
  BY <1>1
<1>3. s \in SUBSET coins /\ Cardinality(s) <= MaxInputs /\ Covers(s, send, rate) /\ s \in SUBSET Coin
  BY <1>2
<1>4. ASSUME NEW t \in SUBSET coins, Cardinality(t) <= MaxInputs, Covers(t, send, rate),
             best \ t \subseteq best \ s
      PROVE  best \ t = best \ s
  BY <1>1, <1>2, <1>4
<1> HIDE DEF Good, Missed
<1>5. CASE best \subseteq s
  <2>1. CASE best = coins
    BY <1>3, <1>5, <2>1
  <2>2. CASE Cardinality(best) = MaxInputs
    <3>1. best \in SUBSET s /\ Cardinality(best) <= Cardinality(s)
      BY <1>0, <1>3, <1>5, FS_Subset
    <3>2. Cardinality(s) = Cardinality(best)
      BY <1>0, <1>3, <2>2, <3>1
    <3>3. s = best
      BY <1>0, <1>3, <3>1, <3>2, FS_Subset
    <3> QED BY <1>3, <3>3
  <2> QED BY <2>1, <2>2
<1>6. ASSUME NEW x \in best, x \notin s PROVE FALSE
  <2> DEFINE grown == s \cup {x}
  <2>0. x \in coins /\ x \in Coin /\ grown \in SUBSET coins /\ IsFiniteSet(s)
        /\ Cardinality(grown) = Cardinality(s) + 1
    BY <1>0, <1>3, <1>6, FS_AddElement
  <2>1. CASE Cardinality(s) < MaxInputs
    <3>1. Covers(grown, send, rate)
      BY <1>3, <1>6, <2>0, <2>1, CoverGrows
    <3>2. Cardinality(grown) <= MaxInputs
      BY <1>0, <1>3, <2>0, <2>1
    <3>3. best \ grown \subseteq best \ s /\ best \ grown # best \ s
      BY <1>6
    <3> HIDE DEF grown
    <3> QED BY <1>4, <2>0, <3>1, <3>2, <3>3
  <2>2. CASE Cardinality(s) = MaxInputs
    <3>1. PICK y \in s : y \notin best
      <4>1. SUFFICES ASSUME s \subseteq best PROVE FALSE
        OBVIOUS
      <4>2. grown \in SUBSET best /\ IsFiniteSet(best)
        BY <1>0, <1>6, <4>1
      <4>3. Cardinality(grown) <= Cardinality(best)
        <5> HIDE DEF grown
        <5> QED BY <4>2, FS_Subset
      <4> HIDE DEF grown
      <4> QED BY <1>0, <2>0, <2>2, <4>3
    <3> DEFINE swapped == (s \ {y}) \cup {x}
    <3>2. Before(y, x)
      BY <1>3, <1>6, <3>1
    <3>3. FeeForRate(rate, NoChangeSize(Cardinality(s))) \in Nat
      BY <1>0, <1>3, MarginalFee
    <3>4. Covers(swapped, send, rate) /\ Cardinality(swapped) = Cardinality(s)
      BY <1>3, <1>6, <2>0, <3>1, <3>2, <3>3, CoverSwaps
    <3>5. /\ swapped \in SUBSET coins
          /\ best \ swapped \subseteq best \ s /\ best \ swapped # best \ s
      BY <1>3, <1>6, <2>0, <3>1
    <3> HIDE DEF swapped
    <3> QED BY <1>3, <1>4, <3>4, <3>5
  <2> QED BY <1>0, <1>3, <2>1, <2>2
<1> QED BY <1>5, <1>6

\* If all coins are worth spending and some selection covers the amount, an
\* ascending prefix or the largest coins do.
LEMMA SelectionIsComplete ==
  ASSUME RatesFit, NEW rate \in Rates, NEW send \in Sends,
         NEW coins \in SUBSET Coin, \A c \in coins : Worth(c, rate),
         SomeSelectionCovers(coins, send, rate)
  PROVE  Selections(coins, send, rate) # {}
<1> DEFINE k == Cardinality(coins)
           largest == Largest(coins, MaxInputs)
           prefixes == {n \in 1 .. Limit(coins) : Covers(Smallest(coins, n), send, rate)}
<1>0. IsFiniteSet(coins) /\ k \in Nat /\ MaxInputs \in Nat
  BY CoinAssumption, FS_Subset, FS_CardinalityType
<1>1. PICK some \in SUBSET coins : some # {} /\ Cardinality(some) <= MaxInputs /\ Covers(some, send, rate)
  BY DEF SomeSelectionCovers
<1>2. CASE k <= MaxInputs
  <2>1. Covers(coins, send, rate)
    BY <1>1, <1>2, BestCovers
  <2>2. Limit(coins) = k
    <3>1. k \in {MaxInputs, k} /\ \A x \in {MaxInputs, k} : k <= x
      BY <1>0, <1>2
    <3>2. \A y \in {MaxInputs, k} : (\A x \in {MaxInputs, k} : y <= x) => y = k
      BY <1>0, <1>2
    <3> HIDE DEF k
    <3>3. Min({MaxInputs, k}) = k
      BY <3>1, <3>2 DEF Min
    <3> QED BY <3>3 DEF Limit, k
  <2>3. Smallest(coins, k) = coins
    <3>1. Smallest(coins, k) = coins \/ Cardinality(Smallest(coins, k)) = k
      BY <1>0, TakenIsExact
    <3>2. Smallest(coins, k) \in SUBSET coins
      BY DEF Smallest
    <3> QED BY <1>0, <3>1, <3>2, FS_Subset
  <2>4. k >= 1
    <3>1. coins # {}
      BY <1>1
    <3> QED BY <1>0, <3>1, FS_EmptySet
  <2>5. k \in prefixes
    BY <1>0, <2>1, <2>2, <2>3, <2>4
  <2> HIDE DEF k
  <2> QED BY <2>5 DEF Selections
<1>3. CASE k > MaxInputs
  <2>1. largest \in SUBSET coins /\ Cardinality(largest) <= MaxInputs
    BY <1>0, TakenBound DEF Bounded
  <2>2. /\ largest = coins \/ Cardinality(largest) = MaxInputs
        /\ \A c \in largest : \A d \in coins \ largest : Before(d, c)
    BY <1>0, TakenIsExact
  <2> HIDE DEF largest
  <2>3. Covers(largest, send, rate)
    BY <1>1, <2>1, <2>2, BestCovers
  <2> QED BY <1>3, <2>3 DEF Selections, largest
<1> QED BY <1>0, <1>2, <1>3

\* The smallest coins pay for the pass that takes them.
LEMMA MaximumPays ==
  ASSUME RatesFit, NEW rate \in Rates, NEW coins \in SUBSET Coin, coins # {},
         \A c \in coins : Worth(c, rate)
  PROVE  CanWithdraw(Total(Maximum(coins)), rate, Cardinality(Maximum(coins)))
<1> DEFINE taken == Maximum(coins)
<1>1. MaxInputs \in Nat \ {0}
  BY CoinAssumption
<1>2. taken \in SUBSET coins /\ Cardinality(taken) \in Nat /\ Cardinality(taken) <= MaxInputs
  BY <1>1, TakenBound DEF Bounded, Maximum
<1>3. taken # {}
  <2>1. taken = coins \/ Cardinality(taken) = MaxInputs
    BY <1>1, TakenIsExact DEF Maximum
  <2> HIDE DEF taken
  <2> QED BY <1>1, <2>1, FS_EmptySet
<1> HIDE DEF taken
<1>4. Total(taken) > FeeForRate(rate, NoChangeSize(Cardinality(taken)))
  BY <1>2, <1>3, WorthPays
<1>5. FeeFits(rate, NoChangeSize(Cardinality(taken)))
  BY <1>2, AllSizesFit
<1> QED BY <1>4, <1>5 DEF CanWithdraw, taken

\* Unless a coin is not worth its own input, SelectP2QPKForAmount refuses an
\* amount only if no selection of at most MaxInputs coins covers it; the fee
\* rate is one for which a full transaction has a fee.
THEOREM SelectionComplete ==
  ASSUME RatesFit
  PROVE  CoinSpec => []CompleteWithoutDust
<1>1. FairInv => CompleteWithoutDust
  BY SelectionIsComplete DEF FairInv, CompleteWithoutDust
<1> QED BY <1>1, FairSafe, PTL

\* Unless a coin is not worth its own input, SelectP2QPKMaximum always finds a
\* pass to make: the recoveries of an address go on until nothing is left on it.
THEOREM RecoveryContinues ==
  ASSUME RatesFit
  PROVE  CoinSpec => []RecoveryCanContinue
<1>1. FairInv => RecoveryCanContinue
  BY MaximumPays DEF FairInv, RecoveryCanContinue, MayScan
<1> QED BY <1>1, FairSafe, PTL
=============================================================================
