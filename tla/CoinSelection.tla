--------------------------- MODULE CoinSelection ---------------------------
(***************************************************************************)
(* Package txbuilder: which outputs of a source a transaction takes, what  *)
(* it pays and what it sends back; and the passes by which a source is     *)
(* emptied: one Send from a FUNDED address, then any number of recoveries  *)
(* of what was left behind or has arrived since.                           *)
(*                                                                         *)
(* A pass is one action: scan, plan, sign, and the confirmation that makes *)
(* the next scan show the rest (KeyIndex holds what happens in between).   *)
(* The byte layout is kept only in the size it gives.                      *)
(***************************************************************************)
EXTENDS Integers, FiniteSetsExt

CONSTANTS
  Coin,       \* the outputs, numbered in the order of txid and vout
  Amount,     \* Coin -> satoshis
  MaxInputs,  \* P2QPKSafeMaxInputs
  ScriptLen,  \* bytes of the destination's script
  MaxInt64,   \* math.MaxInt64
  Sends,      \* bound: the amounts a user may ask for
  Rates       \* bound: the fee rates, in satoshis per kilobyte

\* spendCandidates rejects an amount that is not positive, a total that
\* overflows, and ParseFeeRate a rate that is not positive.
ASSUME CoinAssumption ==
  /\ Coin \subseteq Nat /\ IsFiniteSet(Coin)
  /\ Amount \in [Coin -> Nat \ {0}]
  /\ MaxInputs \in Nat \ {0} /\ ScriptLen \in 1 .. 252
  /\ MaxInt64 \in Nat /\ MaxInt64 >= 999
  /\ Sends \subseteq Nat \ {0} /\ Rates \subseteq Nat \ {0}

VARIABLES
  state,    \* of the source: FUNDED or SPENT
  unspent,  \* the outputs a scan of the source shows
  seen,     \* history: every output it ever showed
  last      \* the last transaction, or NoTransaction

coinVars == <<state, unspent, seen, last>>

-----------------------------------------------------------------------------
(* Sizes and fees *)

\* 4 version, 1 + 1 counts, 4 locktime; 41 an input; every witness holds a
\* signature of 17088 bytes and a key of 32, with their lengths and their count.
OutputBytes(len) == 8 + 1 + len
P2QPKVirtualSize(n, outputBytes) ==
  LET stripped == 10 + 41 * n + outputBytes
      witness  == 2 + n * (1 + 3 + 17088 + 1 + 32)
  IN  (4 * stripped + witness + 3) \div 4

NoChangeSize(n) == P2QPKVirtualSize(n, OutputBytes(ScriptLen))
ChangeSize(n)   == P2QPKVirtualSize(n, OutputBytes(ScriptLen) + OutputBytes(34))

FeeFits(rate, vsize)    == rate <= (MaxInt64 - 999) \div vsize
FeeForRate(rate, vsize) == (rate * vsize + 999) \div 1000

CanPlanFee(total, send, rate, n) ==
  /\ send <= total
  /\ FeeFits(rate, NoChangeSize(n)) /\ FeeFits(rate, ChangeSize(n))
  /\ total - send >= FeeForRate(rate, NoChangeSize(n))

\* Mutant: the fee of the shape without change, also with change.
PlanP2QPKFee_SmallFee(total, send, rate, n) ==
  LET fee == FeeForRate(rate, NoChangeSize(n))
  IN  [Send |-> send, Fee |-> fee, Change |-> total - send - fee]

\* Mutant: a remainder never becomes change.
PlanP2QPKFee_NoChange(total, send, rate, n) ==
  [Send |-> send, Fee |-> total - send, Change |-> 0]

\* A remainder that cannot pay for a change output becomes part of the fee.
PlanP2QPKFee(total, send, rate, n) ==
  LET remainder == total - send
      changeFee == FeeForRate(rate, ChangeSize(n))
  IN  IF remainder > changeFee
      THEN [Send |-> send, Fee |-> changeFee, Change |-> remainder - changeFee]
      ELSE [Send |-> send, Fee |-> remainder, Change |-> 0]

\* Mutant: the fee of a full transaction, however many inputs there are.
CanWithdraw_FullSize(total, rate, n) ==
  /\ FeeFits(rate, NoChangeSize(MaxInputs))
  /\ total > FeeForRate(rate, NoChangeSize(MaxInputs))

CanWithdraw(total, rate, n) ==
  /\ FeeFits(rate, NoChangeSize(n))
  /\ total > FeeForRate(rate, NoChangeSize(n))

PlanP2QPKWithdrawAll(total, rate, n) ==
  LET fee == FeeForRate(rate, NoChangeSize(n))
  IN  [Send |-> total - fee, Fee |-> fee, Change |-> 0]

-----------------------------------------------------------------------------
(* Selection *)

\* orderedP2QPKCoins: by amount, then by outpoint.
Before(c, d) == Amount[c] < Amount[d] \/ (Amount[c] = Amount[d] /\ c < d)
Smallest(coins, n) == {c \in coins : Cardinality({d \in coins : Before(d, c)}) < n}
Largest(coins, n)  == {c \in coins : Cardinality({d \in coins : Before(c, d)}) < n}

Total(coins) == MapThenSumSet(LAMBDA c : Amount[c], coins)
Limit(coins) == Min({MaxInputs, Cardinality(coins)})

Covers(coins, send, rate) == CanPlanFee(Total(coins), send, rate, Cardinality(coins))

\* Mutant: the largest coins are not tried.
Selections_AscendingOnly(coins, send, rate) ==
  LET prefixes == {n \in 1 .. Limit(coins) : Covers(Smallest(coins, n), send, rate)}
  IN  IF prefixes # {} THEN {Smallest(coins, Min(prefixes))} ELSE {}

\* What SelectP2QPKForAmount selects, if it selects: the shortest ascending
\* prefix that covers the amount and its fee, else the largest coins.
Selections(coins, send, rate) ==
  LET prefixes == {n \in 1 .. Limit(coins) : Covers(Smallest(coins, n), send, rate)}
      largest  == Largest(coins, MaxInputs)
  IN  IF prefixes # {} THEN {Smallest(coins, Min(prefixes))}
      ELSE {s \in {largest} : Cardinality(coins) > MaxInputs /\ Covers(s, send, rate)}

\* SelectP2QPKMaximum takes the smallest coins.
Maximum(coins) == Smallest(coins, MaxInputs)

-----------------------------------------------------------------------------
(* Passes *)

NoTransaction == [Inputs |-> {}, Rate |-> 0, Send |-> 0, Fee |-> 0, Change |-> 0]

\* spendCandidates: there is something, and its total does not overflow.
MayScan == unspent # {} /\ Total(unspent) <= MaxInt64

Sign(selected, rate, plan) ==
  /\ last' = [Inputs |-> selected, Rate |-> rate,
              Send |-> plan.Send, Fee |-> plan.Fee, Change |-> plan.Change]
  /\ unspent' = unspent \ selected
  /\ state' = "SPENT"
  /\ UNCHANGED seen

WithdrawMaximum(rate) ==
  LET selected == Maximum(unspent)
      n        == Cardinality(selected)
  IN  /\ MayScan
      /\ CanWithdraw(Total(selected), rate, n)
      /\ Sign(selected, rate, PlanP2QPKWithdrawAll(Total(selected), rate, n))

SendAmount(send, rate) ==
  /\ state = "FUNDED"
  /\ MayScan
  /\ \E selected \in Selections(unspent, send, rate) :
       Sign(selected, rate, PlanP2QPKFee(Total(selected), send, rate, Cardinality(selected)))

SendMaximum(rate)    == state = "FUNDED" /\ WithdrawMaximum(rate)
RecoverMaximum(rate) == state = "SPENT" /\ WithdrawMaximum(rate)

\* Anyone may pay the address at any time.
Deposit(c) ==
  /\ c \notin seen
  /\ seen' = seen \cup {c}
  /\ unspent' = unspent \cup {c}
  /\ UNCHANGED <<state, last>>

CoinInit ==
  /\ state = "FUNDED"
  /\ unspent \in SUBSET Coin \ {{}}
  /\ seen = unspent
  /\ last = NoTransaction

CoinNext ==
  \/ \E send \in Sends, rate \in Rates : SendAmount(send, rate)
  \/ \E rate \in Rates : SendMaximum(rate) \/ RecoverMaximum(rate)
  \/ \E c \in Coin : Deposit(c)

CoinSpec == CoinInit /\ [][CoinNext]_coinVars

-----------------------------------------------------------------------------

SizeOf(tx) == IF tx.Change > 0 THEN ChangeSize(Cardinality(tx.Inputs))
                               ELSE NoChangeSize(Cardinality(tx.Inputs))

\* A transaction pays out exactly what it takes, sends something, has at most
\* MaxInputs inputs, and pays at least its rate for the size it really has.
FeeIsPaid ==
  last # NoTransaction =>
    /\ Total(last.Inputs) = last.Send + last.Fee + last.Change
    /\ last.Send > 0 /\ last.Change >= 0
    /\ Cardinality(last.Inputs) <= MaxInputs
    /\ 1000 * last.Fee >= last.Rate * SizeOf(last)

\* What is given away as fee is never more than a change output would have cost.
FeeIsNotWasted ==
  last # NoTransaction =>
    last.Fee <= FeeForRate(last.Rate, ChangeSize(Cardinality(last.Inputs)))

\* A coin is worth spending if it pays for a transaction of its own.
Worth(c, rate) == Amount[c] > FeeForRate(rate, NoChangeSize(1))

\* Some selection the error message of SelectP2QPKForAmount speaks of.
SomeSelectionCovers(coins, send, rate) ==
  \E s \in SUBSET coins : s # {} /\ Cardinality(s) <= MaxInputs /\ Covers(s, send, rate)

\* If every coin is worth spending, trying the ascending prefixes and the
\* largest coins is enough: an amount is refused only if no selection covers it.
CompleteWithoutDust ==
  \A send \in Sends, rate \in Rates :
     /\ MayScan
     /\ \A c \in unspent : Worth(c, rate)
     /\ SomeSelectionCovers(unspent, send, rate)
     => Selections(unspent, send, rate) # {}

\* If every coin is worth spending, a recovery pass can be made as long as
\* anything is left: nothing stays behind on the address for good.
RecoveryCanContinue ==
  \A rate \in Rates :
     /\ MayScan
     /\ \A c \in unspent : Worth(c, rate)
     => CanWithdraw(Total(Maximum(unspent)), rate, Cardinality(Maximum(unspent)))

\* "no selection of at most 22 inputs covers amount plus fee": what
\* SelectP2QPKForAmount says when it refuses.
RefusedMeansNone ==
  \A send \in Sends, rate \in Rates :
     MayScan /\ SomeSelectionCovers(unspent, send, rate) => Selections(unspent, send, rate) # {}
=============================================================================
