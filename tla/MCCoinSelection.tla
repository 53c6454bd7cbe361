-------------------------- MODULE MCCoinSelection --------------------------
(* Six outputs of one address, two of them equal, for at most two inputs a    *)
(* transaction.  At 1000 sat/kB an input costs about 4330 sat: output 0 is    *)
(* then dust, and outputs 1 and 2 are at 2000 sat/kB.                         *)
EXTENDS CoinSelection

MCCoin == 0 .. 5
MCAmount == [c \in MCCoin |-> CASE c = 0 -> 3000
                                [] c \in {1, 2} -> 6000
                                [] c = 3 -> 10000
                                [] c = 4 -> 14000
                                [] c = 5 -> 40000]
=============================================================================
