---------------------------- MODULE MCWalletNode ----------------------------
(* Address 0 is paid by o1, o2 and o3.  pay sends o1 with change c1 to address  *)
(* 1, self sends it to address 1 as a payment; the recoveries rec1, rec2 and    *)
(* rec3 send what is left or arrives later; d1 is a deposit on address 1.  The  *)
(* .cfg files choose which outpoints, transactions and deposits there are.      *)
EXTENDS WalletNode

CONSTANTS o1, o2, o3, c1, d1, dep1, dep2, pay, self, rec1, rec2, rec3

MCOwner    == [o \in Outpoint |-> IF o \in {c1, d1} THEN 1 ELSE 0]
MCCreator  == [o \in Outpoint |->
                 CASE o = c1 -> IF pay \in TxID THEN pay ELSE self
                   [] o \in {o3, d1} /\ dep2 \in DepositTx -> dep2
                   [] o = o2 /\ o3 \notin Outpoint /\ dep2 \in DepositTx -> dep2
                   [] OTHER  -> dep1]
MCAmount   == [o \in Outpoint |-> 1]

MCTxFrom   == [t \in TxID |-> 0]
MCTxInputs == [t \in TxID |-> CASE t \in {pay, self} -> {o1}
                                 [] t = rec1 -> {o2}
                                 [] t = rec2 -> {o2, o3}
                                 [] t = rec3 -> {o3}]
MCTxChange == [t \in TxID |-> IF t = pay /\ c1 \in Outpoint THEN 1 ELSE NoAddr]
MCTxTo     == [t \in TxID |-> IF t = self THEN 1 ELSE NoAddr]
=============================================================================
