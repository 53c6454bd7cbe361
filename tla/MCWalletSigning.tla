-------------------------- MODULE MCWalletSigning --------------------------
(* Two callers, and two transactions that compete for the outputs of address  *)
(* 0: one with change to address 1, one without change.                       *)
EXTENDS WalletSigning

CONSTANTS o1, o2, pay, payAll, th1, th2

MCOutpoint == {o1, o2}
MCOwner == [o \in MCOutpoint |-> 0]

MCTxID == {pay, payAll}
MCTxFrom == [t \in MCTxID |-> 0]
MCTxInputs == [t \in MCTxID |-> IF t = pay THEN {o1} ELSE {o1, o2}]
MCTxChange == [t \in MCTxID |-> IF t = pay THEN 1 ELSE NoAddr]
=============================================================================
