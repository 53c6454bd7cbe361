----------------------------- MODULE MCKeyIndex -----------------------------
(* A small index for TLC: three addresses, the first of which has two         *)
(* outpoints, so that a recovery can take part of them, and the second one.   *)
EXTENDS KeyIndex

CONSTANTS o1, o2, o3, pay, splitPay, sweep, onward

MCOutpoint == {o1, o2, o3}
MCOwner == [o \in MCOutpoint |-> IF o = o3 THEN 1 ELSE 0]

MCTxID == {pay, splitPay, sweep, onward}
MCTxFrom == [t \in MCTxID |-> IF t = onward THEN 1 ELSE 0]
MCTxInputs == [t \in MCTxID |-> CASE t = pay -> {o1}
                                  [] t = splitPay -> {o2}
                                  [] t = sweep -> {o1, o2}
                                  [] t = onward -> {o3}]
MCTxChange == [t \in MCTxID |-> CASE t = pay -> 1
                                  [] t = splitPay -> 2
                                  [] t = sweep -> NoAddr
                                  [] t = onward -> 2]
=============================================================================
