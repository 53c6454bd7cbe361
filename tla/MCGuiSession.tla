---- MODULE MCGuiSession ----
(* Two wallets, each with a transaction to sign. *)
EXTENDS GuiSession
CONSTANTS w1, w2, t1, t2
MCSigner == [t \in TxID |-> IF t = t2 THEN w2 ELSE w1]
====
