----------------------------- MODULE SingleUse -----------------------------
(***************************************************************************)
(* What the address index promises to whoever signs with it, without its   *)
(* records, its pending broadcasts or its history:                         *)
(*   - a key signs one spending transaction;                               *)
(*   - an address is promised as change once, while nothing has been       *)
(*     credited to it, and is never promised again;                        *)
(*   - an output under recovery has one outstanding signature;             *)
(*   - a key is destroyed only after it has been used, with no recovery of *)
(*     its outputs outstanding, and signs nothing afterwards.              *)
(***************************************************************************)
CONSTANTS Addr, Outpoint, Owner, TxID, TxFrom, TxInputs, TxChange, NoAddr, NoTx

VARIABLES
  born,      \* addresses that have been generated
  credited,  \* addresses whose balance has been accepted
  spentBy,   \* Addr -> the spending transaction its key has signed
  promised,  \* addresses that a signed transaction pays change to
  locked,    \* outputs with an outstanding recovery signature
  destroyed  \* addresses whose key is gone

abstract == <<born, credited, spentBy, promised, locked, destroyed>>

Init ==
  /\ born = {}
  /\ credited = {}
  /\ spentBy = [a \in Addr |-> NoTx]
  /\ promised = {}
  /\ locked = {}
  /\ destroyed = {}

Create(a) ==
  /\ a \notin born
  /\ born' = born \cup {a}
  /\ UNCHANGED <<credited, spentBy, promised, locked, destroyed>>

Credit(a) ==
  /\ a \in born \ credited
  /\ credited' = credited \cup {a}
  /\ UNCHANGED <<born, spentBy, promised, locked, destroyed>>

Promise(c) ==
  /\ c # NoAddr => c \in born \ (credited \cup promised)
  /\ promised' = promised \cup ({c} \ {NoAddr})

Spend(t) ==
  /\ TxFrom[t] \in credited
  /\ spentBy[TxFrom[t]] = NoTx
  /\ spentBy' = [spentBy EXCEPT ![TxFrom[t]] = t]
  /\ Promise(TxChange[t])
  /\ UNCHANGED <<born, credited, locked, destroyed>>

Recover(t) ==
  /\ spentBy[TxFrom[t]] # NoTx
  /\ TxFrom[t] \notin destroyed
  /\ TxInputs[t] \cap locked = {}
  /\ locked' = locked \cup TxInputs[t]
  /\ Promise(TxChange[t])
  /\ UNCHANGED <<born, credited, spentBy, destroyed>>

Release(outpoints) ==
  /\ outpoints \subseteq locked
  /\ locked' = locked \ outpoints
  /\ UNCHANGED <<born, credited, spentBy, promised, destroyed>>

Destroy(a) ==
  /\ spentBy[a] # NoTx
  /\ \A o \in locked : Owner[o] # a
  /\ destroyed' = destroyed \cup {a}
  /\ UNCHANGED <<born, credited, spentBy, promised, locked>>

Next ==
  \/ \E a \in Addr : Create(a) \/ Credit(a) \/ Destroy(a)
  \/ \E t \in TxID : Spend(t) \/ Recover(t)
  \/ \E outpoints \in SUBSET locked : Release(outpoints)

Spec == Init /\ [][Next]_abstract
=============================================================================
