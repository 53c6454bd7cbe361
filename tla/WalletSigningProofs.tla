----------------------- MODULE WalletSigningProofs -----------------------
(* Theorems about concurrent callers of the wallet: what was proved of the    *)
(* index holds below them, and what signMu adds.                              *)
EXTENDS WalletSigning, KeyIndexProofs, FiniteSetTheorems

\* How many addresses are available is a number.
LEMMA AvailableIsCounted == AvailableCount \in Nat
<1>1. IsFiniteSet(Addr)
  BY MaxIndexAssumption, FS_Interval DEF Addr
<1>2. IsFiniteSet({a \in Addr : AvailableFresh(a)})
  BY <1>1, FS_Subset
<1> QED BY <1>2, FS_CardinalityType DEF AvailableCount

\* Idle is a call.
LEMMA IdleIsCall == Idle \in Call
BY PoolAssumption, MaxIndexAssumption DEF Idle, Call, Op, Pc, Addr

\* Every call keeps its shape and what it is about, and signMu is held by
\* exactly the thread that is between its lock and its return.
THEOREM SigningTypeCorrect == SigningSpec => [](SigningTypeOK /\ CallMatches)
<1> DEFINE Inv == SigningTypeOK /\ CallMatches
<1>1. SigningInit => Inv
  <2> SUFFICES ASSUME SigningInit PROVE Inv
    OBVIOUS
  <2>1. PICK th \in Thread :
          call = [x \in Thread |->
                    IF x = th THEN [Idle EXCEPT !.op = "open", !.pc = "count"] ELSE Idle]
    BY DEF SigningInit
  <2>2. [Idle EXCEPT !.op = "open", !.pc = "count"] \in Call
    BY IdleIsCall DEF Call, Op, Pc
  <2>3. call \in [Thread -> Call]
    BY IdleIsCall, <2>1, <2>2
  <2> QED BY <2>1, <2>3, PoolAssumption DEF SigningInit, SigningTypeOK, CallMatches, Idle
<1>2. Inv /\ [SigningNext]_allVars => Inv'
  <2> SUFFICES ASSUME SigningTypeOK, CallMatches, [SigningNext]_allVars
               PROVE  SigningTypeOK' /\ CallMatches'
    OBVIOUS
  <2>0. /\ call \in [Thread -> Call] /\ Idle \in Call
        /\ NoThread \notin Thread /\ PoolSize \in Nat /\ MaxIndex \in Nat
        /\ \A t \in TxID : TxFrom[t] \in Addr
        /\ returned \subseteq SignedTx /\ refillFailed \in BOOLEAN
    BY IdleIsCall, PoolAssumption, MaxIndexAssumption, TxAssumption DEF SigningTypeOK
  <2>1. ASSUME NEW th \in Thread, LockSignMu(th)
        PROVE SigningTypeOK' /\ CallMatches'
    BY <2>0, <2>1 DEF LockSignMu, Begin, MayCall, Goto, Return, ReturnUnlocked, Idle, walletVars, allVars,
       SigningTypeOK, CallMatches, Call, Op, Pc, Kind, SignedTx
  <2>2. ASSUME NEW th \in Thread, CheckSource(th)
        PROVE SigningTypeOK' /\ CallMatches'
    BY <2>0, <2>2 DEF CheckSource, Begin, MayCall, Goto, Return, ReturnUnlocked, Idle, walletVars, allVars,
       SigningTypeOK, CallMatches, Call, Op, Pc, Kind, SignedTx
  <2>3. ASSUME NEW th \in Thread, CheckChange(th)
        PROVE SigningTypeOK' /\ CallMatches'
    BY <2>0, <2>3 DEF CheckChange, Begin, MayCall, Goto, Return, ReturnUnlocked, Idle, walletVars, allVars,
       SigningTypeOK, CallMatches, Call, Op, Pc, Kind, SignedTx
  <2>4. ASSUME NEW th \in Thread, SignOnly(th)
        PROVE SigningTypeOK' /\ CallMatches'
    BY <2>0, <2>4 DEF SignOnly, Begin, MayCall, Goto, Return, ReturnUnlocked, Idle, walletVars, allVars,
       SigningTypeOK, CallMatches, Call, Op, Pc, Kind, SignedTx
  <2>5. ASSUME NEW th \in Thread, SignAndCommit(th)
        PROVE SigningTypeOK' /\ CallMatches'
    <3>1. CASE Goto(th, "return") /\ UNCHANGED signMu
      <4>1. /\ call[th].op \in {"spend", "recovery"} /\ call[th].pc = "sign"
            /\ returned' = returned /\ refillFailed' = refillFailed
        BY <2>5 DEF SignAndCommit
      <4> QED BY <2>0, <3>1, <4>1 DEF Goto, SigningTypeOK, CallMatches, Call, Pc
    <3>2. CASE ReturnUnlocked(th)
      <4>1. call[th].pc = "sign" /\ returned' = returned /\ refillFailed' = refillFailed
        BY <2>5 DEF SignAndCommit
      <4> QED BY <2>0, <3>2, <4>1 DEF Return, ReturnUnlocked, Idle, SigningTypeOK, CallMatches
    <3> QED BY <2>5, <3>1, <3>2 DEF SignAndCommit
  <2>6. ASSUME NEW th \in Thread, ReturnRaw(th)
        PROVE SigningTypeOK' /\ CallMatches'
    <3>1. [TxID |-> call[th].txid, Kind |-> call[th].op] \in SignedTx
      BY <2>6 DEF ReturnRaw, CallMatches, SignedTx, Kind
    <3>2. returned' \subseteq SignedTx
      BY <2>0, <2>6, <3>1 DEF ReturnRaw
    <3> QED BY <2>0, <2>6, <3>2 DEF ReturnRaw, Return, ReturnUnlocked, Idle, SigningTypeOK, CallMatches
  <2>7. ASSUME NEW th \in Thread, ConfirmSpend(th)
        PROVE SigningTypeOK' /\ CallMatches'
    BY <2>0, <2>7 DEF ConfirmSpend, Begin, MayCall, Goto, Return, ReturnUnlocked, Idle, walletVars, allVars,
       SigningTypeOK, CallMatches, Call, Op, Pc, Kind, SignedTx
  <2>8. ASSUME NEW th \in Thread, CountAvailableFresh(th)
        PROVE SigningTypeOK' /\ CallMatches'
    <3>1. /\ call[th].pc = "count" /\ refillFailed' \in BOOLEAN
          /\ signMu' = signMu /\ returned' = returned
      BY <2>8 DEF CountAvailableFresh
    <3>2. CASE Return(th)
      BY <2>0, <3>1, <3>2 DEF Return, Idle, SigningTypeOK, CallMatches
    <3>3. CASE /\ ~(AvailableCount >= PoolSize)
               /\ call' = [call EXCEPT ![th].pc = "generate", ![th].needed = PoolSize - AvailableCount]
      <4>1. PoolSize - AvailableCount \in 0 .. PoolSize /\ PoolSize - AvailableCount > 0
        BY <2>0, <3>3, AvailableIsCounted
      <4>2. [call[th] EXCEPT !.pc = "generate", !.needed = PoolSize - AvailableCount] \in Call
        BY <2>0, <4>1 DEF Call, Pc
      <4>3. /\ call' \in [Thread -> Call]
            /\ call'[th].pc = "generate" /\ call'[th].needed = PoolSize - AvailableCount
            /\ call'[th].op = call[th].op /\ call'[th].addr = call[th].addr
            /\ call'[th].txid = call[th].txid
            /\ \A x \in Thread : x # th => call'[x] = call[x]
        BY <2>0, <3>3, <4>2 DEF Call
      <4> QED BY <2>0, <3>1, <4>1, <4>3 DEF SigningTypeOK, CallMatches
    <3> QED BY <2>8, <3>2, <3>3 DEF CountAvailableFresh
  <2>9. ASSUME NEW th \in Thread, PreGenerate(th)
        PROVE SigningTypeOK' /\ CallMatches'
    <3>1. CASE Return(th)
      BY <2>0, <2>9, <3>1 DEF PreGenerate, Return, Idle, SigningTypeOK, CallMatches
    <3>2. CASE call[th].needed # 1 /\ call' = [call EXCEPT ![th].needed = @ - 1]
      <4>0. call[th].needed \in 0 .. PoolSize /\ call[th].needed > 0
        BY <2>0, <2>9 DEF PreGenerate, CallMatches, Call
      <4>1. call[th].needed - 1 \in 0 .. PoolSize /\ call[th].needed - 1 > 0
        BY <2>0, <3>2, <4>0
      <4>2. call' \in [Thread -> Call]
        BY <2>0, <3>2, <4>1 DEF Call
      <4> QED BY <2>0, <2>9, <3>2, <4>1, <4>2 DEF PreGenerate, SigningTypeOK, CallMatches, Call
    <3> QED BY <2>9, <3>1, <3>2 DEF PreGenerate
  <2>10. ASSUME NEW th \in Thread, NEW t \in TxID, NEW kind \in Kind, CallSignP2QPKInputs(th, t, kind)
        PROVE SigningTypeOK' /\ CallMatches'
    BY <2>0, <2>10 DEF CallSignP2QPKInputs, Begin, MayCall, Goto, Return, ReturnUnlocked, Idle, walletVars, allVars,
       SigningTypeOK, CallMatches, Call, Op, Pc, Kind, SignedTx
  <2>11. ASSUME NEW th \in Thread, NEW t \in TxID, CallSignTransaction(th, t)
        PROVE SigningTypeOK' /\ CallMatches'
    BY <2>0, <2>11 DEF CallSignTransaction, Begin, MayCall, Goto, Return, ReturnUnlocked, Idle, walletVars, allVars,
       SigningTypeOK, CallMatches, Call, Op, Pc, Kind, SignedTx
  <2>12. ASSUME NEW th \in Thread, NEW a \in Addr, CallSignMessage(th, a)
        PROVE SigningTypeOK' /\ CallMatches'
    BY <2>0, <2>12 DEF CallSignMessage, Begin, MayCall, Goto, Return, ReturnUnlocked, Idle, walletVars, allVars,
       SigningTypeOK, CallMatches, Call, Op, Pc, Kind, SignedTx
  <2>13. ASSUME NEW th \in Thread, NEW a \in Addr, ObserveFunding(th, a)
        PROVE SigningTypeOK' /\ CallMatches'
    BY <2>0, <2>13 DEF ObserveFunding, Begin, MayCall, Goto, Return, ReturnUnlocked, Idle, walletVars, allVars,
       SigningTypeOK, CallMatches, Call, Op, Pc, Kind, SignedTx
  <2>14. ASSUME NEW th \in Thread, NEW a \in Addr, OnConfirmation(th, a)
        PROVE SigningTypeOK' /\ CallMatches'
    BY <2>0, <2>14 DEF OnConfirmation, Begin, MayCall, Goto, Return, ReturnUnlocked, Idle, walletVars, allVars,
       SigningTypeOK, CallMatches, Call, Op, Pc, Kind, SignedTx
  <2>15. ASSUME NEW th \in Thread, NEW a \in Addr, PurgeSpentKey(th, a)
        PROVE SigningTypeOK' /\ CallMatches'
    BY <2>0, <2>15 DEF PurgeSpentKey, Begin, MayCall, Goto, Return, ReturnUnlocked, Idle, walletVars, allVars,
       SigningTypeOK, CallMatches, Call, Op, Pc, Kind, SignedTx
  <2>16. ASSUME NEW th \in Thread, NEW a \in Addr, NEW t \in TxID, ObserveSpendConfirmation(th, a, t)
        PROVE SigningTypeOK' /\ CallMatches'
    BY <2>0, <2>16 DEF ObserveSpendConfirmation, Begin, MayCall, Goto, Return, ReturnUnlocked, Idle, walletVars, allVars,
       SigningTypeOK, CallMatches, Call, Op, Pc, Kind, SignedTx
  <2>17. ASSUME NEW th \in Thread, NEW a \in Addr, NEW mature \in BOOLEAN,
               NEW current \in SUBSET OutpointsOf(a),
               ObserveRecoverableBalance(th, a, current, mature)
        PROVE SigningTypeOK' /\ CallMatches'
    BY <2>0, <2>17 DEF ObserveRecoverableBalance, Begin, MayCall, Goto, Return, ReturnUnlocked, Idle, walletVars, allVars,
       SigningTypeOK, CallMatches, Call, Op, Pc, Kind, SignedTx
  <2>18. ASSUME NEW th \in Thread, CrashAndOpen(th)
        PROVE SigningTypeOK' /\ CallMatches'
    BY <2>0, <2>18 DEF CrashAndOpen, Begin, MayCall, Goto, Return, ReturnUnlocked, Idle, walletVars, allVars,
       SigningTypeOK, CallMatches, Call, Op, Pc, Kind, SignedTx
  <2>19. ASSUME NEW th \in Thread, RefillFails(th)
        PROVE SigningTypeOK' /\ CallMatches'
    BY <2>0, <2>19 DEF RefillFails, Return, Idle, SigningTypeOK, CallMatches
  <2>20. CASE UNCHANGED allVars
    BY <2>0, <2>20 DEF allVars, Begin, MayCall, Goto, Return, ReturnUnlocked, Idle, walletVars, allVars,
       SigningTypeOK, CallMatches, Call, Op, Pc, Kind, SignedTx
  <2> QED BY <2>1, <2>2, <2>3, <2>4, <2>5, <2>6, <2>7, <2>8, <2>9, <2>10, <2>11, <2>12, <2>13, <2>14, <2>15, <2>16, <2>17, <2>18, <2>19, <2>20
         DEF SigningNext, Step
<1> QED BY <1>1, <1>2, PTL DEF SigningSpec

\* Concurrent callers, and crashes, do nothing to the index that the index does
\* not allow: every theorem about Spec holds below SigningSpec.
THEOREM SigningUsesIndex == SigningSpec => Spec
<1>1. SigningInit => Init
  BY DEF SigningInit
<1>2. SigningTypeOK /\ CallMatches /\ [SigningNext]_allVars => [Next]_vars
  <2> SUFFICES ASSUME SigningTypeOK, CallMatches, [SigningNext]_allVars PROVE [Next]_vars
    OBVIOUS
  <2>1. ASSUME NEW th \in Thread, LockSignMu(th)
        PROVE [Next]_vars
    BY <2>1 DEF LockSignMu
  <2>2. ASSUME NEW th \in Thread, CheckSource(th)
        PROVE [Next]_vars
    BY <2>2 DEF CheckSource
  <2>3. ASSUME NEW th \in Thread, CheckChange(th)
        PROVE [Next]_vars
    BY <2>3 DEF CheckChange
  <2>4. ASSUME NEW th \in Thread, SignOnly(th)
        PROVE [Next]_vars
    BY <2>4 DEF SignOnly
  <2>5. ASSUME NEW th \in Thread, SignAndCommit(th)
        PROVE [Next]_vars
    <3>1. CASE UNCHANGED vars
      BY <3>1
    <3>2. CASE Commit(call[th].txid, call[th].op)
      <4>1. call[th].txid \in TxID
        BY <2>5 DEF SignAndCommit, CallMatches
      <4> QED BY <3>2, <4>1 DEF Commit, Next
    <3> QED BY <2>5, <3>1, <3>2 DEF SignAndCommit
  <2>6. ASSUME NEW th \in Thread, ReturnRaw(th)
        PROVE [Next]_vars
    BY <2>6 DEF ReturnRaw
  <2>7. ASSUME NEW th \in Thread, ConfirmSpend(th)
        PROVE [Next]_vars
    <3>1. call[th].addr \in Addr
      BY DEF SigningTypeOK, Call
    <3> QED BY <2>7, <3>1 DEF ConfirmSpend, Next
  <2>8. ASSUME NEW th \in Thread, CountAvailableFresh(th)
        PROVE [Next]_vars
    BY <2>8 DEF CountAvailableFresh
  <2>9. ASSUME NEW th \in Thread, PreGenerate(th)
        PROVE [Next]_vars
    BY <2>9 DEF PreGenerate, Next
  <2>10. ASSUME NEW th \in Thread, NEW t \in TxID, NEW kind \in Kind, CallSignP2QPKInputs(th, t, kind)
        PROVE [Next]_vars
    BY <2>10 DEF CallSignP2QPKInputs
  <2>11. ASSUME NEW th \in Thread, NEW t \in TxID, CallSignTransaction(th, t)
        PROVE [Next]_vars
    BY <2>11 DEF CallSignTransaction
  <2>12. ASSUME NEW th \in Thread, NEW a \in Addr, CallSignMessage(th, a)
        PROVE [Next]_vars
    BY <2>12 DEF CallSignMessage
  <2>13. ASSUME NEW th \in Thread, NEW a \in Addr, ObserveFunding(th, a)
        PROVE [Next]_vars
    BY <2>13 DEF ObserveFunding, Next
  <2>14. ASSUME NEW th \in Thread, NEW a \in Addr, OnConfirmation(th, a)
        PROVE [Next]_vars
    BY <2>14 DEF OnConfirmation, Next
  <2>15. ASSUME NEW th \in Thread, NEW a \in Addr, PurgeSpentKey(th, a)
        PROVE [Next]_vars
    BY <2>15 DEF PurgeSpentKey, Next
  <2>16. ASSUME NEW th \in Thread, NEW a \in Addr, NEW t \in TxID, ObserveSpendConfirmation(th, a, t)
        PROVE [Next]_vars
    BY <2>16 DEF ObserveSpendConfirmation
  <2>17. ASSUME NEW th \in Thread, NEW a \in Addr, NEW mature \in BOOLEAN,
               NEW current \in SUBSET OutpointsOf(a),
               ObserveRecoverableBalance(th, a, current, mature)
        PROVE [Next]_vars
    BY <2>17 DEF ObserveRecoverableBalance, Next
  <2>18. ASSUME NEW th \in Thread, CrashAndOpen(th)
        PROVE [Next]_vars
    BY <2>18 DEF CrashAndOpen
  <2>19. ASSUME NEW th \in Thread, RefillFails(th)
        PROVE [Next]_vars
    BY <2>19 DEF RefillFails
  <2>20. CASE UNCHANGED allVars
    BY <2>20 DEF allVars, vars
  <2> QED BY <2>1, <2>2, <2>3, <2>4, <2>5, <2>6, <2>7, <2>8, <2>9, <2>10, <2>11, <2>12, <2>13, <2>14, <2>15, <2>16, <2>17, <2>18, <2>19, <2>20
         DEF SigningNext, Step
<1> QED BY <1>1, <1>2, SigningTypeCorrect, PTL DEF SigningSpec, Spec

\* Goto changes one field of one call.
LEMMA GotoFrame ==
  ASSUME call \in [Thread -> Call], NEW th \in Thread, NEW pc, Goto(th, pc)
  PROVE  /\ \A x \in Thread : x # th => call'[x] = call[x]
         /\ call'[th].pc = pc /\ call'[th].op = call[th].op
         /\ call'[th].addr = call[th].addr /\ call'[th].txid = call[th].txid
BY DEF Goto, Call

\* Return changes one call, which becomes idle.
LEMMA ReturnFrame ==
  ASSUME call \in [Thread -> Call], NEW th \in Thread, Return(th)
  PROVE  \A x \in Thread : call'[x] = call[x] \/ call'[x].pc = "idle"
BY DEF Return, Idle

\* A call begins idle, and at the pc it is given.
LEMMA BeginFrame ==
  ASSUME call \in [Thread -> Call], NEW th \in Thread, NEW op, NEW pc, NEW a, NEW t,
         Begin(th, op, pc, a, t)
  PROVE  /\ \A x \in Thread : x # th => call'[x] = call[x]
         /\ call'[th] = [op |-> op, pc |-> pc, addr |-> a, txid |-> t, needed |-> 0]
         /\ call'[th].pc = pc
BY DEF Begin

\* A step that leaves FUNDED addresses FUNDED, recorded spends recorded and
\* stored broadcasts stored; every method of the index but the two that commit
\* a signature takes such a step.
Quiet ==
  /\ \A x \in Addr :
       /\ addresses[x].State = "FUNDED" => addresses'[x].State = "FUNDED"
       /\ addresses[x].SpendTxID # NoTx => addresses'[x].SpendTxID = addresses[x].SpendTxID
  /\ pending_broadcasts' = pending_broadcasts

\* A generated address had no record, so no state and no spend is lost.
LEMMA GenerateIsQuiet ==
  ASSUME TypeOK, IndexIsMonotonic, SpendRecorded, GenerateAddress
  PROVE  Quiet
<1>1. next_index \in Addr /\ addresses[next_index].State = "NONE"
  BY MaxIndexAssumption DEF TypeOK, GenerateAddress, IndexIsMonotonic, Addr
<1>2. addresses[next_index].SpendTxID = NoTx
  BY <1>1 DEF SpendRecorded
<1> QED BY <1>1, <1>2 DEF Quiet, TypeOK, GenerateAddress, putRecord

\* A credit changes the state of a FRESH address and keeps its spend.
LEMMA MarkFundedIsQuiet ==
  ASSUME TypeOK, NEW a \in Addr, MarkFunded(a)
  PROVE  Quiet
<1> DEFINE rec == Funded(addresses[a])
<1>1. addresses[a] \in AddressRecord
  BY DEF TypeOK
<1>2. rec.State = "FUNDED" /\ rec.SpendTxID = addresses[a].SpendTxID
  BY <1>1 DEF Funded, AddressRecord
<1>3. addresses' = [addresses EXCEPT ![a] = rec] /\ pending_broadcasts' = pending_broadcasts
  BY DEF MarkFunded, putRecord
<1> HIDE DEF rec
<1> QED BY <1>2, <1>3 DEF Quiet, TypeOK

\* A confirmation changes the state of a SPEND_PENDING address and keeps its spend.
LEMMA MarkSpentIsQuiet ==
  ASSUME TypeOK, NEW a \in Addr, MarkSpent(a)
  PROVE  Quiet
<1> DEFINE rec == [addresses[a] EXCEPT !.State = "SPENT"]
<1>1. addresses[a] \in AddressRecord
  BY DEF TypeOK
<1>2. rec.SpendTxID = addresses[a].SpendTxID
  BY <1>1 DEF AddressRecord
<1>3. /\ addresses[a].State = "SPEND_PENDING"
      /\ addresses' = [addresses EXCEPT ![a] = rec] /\ pending_broadcasts' = pending_broadcasts
  BY DEF MarkSpent, putRecord
<1> HIDE DEF rec
<1> QED BY <1>2, <1>3 DEF Quiet, TypeOK

\* A purge changes the state of a SPENT address and keeps its spend.
LEMMA RetireIsQuiet ==
  ASSUME TypeOK, NEW a \in Addr, Retire(a)
  PROVE  Quiet
<1> DEFINE rec == [addresses[a] EXCEPT !.State = "RETIRED", !.EncSeedBlob = FALSE]
<1>1. addresses[a] \in AddressRecord
  BY DEF TypeOK
<1>2. rec.SpendTxID = addresses[a].SpendTxID
  BY <1>1 DEF AddressRecord
<1>3. /\ addresses[a].State = "SPENT"
      /\ addresses' = [addresses EXCEPT ![a] = rec] /\ pending_broadcasts' = pending_broadcasts
  BY DEF Retire, putRecord
<1> HIDE DEF rec
<1> QED BY <1>2, <1>3 DEF Quiet, TypeOK

\* A scan changes neither a state nor a spend.
LEMMA ObserveIsQuiet ==
  ASSUME TypeOK, NEW a \in Addr, NEW mature \in BOOLEAN, NEW current \in SUBSET OutpointsOf(a),
         ObserveRecoverableOutpoints(a, current, mature)
  PROVE  Quiet
<1> DEFINE rec == Reconciled(addresses[a], current, mature)
<1>1. addresses[a] \in AddressRecord
  BY DEF TypeOK
<1>2. rec.State = addresses[a].State /\ rec.SpendTxID = addresses[a].SpendTxID
  BY <1>1 DEF Reconciled, AddressRecord
<1>3. addresses' = [addresses EXCEPT ![a] = rec] /\ pending_broadcasts' = pending_broadcasts
  BY DEF ObserveRecoverableOutpoints, putRecord
<1> HIDE DEF rec
<1> QED BY <1>2, <1>3 DEF Quiet, TypeOK

\* Committing a signature keeps recorded spends and stored broadcasts, and
\* stores its own.
LEMMA CommitFrame ==
  ASSUME TypeOK, SpendRecorded, NEW t \in TxID, NEW op \in Kind, Commit(t, op)
  PROVE  /\ \A x \in Addr : addresses[x].SpendTxID # NoTx =>
              addresses'[x].SpendTxID = addresses[x].SpendTxID
         /\ pending_broadcasts \subseteq pending_broadcasts'
         /\ \E p \in pending_broadcasts' : p.TxID = t /\ p.Kind = op
<1>0. addresses \in [Addr -> AddressRecord] /\ TxFrom[t] \in Addr
  BY TxAssumption DEF TypeOK
<1> DEFINE entry(kind) == [TxID |-> t, Kind |-> kind, SourceAddress |-> TxFrom[t]]
<1>e. \A kind : entry(kind).TxID = t /\ entry(kind).Kind = kind
  OBVIOUS
<1>1. CASE op = "spend"
  <2>1. MarkSpendPendingAndReserveChange(TxFrom[t], TxChange[t], t)
    BY <1>1 DEF Commit
  <2>2. addresses[TxFrom[t]].SpendTxID = NoTx
    BY <1>0, <2>1 DEF MarkSpendPendingAndReserveChange, SpendRecorded
  <2> DEFINE recs == putRecord(TxFrom[t], [addresses[TxFrom[t]] EXCEPT !.State = "SPEND_PENDING",
                                                                        !.SpendTxID = t])
  <2>3. /\ recs \in [Addr -> AddressRecord]
        /\ \A x \in Addr : x # TxFrom[t] => recs[x] = addresses[x]
    <3>1. TxFrom[t] \in Addr /\ addresses[TxFrom[t]] \in AddressRecord
      BY <1>0, TxAssumption
    <3> QED BY <1>0, <3>1, SpendCommittedType DEF putRecord
  <2>4. addresses' = ReserveChange(recs, TxChange[t])
    BY <2>1 DEF MarkSpendPendingAndReserveChange
  <2>5. pending_broadcasts' = pending_broadcasts \cup {entry("spend")}
    BY <2>1 DEF MarkSpendPendingAndReserveChange, putPending
  <2> HIDE DEF recs
  <2>6. \A x \in Addr : addresses'[x].SpendTxID = recs[x].SpendTxID
    BY <2>3, <2>4 DEF ReserveChange, AddressRecord
  <2>7. \A x \in Addr : addresses[x].SpendTxID # NoTx =>
              addresses'[x].SpendTxID = addresses[x].SpendTxID
    BY <2>2, <2>3, <2>6
  <2> HIDE DEF entry
  <2> QED BY <1>1, <1>e, <2>5, <2>7
<1>2. CASE op = "recovery"
  <2>1. MarkRecoveryPendingAndReserveChange(TxFrom[t], TxChange[t], t, TxInputs[t])
    BY <1>2 DEF Commit
  <2>2. pending_broadcasts' = pending_broadcasts \cup {entry("recovery")}
    BY <2>1 DEF MarkRecoveryPendingAndReserveChange, putPending
  <2>3. \A x \in Addr : addresses'[x].SpendTxID = addresses[x].SpendTxID
    BY <1>0, <2>1, RecoveryFrame
  <2> HIDE DEF entry
  <2> QED BY <1>2, <1>e, <2>2, <2>3
<1> QED BY <1>1, <1>2 DEF Kind

\* What the signers rely on, together.
SafeInv == GateStillHolds /\ ConfirmsItsOwnSpend /\ ReturnedIsStored /\ CommitIsStored

\* A quiet step that puts no thread past a check keeps it.
LEMMA SafeFrame ==
  ASSUME SafeInv, Quiet, returned' = returned, NoTx \notin TxID,
         \A x \in Thread : call[x].addr \in Addr,
         \A x \in Thread : call[x].pc = "confirm" => call[x].txid \in TxID,
         \A x \in Thread : \/ call'[x] = call[x]
                           \/ call'[x].pc \in {"idle", "lock", "source", "count", "generate"}
                           \/ /\ call'[x].addr = call[x].addr
                              /\ call'[x].pc \in {"change", "sign"}
                              /\ PastGate(call'[x]) => addresses[call[x].addr].State = "FUNDED"
  PROVE  SafeInv'
<1>1. GateStillHolds'
  <2> SUFFICES ASSUME NEW x \in Thread, PastGate(call'[x])
               PROVE  addresses'[call'[x].addr].State = "FUNDED"
    BY DEF GateStillHolds, PastGate
  <2>1. addresses[call[x].addr].State = "FUNDED" /\ call'[x].addr = call[x].addr
    BY DEF SafeInv, GateStillHolds, PastGate
  <2> QED BY <2>1 DEF Quiet
<1>2. ConfirmsItsOwnSpend'
  BY DEF SafeInv, ConfirmsItsOwnSpend, Quiet
<1>3. ReturnedIsStored' /\ CommitIsStored'
  BY DEF SafeInv, ReturnedIsStored, CommitIsStored, Quiet
<1> QED BY <1>1, <1>2, <1>3 DEF SafeInv

\* However calls interleave: what the gate of a signer saw is still true when it
\* signs, a confirmation is applied to the spend it was about, and what leaves
\* the wallet is stored.
THEOREM SigningSafe ==
  SigningSpec => [](GateStillHolds /\ ConfirmsItsOwnSpend /\ ReturnedIsStored)
<1>1. SigningInit => SafeInv
  BY DEF SigningInit, Idle, SafeInv, GateStillHolds, PastGate, ConfirmsItsOwnSpend,
         ReturnedIsStored, CommitIsStored
<1>2. /\ SigningTypeOK /\ CallMatches /\ TypeOK /\ IndexIsMonotonic /\ SpendRecorded
      /\ SafeInv /\ [SigningNext]_allVars
      => SafeInv'
  <2> SUFFICES ASSUME SigningTypeOK, CallMatches, TypeOK, IndexIsMonotonic, SpendRecorded,
                      SafeInv, [SigningNext]_allVars
               PROVE  SafeInv'
    OBVIOUS
  <2>0. /\ call \in [Thread -> Call] /\ \A x \in Thread : call[x].addr \in Addr
        /\ NoTx \notin TxID
        /\ \A x \in Thread : call[x].pc = "confirm" => call[x].txid \in TxID
    BY TxAssumption DEF SigningTypeOK, Call, CallMatches
  <2>a. UNCHANGED vars => Quiet
    BY DEF vars, Quiet
  <2>1. ASSUME NEW th \in Thread, LockSignMu(th)
        PROVE SafeInv'
    <3>1. UNCHANGED vars /\ returned' = returned
      BY <2>1 DEF LockSignMu
    <3>2. (call[th].op = "legacy" /\ Goto(th, "change")) \/ Goto(th, "source")
      BY <2>1 DEF LockSignMu
    <3>3. \A x \in Thread : \/ call'[x] = call[x]
                           \/ call'[x].pc = "source"
                           \/ /\ call'[x].addr = call[x].addr
                              /\ call'[x].pc = "change" /\ ~PastGate(call'[x])
      BY <2>0, <3>2, GotoFrame DEF PastGate
    <3> QED BY <2>0, <2>a, <3>1, <3>3, SafeFrame
  <2>2. ASSUME NEW th \in Thread, CheckSource(th)
        PROVE SafeInv'
    <3>1. UNCHANGED vars /\ returned' = returned
      BY <2>2 DEF CheckSource
    <3>2. CASE Return(th)
      BY <2>0, <2>a, <3>1, <3>2, ReturnFrame, SafeFrame
    <3>3. CASE /\ SourceMaySign(addresses[call[th].addr], call[th].op, call[th].txid)
               /\ Goto(th, "change") \/ Goto(th, "sign")
      <4>1. call[th].op # "recovery" => addresses[call[th].addr].State = "FUNDED"
        BY <3>3 DEF SourceMaySign
      <4>2. /\ call'[th].addr = call[th].addr /\ call'[th].pc \in {"change", "sign"}
            /\ call'[th].op = call[th].op
            /\ \A x \in Thread : x # th => call'[x] = call[x]
        BY <2>0, <3>3, GotoFrame
      <4>3. PastGate(call'[th]) => addresses[call[th].addr].State = "FUNDED"
        BY <4>1, <4>2 DEF PastGate
      <4> QED BY <2>0, <2>a, <3>1, <4>2, <4>3, SafeFrame
    <3> QED BY <2>2, <3>2, <3>3 DEF CheckSource, ReturnUnlocked
  <2>3. ASSUME NEW th \in Thread, CheckChange(th)
        PROVE SafeInv'
    <3>1. UNCHANGED vars /\ returned' = returned /\ call[th].pc = "change"
      BY <2>3 DEF CheckChange
    <3>2. CASE Return(th)
      BY <2>0, <2>a, <3>1, <3>2, ReturnFrame, SafeFrame
    <3>3. CASE call[th].op = "legacy" /\ Goto(th, "source")
      <4>1. \A x \in Thread : call'[x] = call[x] \/ call'[x].pc = "source"
        BY <2>0, <3>3, GotoFrame
      <4> QED BY <2>0, <2>a, <3>1, <4>1, SafeFrame
    <3>4. CASE call[th].op # "legacy" /\ Goto(th, "sign")
      <4>1. call[th].op = "spend" => addresses[call[th].addr].State = "FUNDED"
        BY <3>1 DEF SafeInv, GateStillHolds, PastGate
      <4>2. /\ call'[th].addr = call[th].addr /\ call'[th].pc = "sign"
            /\ call'[th].op = call[th].op
            /\ \A x \in Thread : x # th => call'[x] = call[x]
        BY <2>0, <3>4, GotoFrame
      <4>3. PastGate(call'[th]) => addresses[call[th].addr].State = "FUNDED"
        BY <3>1, <3>4, <4>1, <4>2 DEF PastGate, CallMatches
      <4> QED BY <2>0, <2>a, <3>1, <4>2, <4>3, SafeFrame
    <3> QED BY <2>3, <3>2, <3>3, <3>4 DEF CheckChange, ReturnUnlocked
  <2>4. ASSUME NEW th \in Thread, SignOnly(th)
        PROVE SafeInv'
    <3>1. UNCHANGED vars /\ returned' = returned
      BY <2>4 DEF SignOnly
    <3>2. \A x \in Thread : call'[x] = call[x] \/ call'[x].pc \in {"idle", "lock", "source", "count", "generate"}
      BY <2>0, <2>4, ReturnFrame DEF SignOnly, ReturnUnlocked
    <3> QED BY <2>0, <2>a, <3>1, <3>2, SafeFrame
  <2>5. ASSUME NEW th \in Thread, SignAndCommit(th)
        PROVE SafeInv'
    <3>0. returned' = returned /\ call[th].pc = "sign" /\ call[th].op \in Kind
      BY <2>5 DEF SignAndCommit, Kind
    <3>1. CASE UNCHANGED vars /\ Return(th)
      BY <2>0, <2>a, <3>0, <3>1, ReturnFrame, SafeFrame
    <3>2. CASE Commit(call[th].txid, call[th].op) /\ Goto(th, "return")
      <4>1. call[th].txid \in TxID
        BY <3>0 DEF CallMatches, Kind
      <4>2. /\ \A x \in Addr : addresses[x].SpendTxID # NoTx =>
                  addresses'[x].SpendTxID = addresses[x].SpendTxID
            /\ pending_broadcasts \subseteq pending_broadcasts'
            /\ \E p \in pending_broadcasts' : p.TxID = call[th].txid /\ p.Kind = call[th].op
        BY <3>0, <3>2, <4>1, CommitFrame
      <4>3. /\ \A x \in Thread : x # th => call'[x] = call[x]
            /\ call'[th].pc = "return" /\ call'[th].txid = call[th].txid /\ call'[th].op = call[th].op
        BY <2>0, <3>2, GotoFrame
      <4>4. \A x \in Thread : x # th => call[x].pc \notin {"change", "sign"}
        BY <3>0 DEF SigningTypeOK
      <4>5. GateStillHolds'
        BY <4>3, <4>4 DEF GateStillHolds, PastGate
      <4>6. ConfirmsItsOwnSpend'
        <5> SUFFICES ASSUME NEW x \in Thread, call'[x].pc = "confirm"
                     PROVE  addresses'[call'[x].addr].SpendTxID = call'[x].txid
          BY DEF ConfirmsItsOwnSpend
        <5>1. call'[x] = call[x]
          BY <4>3
        <5> QED BY <2>0, <4>2, <5>1 DEF SafeInv, ConfirmsItsOwnSpend
      <4>7. ReturnedIsStored'
        BY <3>0, <4>2 DEF SafeInv, ReturnedIsStored
      <4>8. CommitIsStored'
        <5> SUFFICES ASSUME NEW x \in Thread, call'[x].pc = "return"
                     PROVE  \E p \in pending_broadcasts' : p.TxID = call'[x].txid /\ p.Kind = call'[x].op
          BY DEF CommitIsStored
        <5>1. CASE x = th
          BY <4>2, <4>3, <5>1
        <5>2. CASE x # th
          BY <4>2, <4>3, <5>2 DEF SafeInv, CommitIsStored
        <5> QED BY <5>1, <5>2
      <4> QED BY <4>5, <4>6, <4>7, <4>8 DEF SafeInv
    <3> QED BY <2>5, <3>1, <3>2 DEF SignAndCommit, ReturnUnlocked
  <2>6. ASSUME NEW th \in Thread, ReturnRaw(th)
        PROVE SafeInv'
    <3>1. UNCHANGED vars /\ Return(th) /\ call[th].pc = "return"
          /\ returned' = returned \cup {[TxID |-> call[th].txid, Kind |-> call[th].op]}
      BY <2>6 DEF ReturnRaw, ReturnUnlocked
    <3>2. \A x \in Thread : call'[x] = call[x] \/ call'[x].pc = "idle"
      BY <2>0, <3>1, ReturnFrame
    <3>3. addresses' = addresses /\ pending_broadcasts' = pending_broadcasts
      BY <3>1 DEF vars
    <3>4. \E p \in pending_broadcasts : p.TxID = call[th].txid /\ p.Kind = call[th].op
      BY <3>1 DEF SafeInv, CommitIsStored
    <3>5. ReturnedIsStored'
      BY <3>1, <3>3, <3>4 DEF SafeInv, ReturnedIsStored
    <3>6. GateStillHolds' /\ ConfirmsItsOwnSpend' /\ CommitIsStored'
      BY <3>2, <3>3 DEF SafeInv, GateStillHolds, PastGate, ConfirmsItsOwnSpend, CommitIsStored
    <3> QED BY <3>5, <3>6 DEF SafeInv
  <2>7. ASSUME NEW th \in Thread, ConfirmSpend(th)
        PROVE SafeInv'
    <3>1. returned' = returned
      BY <2>7 DEF ConfirmSpend
    <3>2. CASE Return(th) /\ UNCHANGED vars
      BY <2>0, <2>a, <3>1, <3>2, ReturnFrame, SafeFrame
    <3>3. CASE /\ MarkSpent(call[th].addr)
               /\ call' = [call EXCEPT ![th].op = "fill", ![th].pc = "count"]
      <4>1. \A x \in Thread : call'[x] = call[x] \/ call'[x].pc = "count"
        BY <2>0, <3>3 DEF Call
      <4>2. Quiet
        BY <2>0, <3>3, MarkSpentIsQuiet
      <4> QED BY <2>0, <3>1, <4>1, <4>2, SafeFrame
    <3> QED BY <2>7, <3>2, <3>3 DEF ConfirmSpend
  <2>8. ASSUME NEW th \in Thread, CountAvailableFresh(th)
        PROVE SafeInv'
    <3>1. UNCHANGED vars /\ returned' = returned
      BY <2>8 DEF CountAvailableFresh
    <3>2. CASE Return(th)
      BY <2>0, <2>a, <3>1, <3>2, ReturnFrame, SafeFrame
    <3>3. CASE call' = [call EXCEPT ![th].pc = "generate", ![th].needed = PoolSize - AvailableCount]
      <4>1. \A x \in Thread : call'[x] = call[x] \/ call'[x].pc = "generate"
        BY <2>0, <3>3 DEF Call
      <4> QED BY <2>0, <2>a, <3>1, <4>1, SafeFrame
    <3> QED BY <2>8, <3>2, <3>3 DEF CountAvailableFresh
  <2>9. ASSUME NEW th \in Thread, PreGenerate(th)
        PROVE SafeInv'
    <3>1. returned' = returned /\ call[th].pc = "generate"
      BY <2>9 DEF PreGenerate
    <3>2. Quiet
      BY <2>9, GenerateIsQuiet DEF PreGenerate
    <3>3. CASE Return(th)
      BY <2>0, <3>1, <3>2, <3>3, ReturnFrame, SafeFrame
    <3>4. CASE call' = [call EXCEPT ![th].needed = @ - 1]
      <4>1. call'[th].pc = call[th].pc /\ \A x \in Thread : x # th => call'[x] = call[x]
        BY <2>0, <3>4 DEF Call
      <4> QED BY <2>0, <3>1, <3>2, <4>1, SafeFrame
    <3> QED BY <2>9, <3>3, <3>4 DEF PreGenerate
  <2>10. ASSUME NEW th \in Thread, NEW t \in TxID, NEW kind \in Kind, CallSignP2QPKInputs(th, t, kind)
        PROVE SafeInv'
    <3>1. UNCHANGED vars /\ returned' = returned /\ Begin(th, kind, "lock", TxFrom[t], t)
      BY <2>10 DEF CallSignP2QPKInputs
    <3>2. \A x \in Thread : call'[x] = call[x] \/ call'[x].pc = "lock"
      BY <2>0, <3>1, BeginFrame
    <3> QED BY <2>0, <2>a, <3>1, <3>2, SafeFrame
  <2>11. ASSUME NEW th \in Thread, NEW t \in TxID, CallSignTransaction(th, t)
        PROVE SafeInv'
    <3>1. UNCHANGED vars /\ returned' = returned /\ Begin(th, "legacy", "lock", TxFrom[t], t)
      BY <2>11 DEF CallSignTransaction
    <3>2. \A x \in Thread : call'[x] = call[x] \/ call'[x].pc = "lock"
      BY <2>0, <3>1, BeginFrame
    <3> QED BY <2>0, <2>a, <3>1, <3>2, SafeFrame
  <2>12. ASSUME NEW th \in Thread, NEW a \in Addr, CallSignMessage(th, a)
        PROVE SafeInv'
    <3>1. UNCHANGED vars /\ returned' = returned /\ Begin(th, "message", "lock", a, NoTx)
      BY <2>12 DEF CallSignMessage
    <3>2. \A x \in Thread : call'[x] = call[x] \/ call'[x].pc = "lock"
      BY <2>0, <3>1, BeginFrame
    <3> QED BY <2>0, <2>a, <3>1, <3>2, SafeFrame
  <2>13. ASSUME NEW th \in Thread, NEW a \in Addr, ObserveFunding(th, a)
        PROVE SafeInv'
    <3>1. MarkFunded(a) /\ returned' = returned /\ Begin(th, "fill", "count", a, NoTx)
      BY <2>13 DEF ObserveFunding
    <3>2. \A x \in Thread : call'[x] = call[x] \/ call'[x].pc = "count"
      BY <2>0, <3>1, BeginFrame
    <3>3. Quiet
      BY <3>1, MarkFundedIsQuiet
    <3> QED BY <2>0, <3>1, <3>2, <3>3, SafeFrame
  <2>14. ASSUME NEW th \in Thread, NEW a \in Addr, OnConfirmation(th, a)
        PROVE SafeInv'
    <3>1. MarkSpent(a) /\ returned' = returned /\ Begin(th, "fill", "count", a, NoTx)
      BY <2>14 DEF OnConfirmation
    <3>2. \A x \in Thread : call'[x] = call[x] \/ call'[x].pc = "count"
      BY <2>0, <3>1, BeginFrame
    <3>3. Quiet
      BY <3>1, MarkSpentIsQuiet
    <3> QED BY <2>0, <3>1, <3>2, <3>3, SafeFrame
  <2>15. ASSUME NEW th \in Thread, NEW a \in Addr, PurgeSpentKey(th, a)
        PROVE SafeInv'
    <3>1. Retire(a) /\ returned' = returned
      BY <2>15 DEF PurgeSpentKey, walletVars
    <3>2. \A x \in Thread : call'[x] = call[x] \/ call'[x].pc = "count"
      BY <2>0, <2>15 DEF PurgeSpentKey, walletVars
    <3>3. Quiet
      BY <3>1, RetireIsQuiet
    <3> QED BY <2>0, <3>1, <3>2, <3>3, SafeFrame
  <2>16. ASSUME NEW th \in Thread, NEW a \in Addr, NEW t \in TxID, ObserveSpendConfirmation(th, a, t)
        PROVE SafeInv'
    <3>1. UNCHANGED vars /\ returned' = returned /\ addresses[a].SpendTxID = t
      BY <2>16 DEF ObserveSpendConfirmation
    <3>2. Begin(th, "confirm", "confirm", a, t)
      BY <2>16 DEF ObserveSpendConfirmation
    <3>3. /\ \A x \in Thread : x # th => call'[x] = call[x]
          /\ call'[th] = [op |-> "confirm", pc |-> "confirm", addr |-> a, txid |-> t, needed |-> 0]
      BY <2>0, <3>2, BeginFrame
    <3>4. addresses' = addresses /\ pending_broadcasts' = pending_broadcasts
      BY <3>1 DEF vars
    <3>5. ConfirmsItsOwnSpend'
      BY <3>1, <3>3, <3>4 DEF SafeInv, ConfirmsItsOwnSpend
    <3>6. GateStillHolds' /\ ReturnedIsStored' /\ CommitIsStored'
      BY <3>1, <3>3, <3>4 DEF SafeInv, GateStillHolds, PastGate, ReturnedIsStored, CommitIsStored
    <3> QED BY <3>5, <3>6 DEF SafeInv
  <2>17. ASSUME NEW th \in Thread, NEW a \in Addr, NEW mature \in BOOLEAN,
               NEW current \in SUBSET OutpointsOf(a),
               ObserveRecoverableBalance(th, a, current, mature)
        PROVE SafeInv'
    <3>1. ObserveRecoverableOutpoints(a, current, mature) /\ returned' = returned
      BY <2>17 DEF ObserveRecoverableBalance, walletVars
    <3>2. \A x \in Thread : call'[x] = call[x] \/ call'[x].pc = "count"
      BY <2>0, <2>17 DEF ObserveRecoverableBalance, walletVars
    <3>3. Quiet
      BY <3>1, ObserveIsQuiet
    <3> QED BY <2>0, <3>1, <3>2, <3>3, SafeFrame
  <2>18. ASSUME NEW th \in Thread, CrashAndOpen(th)
        PROVE SafeInv'
    <3>1. UNCHANGED vars /\ returned' = returned
      BY <2>18 DEF CrashAndOpen
    <3>2. \A x \in Thread : call'[x].pc \in {"idle", "count"}
      BY <2>18 DEF CrashAndOpen, Idle
    <3> QED BY <2>0, <2>a, <3>1, <3>2, SafeFrame
  <2>19. ASSUME NEW th \in Thread, RefillFails(th)
        PROVE SafeInv'
    <3>1. UNCHANGED vars /\ returned' = returned /\ Return(th)
      BY <2>19 DEF RefillFails
    <3> QED BY <2>0, <2>a, <3>1, ReturnFrame, SafeFrame
  <2>20. CASE UNCHANGED allVars
    <3>1. UNCHANGED vars /\ returned' = returned /\ call' = call
      BY <2>20 DEF allVars, walletVars
    <3> QED BY <2>0, <2>a, <3>1, SafeFrame
  <2> QED BY <2>1, <2>2, <2>3, <2>4, <2>5, <2>6, <2>7, <2>8, <2>9, <2>10, <2>11, <2>12, <2>13, <2>14, <2>15, <2>16, <2>17, <2>18, <2>19, <2>20
         DEF SigningNext, Step
<1>3. SafeInv => GateStillHolds /\ ConfirmsItsOwnSpend /\ ReturnedIsStored
  BY DEF SafeInv
<1>4. IInv => IndexIsMonotonic /\ SpendRecorded
  BY DEF IInv, ChangeInv, SpendInv
<1> QED BY <1>1, <1>2, <1>3, <1>4, SigningTypeCorrect, SigningUsesIndex, IndexSafe, PTL
        DEF SigningSpec

-----------------------------------------------------------------------------
(* The pool *)

\* The addresses no transaction has paid yet, reserved ones included.
FreshAddrs == {a \in Addr : addresses[a].State = "FRESH"}

\* A pool that is short is being refilled: some caller has yet to count, or has
\* counted and will generate all that is missing; or a refill has failed, and
\* nobody has counted since.
PoolInv ==
  \/ refillFailed
  \/ \E th \in Thread : call[th].pc = "count"
  \/ \E th \in Thread : /\ call[th].pc = "generate"
                        /\ Cardinality(FreshAddrs) + call[th].needed >= PoolSize
  \/ Cardinality(FreshAddrs) >= PoolSize

\* A pool that grows to another set of addresses is not smaller for it.
LEMMA PoolGrows ==
  ASSUME NEW S \in SUBSET Addr, NEW T \in SUBSET Addr, S \subseteq T
  PROVE  /\ Cardinality(S) \in Nat /\ Cardinality(T) \in Nat
         /\ Cardinality(S) <= Cardinality(T)
<1>1. IsFiniteSet(Addr)
  BY MaxIndexAssumption, FS_Interval DEF Addr
<1>2. IsFiniteSet(T)
  BY <1>1, FS_Subset
<1>3. IsFiniteSet(S) /\ Cardinality(S) <= Cardinality(T)
  BY <1>2, FS_Subset
<1> QED BY <1>2, <1>3, FS_CardinalityType

\* Counting finds no more addresses than the pool holds.
LEMMA AvailableIsFresh ==
  AvailableCount <= Cardinality(FreshAddrs) /\ Cardinality(FreshAddrs) \in Nat
<1>1. /\ {a \in Addr : AvailableFresh(a)} \subseteq FreshAddrs
      /\ {a \in Addr : AvailableFresh(a)} \subseteq Addr /\ FreshAddrs \subseteq Addr
  BY DEF AvailableFresh, FreshAddrs
<1> QED BY <1>1, PoolGrows DEF AvailableCount

\* A step takes nothing out of the pool.
KeepsPool == FreshAddrs \subseteq FreshAddrs'

\* Such a step breaks nothing if the callers that refill are where they were.
LEMMA PoolFrame ==
  ASSUME PoolInv, KeepsPool, SigningTypeOK, refillFailed' = refillFailed,
         \A x \in Thread : call[x].pc \in {"count", "generate"} => call'[x] = call[x]
  PROVE  PoolInv'
<1>1. FreshAddrs \in SUBSET Addr /\ FreshAddrs' \in SUBSET Addr
  BY DEF FreshAddrs, Addr
<1>2. /\ Cardinality(FreshAddrs) \in Nat /\ Cardinality(FreshAddrs') \in Nat
      /\ Cardinality(FreshAddrs) <= Cardinality(FreshAddrs')
  BY <1>1, PoolGrows DEF KeepsPool
<1>3. PoolSize \in Nat /\ \A x \in Thread : call[x].needed \in Nat
  BY PoolAssumption, MaxIndexAssumption DEF SigningTypeOK, Call
<1>4. CASE refillFailed
  BY <1>4 DEF PoolInv
<1>5. CASE \E th \in Thread : call[th].pc = "count"
  BY <1>5 DEF PoolInv
<1>6. ASSUME NEW th \in Thread, call[th].pc = "generate",
             Cardinality(FreshAddrs) + call[th].needed >= PoolSize
      PROVE  PoolInv'
  <2>1. call'[th] = call[th]
    BY <1>6
  <2>2. Cardinality(FreshAddrs') + call[th].needed >= PoolSize
    BY <1>2, <1>3, <1>6
  <2> QED BY <1>6, <2>1, <2>2 DEF PoolInv
<1>7. CASE Cardinality(FreshAddrs) >= PoolSize
  BY <1>2, <1>3, <1>7 DEF PoolInv
<1> QED BY <1>4, <1>5, <1>6, <1>7 DEF PoolInv

\* A step that leaves the index alone keeps the pool.
LEMMA UnchangedKeepsPool == UNCHANGED vars => KeepsPool
BY DEF vars, KeepsPool, FreshAddrs

\* Committing a signature reserves the change; it stays in the pool, and the
\* source was not in it.
LEMMA CommitKeepsPool ==
  ASSUME TypeOK, NEW t \in TxID, NEW op \in Kind, Commit(t, op)
  PROVE  KeepsPool
<1>0. addresses \in [Addr -> AddressRecord] /\ TxFrom[t] \in Addr
  BY TxAssumption DEF TypeOK
<1>1. CASE op = "spend"
  <2>1. MarkSpendPendingAndReserveChange(TxFrom[t], TxChange[t], t)
    BY <1>1 DEF Commit
  <2> DEFINE recs == putRecord(TxFrom[t], [addresses[TxFrom[t]] EXCEPT !.State = "SPEND_PENDING",
                                                                        !.SpendTxID = t])
  <2>2. recs \in [Addr -> AddressRecord] /\ \A x \in Addr : x # TxFrom[t] => recs[x] = addresses[x]
    <3>1. addresses[TxFrom[t]] \in AddressRecord
      BY <1>0
    <3> QED BY <1>0, <3>1, SpendCommittedType DEF putRecord
  <2>3. addresses' = ReserveChange(recs, TxChange[t])
        /\ addresses[TxFrom[t]].State = "FUNDED"
    BY <2>1 DEF MarkSpendPendingAndReserveChange
  <2> HIDE DEF recs
  <2>4. \A x \in Addr : addresses'[x].State = recs[x].State
    BY <2>2, <2>3 DEF ReserveChange, AddressRecord
  <2> QED BY <2>2, <2>3, <2>4 DEF KeepsPool, FreshAddrs
<1>2. CASE op = "recovery"
  <2>1. MarkRecoveryPendingAndReserveChange(TxFrom[t], TxChange[t], t, TxInputs[t])
    BY <1>2 DEF Commit
  <2>2. \A x \in Addr : addresses'[x].State = addresses[x].State
    BY <1>0, <2>1, RecoveryFrame
  <2> QED BY <2>2 DEF KeepsPool, FreshAddrs
<1> QED BY <1>1, <1>2 DEF Kind

\* A purge takes an address that was SPENT.
LEMMA RetireKeepsPool ==
  ASSUME TypeOK, NEW a \in Addr, Retire(a)
  PROVE  KeepsPool
BY DEF TypeOK, Retire, putRecord, KeepsPool, FreshAddrs

\* A scan changes no state.
LEMMA ObserveKeepsPool ==
  ASSUME TypeOK, NEW a \in Addr, NEW current, NEW mature,
         ObserveRecoverableOutpoints(a, current, mature)
  PROVE  KeepsPool
<1> DEFINE rec == Reconciled(addresses[a], current, mature)
<1>1. addresses[a] \in AddressRecord
  BY DEF TypeOK
<1>2. rec.State = addresses[a].State
  BY <1>1 DEF Reconciled, AddressRecord
<1>3. addresses' = [addresses EXCEPT ![a] = rec]
  BY DEF ObserveRecoverableOutpoints, putRecord
<1> HIDE DEF rec
<1> QED BY <1>2, <1>3 DEF KeepsPool, FreshAddrs, TypeOK

\* Generating puts one more address into the pool: the index it takes had no
\* record.
LEMMA GenerateGrowsPool ==
  ASSUME TypeOK, IndexIsMonotonic, GenerateAddress
  PROVE  /\ Cardinality(FreshAddrs) \in Nat
         /\ Cardinality(FreshAddrs') = Cardinality(FreshAddrs) + 1
<1>1. next_index \in Addr /\ addresses[next_index].State = "NONE"
  BY MaxIndexAssumption DEF TypeOK, GenerateAddress, IndexIsMonotonic, Addr
<1>2. addresses' = [addresses EXCEPT ![next_index] = FreshRecord] /\ FreshRecord.State = "FRESH"
  BY DEF GenerateAddress, putRecord, FreshRecord, BlankRecord
<1>3. FreshAddrs' = FreshAddrs \cup {next_index} /\ next_index \notin FreshAddrs
  BY <1>1, <1>2 DEF FreshAddrs, TypeOK, Addr
<1>4. IsFiniteSet(Addr) /\ FreshAddrs \in SUBSET Addr
  BY MaxIndexAssumption, FS_Interval DEF Addr, FreshAddrs
<1>5. IsFiniteSet(FreshAddrs)
  BY <1>4, FS_Subset
<1> QED BY <1>3, <1>5, FS_AddElement, FS_CardinalityType

\* No caller finds a short pool that nobody is refilling: unless a refill is
\* under way or the last one warned that it failed, PoolSize addresses are there.
THEOREM PoolIsRefilled == SigningSpec => []PoolRefilled
<1>1. SigningInit => PoolInv
  BY DEF SigningInit, Idle, PoolInv
<1>2. /\ SigningTypeOK /\ CallMatches /\ TypeOK /\ IndexIsMonotonic /\ PoolInv
      /\ [SigningNext]_allVars
      => PoolInv'
  <2> SUFFICES ASSUME SigningTypeOK, CallMatches, TypeOK, IndexIsMonotonic, PoolInv,
                      [SigningNext]_allVars
               PROVE  PoolInv'
    OBVIOUS
  <2>0. /\ call \in [Thread -> Call] /\ PoolSize \in Nat
        /\ \A x \in Thread : call[x].needed \in Nat
    BY PoolAssumption, MaxIndexAssumption DEF SigningTypeOK, Call
  \* What is the same for every caller: it goes on from a step of its own, and
  \* the others stay.
  <2>a. ASSUME NEW th \in Thread, call[th].pc \notin {"count", "generate"}, KeepsPool,
               refillFailed' = refillFailed,
               \A x \in Thread : x # th => call'[x] = call[x]
        PROVE  PoolInv'
    BY <2>a, PoolFrame
  <2>b. ASSUME NEW th \in Thread, call'[th].pc = "count"
        PROVE  PoolInv'
    BY <2>b DEF PoolInv
  <2>c. \A th \in Thread : MayCall(th) => call[th].pc = "idle"
    BY DEF MayCall, Idle
  <2>d. \A th \in Thread : \A pc : Goto(th, pc) => \A x \in Thread : x # th => call'[x] = call[x]
    BY <2>0 DEF Goto
  <2>e. \A th \in Thread : Return(th) => \A x \in Thread : x # th => call'[x] = call[x]
    BY <2>0 DEF Return
  <2>1. ASSUME NEW th \in Thread, LockSignMu(th)
        PROVE PoolInv'
    <3>1. UNCHANGED vars /\ refillFailed' = refillFailed /\ call[th].pc = "lock"
      BY <2>1 DEF LockSignMu
    <3>2. \A x \in Thread : x # th => call'[x] = call[x]
      BY <2>d, <2>e, <2>1 DEF LockSignMu
    <3> QED BY <2>a, <3>1, <3>2, UnchangedKeepsPool
  <2>2. ASSUME NEW th \in Thread, CheckSource(th)
        PROVE PoolInv'
    <3>1. UNCHANGED vars /\ refillFailed' = refillFailed /\ call[th].pc = "source"
      BY <2>2 DEF CheckSource
    <3>2. \A x \in Thread : x # th => call'[x] = call[x]
      BY <2>d, <2>e, <2>2 DEF CheckSource, ReturnUnlocked
    <3> QED BY <2>a, <3>1, <3>2, UnchangedKeepsPool
  <2>3. ASSUME NEW th \in Thread, CheckChange(th)
        PROVE PoolInv'
    <3>1. UNCHANGED vars /\ refillFailed' = refillFailed /\ call[th].pc = "change"
      BY <2>3 DEF CheckChange
    <3>2. \A x \in Thread : x # th => call'[x] = call[x]
      BY <2>d, <2>e, <2>3 DEF CheckChange, ReturnUnlocked
    <3> QED BY <2>a, <3>1, <3>2, UnchangedKeepsPool
  <2>4. ASSUME NEW th \in Thread, SignOnly(th)
        PROVE PoolInv'
    <3>1. UNCHANGED vars /\ refillFailed' = refillFailed /\ call[th].pc = "sign"
      BY <2>4 DEF SignOnly
    <3>2. \A x \in Thread : x # th => call'[x] = call[x]
      BY <2>d, <2>e, <2>4 DEF SignOnly, ReturnUnlocked
    <3> QED BY <2>a, <3>1, <3>2, UnchangedKeepsPool
  <2>5. ASSUME NEW th \in Thread, SignAndCommit(th)
        PROVE PoolInv'
    <3>1. /\ call[th].pc = "sign" /\ call[th].op \in Kind /\ call[th].txid \in TxID
          /\ refillFailed' = refillFailed
          /\ \A x \in Thread : x # th => call'[x] = call[x]
      BY <2>d, <2>e, <2>5 DEF SignAndCommit, ReturnUnlocked, Kind, CallMatches
    <3>2. UNCHANGED vars \/ Commit(call[th].txid, call[th].op)
      BY <2>5 DEF SignAndCommit
    <3>3. KeepsPool
      BY <3>1, <3>2, UnchangedKeepsPool, CommitKeepsPool
    <3> QED BY <2>a, <3>1, <3>3
  <2>6. ASSUME NEW th \in Thread, ReturnRaw(th)
        PROVE PoolInv'
    <3>1. UNCHANGED vars /\ refillFailed' = refillFailed /\ call[th].pc = "return"
      BY <2>6 DEF ReturnRaw
    <3>2. \A x \in Thread : x # th => call'[x] = call[x]
      BY <2>d, <2>e, <2>6 DEF ReturnRaw, ReturnUnlocked
    <3> QED BY <2>a, <3>1, <3>2, UnchangedKeepsPool
  <2>7. ASSUME NEW th \in Thread, ConfirmSpend(th)
        PROVE PoolInv'
    <3>1. CASE Return(th) /\ UNCHANGED vars
      <4>1. /\ KeepsPool /\ call[th].pc = "confirm" /\ refillFailed' = refillFailed
            /\ \A x \in Thread : x # th => call'[x] = call[x]
        BY <2>e, <2>7, <3>1, UnchangedKeepsPool DEF ConfirmSpend
      <4> QED BY <2>a, <4>1
    <3>2. CASE call' = [call EXCEPT ![th].op = "fill", ![th].pc = "count"]
      <4>1. call'[th].pc = "count"
        BY <2>0, <3>2 DEF Call
      <4> QED BY <2>b, <4>1
    <3> QED BY <2>7, <3>1, <3>2 DEF ConfirmSpend
  <2>8. ASSUME NEW th \in Thread, CountAvailableFresh(th)
        PROVE PoolInv'
    <3>1. /\ AvailableCount \in Nat /\ Cardinality(FreshAddrs) \in Nat
          /\ AvailableCount <= Cardinality(FreshAddrs)
      BY AvailableIsCounted, AvailableIsFresh
    <3>2. FreshAddrs' = FreshAddrs
      BY <2>8 DEF CountAvailableFresh, vars, FreshAddrs
    <3>3. CASE AvailableCount >= PoolSize
      <4>1. Cardinality(FreshAddrs) >= PoolSize
        BY <2>0, <3>1, <3>3
      <4> QED BY <3>2, <4>1 DEF PoolInv
    <3>4. CASE ~(AvailableCount >= PoolSize)
      <4>1. call' = [call EXCEPT ![th].pc = "generate", ![th].needed = PoolSize - AvailableCount]
        BY <2>8, <3>4 DEF CountAvailableFresh
      <4>2. call'[th].pc = "generate" /\ call'[th].needed = PoolSize - AvailableCount
        BY <2>0, <4>1 DEF Call
      <4>3. Cardinality(FreshAddrs) + (PoolSize - AvailableCount) >= PoolSize
        BY <2>0, <3>1
      <4> QED BY <3>2, <4>2, <4>3 DEF PoolInv
    <3> QED BY <3>3, <3>4
  <2>9. ASSUME NEW th \in Thread, PreGenerate(th)
        PROVE PoolInv'
    <3>1. /\ GenerateAddress
          /\ IF call[th].needed = 1 THEN Return(th)
                                    ELSE call' = [call EXCEPT ![th].needed = @ - 1]
      BY <2>9 DEF PreGenerate
    <3>2. call[th].pc = "generate" /\ call[th].needed > 0
      BY <2>9 DEF PreGenerate, CallMatches
    <3>3. /\ Cardinality(FreshAddrs) \in Nat
          /\ Cardinality(FreshAddrs') = Cardinality(FreshAddrs) + 1
      BY <3>1, GenerateGrowsPool
    <3>4. \A x \in Thread : x # th => call'[x] = call[x]
      BY <2>0, <2>e, <3>1
    <3>5. CASE refillFailed
      BY <2>9, <3>5 DEF PreGenerate, PoolInv
    <3>6. CASE \E x \in Thread : call[x].pc = "count"
      BY <3>2, <3>4, <3>6 DEF PoolInv
    <3>7. CASE Cardinality(FreshAddrs) >= PoolSize
      <4>1. Cardinality(FreshAddrs') >= PoolSize
        BY <2>0, <3>3, <3>7
      <4> QED BY <4>1 DEF PoolInv
    <3>8. ASSUME NEW x \in Thread, call[x].pc = "generate",
                 Cardinality(FreshAddrs) + call[x].needed >= PoolSize
          PROVE  PoolInv'
      <4>1. CASE x # th
        <5>1. call'[x] = call[x]
          BY <3>4, <4>1
        <5>2. Cardinality(FreshAddrs') + call[x].needed >= PoolSize
          BY <2>0, <3>3, <3>8
        <5> QED BY <3>8, <5>1, <5>2 DEF PoolInv
      <4>2. CASE x = th /\ call[th].needed = 1
        <5>1. Cardinality(FreshAddrs') >= PoolSize
          BY <2>0, <3>3, <3>8, <4>2
        <5> QED BY <5>1 DEF PoolInv
      <4>3. CASE x = th /\ call[th].needed # 1
        <5>1. call'[th].pc = "generate" /\ call'[th].needed = call[th].needed - 1
          BY <2>0, <3>1, <3>2, <4>3 DEF Call
        <5>2. Cardinality(FreshAddrs') + (call[th].needed - 1) >= PoolSize
          BY <2>0, <3>3, <3>8, <4>3
        <5> QED BY <5>1, <5>2 DEF PoolInv
      <4> QED BY <4>1, <4>2, <4>3
    <3> QED BY <3>5, <3>6, <3>7, <3>8 DEF PoolInv
  <2>10. ASSUME NEW th \in Thread, NEW op, NEW pc, NEW a, NEW t, Begin(th, op, pc, a, t), KeepsPool,
                refillFailed' = refillFailed
        PROVE PoolInv'
    <3>1. call[th].pc = "idle" /\ \A x \in Thread : x # th => call'[x] = call[x]
      BY <2>0, <2>c, <2>10, BeginFrame DEF Begin
    <3> QED BY <2>a, <2>10, <3>1
  <2>11. ASSUME NEW th \in Thread, NEW op, NEW a, NEW t, Begin(th, op, "count", a, t)
        PROVE PoolInv'
    BY <2>0, <2>b, <2>11, BeginFrame
  <2>12. ASSUME NEW th \in Thread, NEW t \in TxID, NEW kind \in Kind, CallSignP2QPKInputs(th, t, kind)
        PROVE PoolInv'
    BY <2>10, <2>12, UnchangedKeepsPool DEF CallSignP2QPKInputs
  <2>13. ASSUME NEW th \in Thread, NEW t \in TxID, CallSignTransaction(th, t)
        PROVE PoolInv'
    BY <2>10, <2>13, UnchangedKeepsPool DEF CallSignTransaction
  <2>14. ASSUME NEW th \in Thread, NEW a \in Addr, CallSignMessage(th, a)
        PROVE PoolInv'
    BY <2>10, <2>14, UnchangedKeepsPool DEF CallSignMessage
  <2>15. ASSUME NEW th \in Thread, NEW a \in Addr, ObserveFunding(th, a)
        PROVE PoolInv'
    BY <2>11, <2>15 DEF ObserveFunding
  <2>16. ASSUME NEW th \in Thread, NEW a \in Addr, OnConfirmation(th, a)
        PROVE PoolInv'
    BY <2>11, <2>16 DEF OnConfirmation
  <2>17. ASSUME NEW th \in Thread, NEW a \in Addr, PurgeSpentKey(th, a)
        PROVE PoolInv'
    <3>1. KeepsPool /\ call' = call /\ refillFailed' = refillFailed
      BY <2>17, RetireKeepsPool DEF PurgeSpentKey, walletVars
    <3> QED BY <3>1, PoolFrame
  <2>18. ASSUME NEW th \in Thread, NEW a \in Addr, NEW t \in TxID, ObserveSpendConfirmation(th, a, t)
        PROVE PoolInv'
    BY <2>10, <2>18, UnchangedKeepsPool DEF ObserveSpendConfirmation
  <2>19. ASSUME NEW th \in Thread, NEW a \in Addr, NEW mature \in BOOLEAN,
                NEW current \in SUBSET OutpointsOf(a),
                ObserveRecoverableBalance(th, a, current, mature)
        PROVE PoolInv'
    <3>1. KeepsPool /\ call' = call /\ refillFailed' = refillFailed
      BY <2>19, ObserveKeepsPool DEF ObserveRecoverableBalance, walletVars
    <3> QED BY <3>1, PoolFrame
  <2>20. ASSUME NEW th \in Thread, CrashAndOpen(th)
        PROVE PoolInv'
    <3>1. call'[th].pc = "count"
      BY <2>20 DEF CrashAndOpen, Idle
    <3> QED BY <2>b, <3>1
  <2>21. ASSUME NEW th \in Thread, RefillFails(th)
        PROVE PoolInv'
    BY <2>21 DEF RefillFails, PoolInv
  <2>22. CASE UNCHANGED allVars
    <3>1. KeepsPool /\ call' = call /\ refillFailed' = refillFailed
      BY <2>22, UnchangedKeepsPool DEF allVars, walletVars
    <3> QED BY <3>1, PoolFrame
  <2> QED BY <2>1, <2>2, <2>3, <2>4, <2>5, <2>6, <2>7, <2>8, <2>9, <2>12, <2>13, <2>14, <2>15,
             <2>16, <2>17, <2>18, <2>19, <2>20, <2>21, <2>22 DEF SigningNext, Step
<1>3. PoolInv => PoolRefilled
  BY DEF PoolInv, PoolRefilled, FreshAddrs
<1>4. IInv => IndexIsMonotonic
  BY DEF IInv, ChangeInv, SpendInv
<1> QED BY <1>1, <1>2, <1>3, <1>4, SigningTypeCorrect, SigningUsesIndex, IndexSafe, PTL
        DEF SigningSpec
=============================================================================
