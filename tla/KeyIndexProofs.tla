--------------------------- MODULE KeyIndexProofs ---------------------------
(* Theorems about the address index, for every value of its constants.        *)
EXTENDS KeyIndex, TLAPS

\* Reserving a change address, or none, changes one flag of one record.
LEMMA ReserveChangeType ==
  ASSUME NEW recs \in [Addr -> AddressRecord], NEW c
  PROVE  ReserveChange(recs, c) \in [Addr -> AddressRecord]
<1>1. ASSUME NEW rec \in AddressRecord PROVE [rec EXCEPT !.Reserved = TRUE] \in AddressRecord
  BY DEF AddressRecord
<1> QED BY <1>1 DEF ReserveChange

\* Committing a spend leaves a well-formed record.
LEMMA SpendCommittedType ==
  ASSUME NEW rec \in AddressRecord, NEW t \in TxID
  PROVE  [rec EXCEPT !.State = "SPEND_PENDING", !.SpendTxID = t] \in AddressRecord
BY DEF AddressRecord, AddressState

\* Committing a recovery leaves a well-formed record.
LEMMA RecoveryCommittedType ==
  ASSUME NEW rec \in AddressRecord, NEW t \in TxID, NEW outpoints \in SUBSET Outpoint
  PROVE  RecoveryCommitted(rec, t, outpoints) \in AddressRecord
<1> DEFINE remaining == rec.RecoverableOutpoints \ outpoints
           has       == remaining # {}
<1>1. remaining \in SUBSET Outpoint /\ has \in BOOLEAN
  BY DEF AddressRecord
<1>2. RecoveryCommitted(rec, t, outpoints) =
        [rec EXCEPT !.RecoverableOutpoints = remaining, !.HasRecoverableBalance = has,
                    !.RecoveryPendingOutpoints = outpoints, !.RecoverySpendTxID = t]
  BY DEF RecoveryCommitted
<1> HIDE DEF remaining, has
<1> QED BY <1>1, <1>2 DEF AddressRecord

\* A scan leaves a well-formed record.
LEMMA ReconciledType ==
  ASSUME NEW rec \in AddressRecord, NEW current \in SUBSET Outpoint, NEW mature \in BOOLEAN
  PROVE  Reconciled(rec, current, mature) \in AddressRecord
<1> DEFINE has   == mature /\ current # {} /\ ~LockHeld(rec, current)
           offer == IF has THEN current ELSE {}
           lock  == IF LockHeld(rec, current) THEN rec.RecoveryPendingOutpoints ELSE {}
           by    == IF LockHeld(rec, current) THEN rec.RecoverySpendTxID ELSE NoTx
<1>1. /\ has \in BOOLEAN /\ offer \in SUBSET Outpoint
      /\ lock \in SUBSET Outpoint /\ by \in TxID \cup {NoTx}
  BY DEF AddressRecord
<1>2. Reconciled(rec, current, mature) =
        [rec EXCEPT !.HasRecoverableBalance = has, !.RecoverableOutpoints = offer,
                    !.RecoveryPendingOutpoints = lock, !.RecoverySpendTxID = by]
  BY DEF Reconciled
<1> HIDE DEF has, offer, lock, by
<1> QED BY <1>1, <1>2 DEF AddressRecord

\* Every method of the index keeps the shape of the database.
LEMMA TypeStep ==
  TypeOK /\ [Next]_vars
    => TypeOK'
<1> SUFFICES ASSUME TypeOK, [Next]_vars PROVE TypeOK'
  OBVIOUS
<1>0. addresses \in [Addr -> AddressRecord] /\ next_index \in 0 .. MaxIndex
  BY DEF TypeOK
<1>1. CASE GenerateAddress
  <2>1. FreshRecord \in AddressRecord
    BY DEF FreshRecord, BlankRecord, AddressRecord, AddressState
  <2> QED BY <1>0, <1>1, <2>1, MaxIndexAssumption DEF TypeOK, GenerateAddress, putRecord, Addr
<1>2. ASSUME NEW a \in Addr, MarkFunded(a) PROVE TypeOK'
  <2>1. Funded(addresses[a]) \in AddressRecord
    BY <1>0 DEF Funded, AddressRecord, AddressState
  <2>2. addresses' \in [Addr -> AddressRecord]
    BY <1>0, <1>2, <2>1 DEF MarkFunded, putRecord
  <2> QED BY <1>2, <2>2 DEF TypeOK, MarkFunded
<1>3. ASSUME NEW a \in Addr, NEW D \in SUBSET DepositTx, NEW sats \in [D -> 0 .. MaxSats],
             NEW balanceSats, MarkFundedAndRecordIncoming(a, balanceSats, IncomingFor(a, sats))
      PROVE TypeOK'
  <2>1. IncomingFor(a, sats) \subseteq IncomingRecord
    BY DEF IncomingFor, IncomingRecord
  <2>2. transactions' \subseteq IncomingRecord \cup OutgoingRecord
    BY <1>3, <2>1 DEF TypeOK, MarkFundedAndRecordIncoming, putHistoryRecords
  <2>3. Funded(addresses[a]) \in AddressRecord
    BY <1>0 DEF Funded, AddressRecord, AddressState
  <2>4. addresses' \in [Addr -> AddressRecord]
    BY <1>0, <1>3, <2>3 DEF MarkFundedAndRecordIncoming, putRecord
  <2> QED BY <1>3, <2>2, <2>4 DEF TypeOK, MarkFundedAndRecordIncoming
<1>4. ASSUME NEW t \in TxID, MarkSpendPendingAndReserveChange(TxFrom[t], TxChange[t], t)
      PROVE TypeOK'
  <2>1. TxFrom[t] \in Addr
    BY TxAssumption
  <2>2. putRecord(TxFrom[t], [addresses[TxFrom[t]] EXCEPT !.State = "SPEND_PENDING",
                                                          !.SpendTxID = t])
          \in [Addr -> AddressRecord]
    <3>1. [addresses[TxFrom[t]] EXCEPT !.State = "SPEND_PENDING", !.SpendTxID = t]
            \in AddressRecord
      BY <1>0, <2>1, SpendCommittedType
    <3> QED BY <1>0, <2>1, <3>1 DEF putRecord
  <2>3. addresses' \in [Addr -> AddressRecord]
    BY <1>4, <2>2, ReserveChangeType DEF MarkSpendPendingAndReserveChange
  <2>4. pending_broadcasts' \subseteq PendingBroadcast
    BY <1>4, <2>1 DEF TypeOK, MarkSpendPendingAndReserveChange, putPending, PendingBroadcast, Kind
  <2>5. signed' \subseteq SignedTx
    BY <1>4 DEF TypeOK, MarkSpendPendingAndReserveChange, SignedTx, Kind
  <2> QED BY <1>4, <2>3, <2>4, <2>5 DEF TypeOK, MarkSpendPendingAndReserveChange
<1>5. ASSUME NEW t \in TxID,
             MarkRecoveryPendingAndReserveChange(TxFrom[t], TxChange[t], t, TxInputs[t])
      PROVE TypeOK'
  <2>1. TxFrom[t] \in Addr /\ TxInputs[t] \in SUBSET Outpoint
    BY TxAssumption
  <2>2. RecoveryCommitted(addresses[TxFrom[t]], t, TxInputs[t]) \in AddressRecord
    BY <1>0, <2>1, RecoveryCommittedType
  <2>3. putRecord(TxFrom[t], RecoveryCommitted(addresses[TxFrom[t]], t, TxInputs[t]))
          \in [Addr -> AddressRecord]
    BY <1>0, <2>1, <2>2 DEF putRecord
  <2>4. addresses' \in [Addr -> AddressRecord]
    <3>1. addresses' = ReserveChange(putRecord(TxFrom[t],
                         RecoveryCommitted(addresses[TxFrom[t]], t, TxInputs[t])), TxChange[t])
      BY <1>5 DEF MarkRecoveryPendingAndReserveChange
    <3> QED BY <2>3, <3>1, ReserveChangeType
  <2>5. pending_broadcasts' \subseteq PendingBroadcast
    BY <1>5, <2>1 DEF TypeOK, MarkRecoveryPendingAndReserveChange, putPending, PendingBroadcast, Kind
  <2>6. signed' \subseteq SignedTx
    BY <1>5 DEF TypeOK, MarkRecoveryPendingAndReserveChange, SignedTx, Kind
  <2> QED BY <1>5, <2>4, <2>5, <2>6 DEF TypeOK, MarkRecoveryPendingAndReserveChange
<1>6. ASSUME NEW a \in Addr, NEW mature \in BOOLEAN, NEW current \in SUBSET OutpointsOf(a),
             ObserveRecoverableOutpoints(a, current, mature)
      PROVE TypeOK'
  <2>1. current \in SUBSET Outpoint
    BY DEF OutpointsOf
  <2>2. addresses[a].RecoverySpendTxID \in TxID \cup {NoTx}
    BY <1>0 DEF AddressRecord
  <2>3. Reconciled(addresses[a], current, mature) \in AddressRecord
    BY <1>0, <2>1, ReconciledType
  <2>4. addresses' \in [Addr -> AddressRecord]
    BY <1>0, <1>6, <2>3 DEF ObserveRecoverableOutpoints, putRecord
  <2> QED BY <1>6, <2>2, <2>4 DEF TypeOK, ObserveRecoverableOutpoints
<1>7. ASSUME NEW a \in Addr, MarkSpent(a) PROVE TypeOK'
  <2>1. [addresses[a] EXCEPT !.State = "SPENT"] \in AddressRecord
    BY <1>0 DEF AddressRecord, AddressState
  <2>2. addresses' \in [Addr -> AddressRecord]
    BY <1>0, <1>7, <2>1 DEF MarkSpent, putRecord
  <2> QED BY <1>7, <2>2 DEF TypeOK, MarkSpent
<1>8. ASSUME NEW a \in Addr, Retire(a) PROVE TypeOK'
  <2>1. [addresses[a] EXCEPT !.State = "RETIRED", !.EncSeedBlob = FALSE] \in AddressRecord
    BY <1>0 DEF AddressRecord, AddressState
  <2>2. addresses' \in [Addr -> AddressRecord]
    BY <1>0, <1>8, <2>1 DEF Retire, putRecord
  <2> QED BY <1>8, <2>2 DEF TypeOK, Retire
<1>9. ASSUME NEW rec \in OutgoingRecord, PutTransaction(rec) PROVE TypeOK'
  BY <1>9 DEF TypeOK, PutTransaction, putHistoryRecords
<1>10. ASSUME NEW t \in SignedTxIDs, DeletePendingBroadcast(t) PROVE TypeOK'
  BY <1>10 DEF TypeOK, DeletePendingBroadcast
<1>11. CASE UNCHANGED vars
  BY <1>11 DEF TypeOK, vars
<1> QED BY <1>1, <1>2, <1>3, <1>4, <1>5, <1>6, <1>7, <1>8, <1>9, <1>10, <1>11 DEF Next

\* Every record, every history entry and every stored broadcast keeps its shape
\* through every method of the index.
THEOREM TypeCorrect == Spec => []TypeOK
<1>1. Init => TypeOK
  BY MaxIndexAssumption DEF Init, TypeOK, BlankRecord, AddressRecord
<1> QED BY <1>1, TypeStep, PTL DEF Spec

\* What committing a recovery changes: the recovery fields of the source and the
\* reservation of the change address, and nothing else of any record.
LEMMA RecoveryFrame ==
  ASSUME addresses \in [Addr -> AddressRecord], NEW t \in TxID,
         MarkRecoveryPendingAndReserveChange(TxFrom[t], TxChange[t], t, TxInputs[t])
  PROVE  \A x \in Addr :
           /\ addresses'[x].State = addresses[x].State
           /\ addresses'[x].EncSeedBlob = addresses[x].EncSeedBlob
           /\ addresses'[x].SpendTxID = addresses[x].SpendTxID
           /\ x = TxChange[t] => addresses'[x].Reserved
           /\ x # TxChange[t] => addresses'[x].Reserved = addresses[x].Reserved
           /\ x = TxFrom[t] =>
                /\ addresses'[x].RecoverableOutpoints = addresses[x].RecoverableOutpoints \ TxInputs[t]
                /\ addresses'[x].HasRecoverableBalance <=> addresses'[x].RecoverableOutpoints # {}
                /\ addresses'[x].RecoveryPendingOutpoints = TxInputs[t]
                /\ addresses'[x].RecoverySpendTxID = t
           /\ x # TxFrom[t] =>
                /\ addresses'[x].RecoverableOutpoints = addresses[x].RecoverableOutpoints
                /\ addresses'[x].HasRecoverableBalance = addresses[x].HasRecoverableBalance
                /\ addresses'[x].RecoveryPendingOutpoints = addresses[x].RecoveryPendingOutpoints
                /\ addresses'[x].RecoverySpendTxID = addresses[x].RecoverySpendTxID
<1> DEFINE f   == TxFrom[t]
           rec == RecoveryCommitted(addresses[f], t, TxInputs[t])
<1>1. f \in Addr /\ TxInputs[t] \in SUBSET Outpoint
  BY TxAssumption
<1>2. rec \in AddressRecord
  BY <1>1, RecoveryCommittedType
<1>3. /\ rec.State = addresses[f].State
      /\ rec.EncSeedBlob = addresses[f].EncSeedBlob
      /\ rec.SpendTxID = addresses[f].SpendTxID
      /\ rec.Reserved = addresses[f].Reserved
      /\ rec.RecoverableOutpoints = addresses[f].RecoverableOutpoints \ TxInputs[t]
      /\ rec.HasRecoverableBalance <=> rec.RecoverableOutpoints # {}
      /\ rec.RecoveryPendingOutpoints = TxInputs[t]
      /\ rec.RecoverySpendTxID = t
  <2>1. addresses[f] \in AddressRecord
    BY <1>1
  <2> QED BY <2>1 DEF RecoveryCommitted, AddressRecord
<1>4. addresses' = ReserveChange([addresses EXCEPT ![f] = rec], TxChange[t])
  BY DEF MarkRecoveryPendingAndReserveChange, putRecord
<1> HIDE DEF rec, f
<1>5. \A x \in Addr : [addresses EXCEPT ![f] = rec][x] \in AddressRecord
  BY <1>1, <1>2
<1>6. \A x \in Addr : addresses'[x] =
        IF x = TxChange[t] THEN [[addresses EXCEPT ![f] = rec][x] EXCEPT !.Reserved = TRUE]
                           ELSE [addresses EXCEPT ![f] = rec][x]
  BY <1>4 DEF ReserveChange
<1>7. TxChange[t] # f
  BY TxAssumption DEF f
<1>8. TAKE x \in Addr
<1>9. CASE x = TxChange[t]
  <2>1. addresses'[x] = [addresses[x] EXCEPT !.Reserved = TRUE]
    BY <1>1, <1>6, <1>7, <1>9
  <2> QED BY <1>7, <1>9, <2>1 DEF f, AddressRecord
<1>10. CASE x # TxChange[t] /\ x = f
  BY <1>1, <1>3, <1>6, <1>10 DEF f
<1>11. CASE x # TxChange[t] /\ x # f
  BY <1>1, <1>6, <1>11 DEF f
<1> QED BY <1>9, <1>10, <1>11

\* A method creates the record at next_index, or no record.
LEMMA IndexInOrderStep ==
  TypeOK /\ IndexIsMonotonic /\ [Next]_vars
    => IndexIsMonotonic'
<1> SUFFICES ASSUME TypeOK, IndexIsMonotonic, [Next]_vars PROVE IndexIsMonotonic'
  OBVIOUS
<1>0. addresses \in [Addr -> AddressRecord] /\ next_index \in 0 .. MaxIndex /\ MaxIndex \in Nat
  BY MaxIndexAssumption DEF TypeOK
<1>1. CASE GenerateAddress
  BY <1>0, <1>1 DEF GenerateAddress, putRecord, FreshRecord, BlankRecord, IndexIsMonotonic, Addr
<1>2. ASSUME NEW a \in Addr, MarkFunded(a)
      PROVE IndexIsMonotonic'
  BY <1>0, <1>2 DEF MarkFunded, putRecord, Funded, IndexIsMonotonic, Addr
<1>3. ASSUME NEW a \in Addr, NEW D \in SUBSET DepositTx, NEW sats \in [D -> 0 .. MaxSats],
             NEW balanceSats, MarkFundedAndRecordIncoming(a, balanceSats, IncomingFor(a, sats))
      PROVE IndexIsMonotonic'
  BY <1>0, <1>3 DEF MarkFundedAndRecordIncoming, putRecord, Funded, IndexIsMonotonic, Addr
<1>4. ASSUME NEW t \in TxID, MarkSpendPendingAndReserveChange(TxFrom[t], TxChange[t], t)
      PROVE IndexIsMonotonic'
  BY <1>0, <1>4 DEF MarkSpendPendingAndReserveChange, putRecord, ReserveChange, IndexIsMonotonic, Addr
<1>5. ASSUME NEW t \in TxID,
             MarkRecoveryPendingAndReserveChange(TxFrom[t], TxChange[t], t, TxInputs[t])
      PROVE IndexIsMonotonic'
  BY <1>0, <1>5, RecoveryFrame, SMTT(20) DEF MarkRecoveryPendingAndReserveChange, IndexIsMonotonic
<1>6. ASSUME NEW a \in Addr, NEW mature \in BOOLEAN, NEW current \in SUBSET OutpointsOf(a),
             ObserveRecoverableOutpoints(a, current, mature)
      PROVE IndexIsMonotonic'
  BY <1>0, <1>6 DEF ObserveRecoverableOutpoints, putRecord, Reconciled, IndexIsMonotonic, Addr
<1>7. ASSUME NEW a \in Addr, MarkSpent(a)
      PROVE IndexIsMonotonic'
  BY <1>0, <1>7 DEF MarkSpent, putRecord, IndexIsMonotonic, Addr
<1>8. ASSUME NEW a \in Addr, Retire(a)
      PROVE IndexIsMonotonic'
  BY <1>0, <1>8 DEF Retire, putRecord, IndexIsMonotonic, Addr
<1>9. ASSUME NEW rec \in OutgoingRecord, PutTransaction(rec)
      PROVE IndexIsMonotonic'
  BY <1>0, <1>9 DEF PutTransaction, IndexIsMonotonic, Addr
<1>10. ASSUME NEW t \in SignedTxIDs, DeletePendingBroadcast(t)
      PROVE IndexIsMonotonic'
  BY <1>0, <1>10 DEF DeletePendingBroadcast, IndexIsMonotonic, Addr
<1>11. CASE UNCHANGED vars
  BY <1>0, <1>11 DEF vars, IndexIsMonotonic, Addr
<1> QED BY <1>1, <1>2, <1>3, <1>4, <1>5, <1>6, <1>7, <1>8, <1>9, <1>10, <1>11 DEF Next

\* Indexes are handed out in order: a record exists exactly below next_index.
THEOREM IndexInOrder == Spec => []IndexIsMonotonic
<1>1. Init => IndexIsMonotonic
  BY MaxIndexAssumption DEF Init, IndexIsMonotonic, BlankRecord, Addr
<1> QED BY <1>1, IndexInOrderStep, TypeCorrect, PTL DEF Spec

\* A signed spend is the one its source names, so a source signs at most one.
LEMMA SpendRecordedIsEnough == TypeOK /\ SpendRecorded => OneSpendPerKey
BY DEF SpendRecorded, OneSpendPerKey, Signed, TypeOK, SignedTx, Kind

\* Only a signing sets the spend of an address, and only of a FUNDED one.
LEMMA SpendStep ==
  TypeOK /\ IndexIsMonotonic /\ SpendRecorded /\ [Next]_vars
    => SpendRecorded'
<1> SUFFICES ASSUME TypeOK, IndexIsMonotonic, SpendRecorded, [Next]_vars PROVE SpendRecorded'
  OBVIOUS
<1>0. /\ addresses \in [Addr -> AddressRecord]
      /\ \A t \in TxID : TxFrom[t] \in Addr /\ t # NoTx
  BY TxAssumption DEF TypeOK
<1>1. CASE GenerateAddress
  <2>1. next_index \in Addr /\ addresses[next_index].State = "NONE"
    BY <1>1, MaxIndexAssumption DEF TypeOK, GenerateAddress, IndexIsMonotonic, Addr
  <2>2. addresses[next_index].SpendTxID = NoTx
    BY <2>1 DEF SpendRecorded
  <2>3. FreshRecord.State = "FRESH" /\ FreshRecord.SpendTxID = NoTx
    BY DEF FreshRecord, BlankRecord
  <2> QED BY <1>0, <1>1, <2>1, <2>2, <2>3 DEF GenerateAddress, putRecord, SpendRecorded, Signed
<1>2. ASSUME NEW a \in Addr, MarkFunded(a)
      PROVE SpendRecorded'
  BY <1>0, <1>2 DEF MarkFunded, putRecord, Funded, SpendRecorded, Signed
<1>3. ASSUME NEW a \in Addr, NEW D \in SUBSET DepositTx, NEW sats \in [D -> 0 .. MaxSats],
             NEW balanceSats, MarkFundedAndRecordIncoming(a, balanceSats, IncomingFor(a, sats))
      PROVE SpendRecorded'
  BY <1>0, <1>3 DEF MarkFundedAndRecordIncoming, putRecord, Funded, SpendRecorded, Signed
<1>4. ASSUME NEW t \in TxID, MarkSpendPendingAndReserveChange(TxFrom[t], TxChange[t], t)
      PROVE SpendRecorded'
  BY <1>0, <1>4 DEF MarkSpendPendingAndReserveChange, putRecord, ReserveChange, SpendRecorded, Signed
<1>5. ASSUME NEW t \in TxID,
             MarkRecoveryPendingAndReserveChange(TxFrom[t], TxChange[t], t, TxInputs[t])
      PROVE SpendRecorded'
  BY <1>0, <1>5, RecoveryFrame, SMTT(20) DEF MarkRecoveryPendingAndReserveChange, SpendRecorded, Signed
<1>6. ASSUME NEW a \in Addr, NEW mature \in BOOLEAN, NEW current \in SUBSET OutpointsOf(a),
             ObserveRecoverableOutpoints(a, current, mature)
      PROVE SpendRecorded'
  BY <1>0, <1>6 DEF ObserveRecoverableOutpoints, putRecord, Reconciled, SpendRecorded, Signed
<1>7. ASSUME NEW a \in Addr, MarkSpent(a)
      PROVE SpendRecorded'
  BY <1>0, <1>7 DEF MarkSpent, putRecord, SpendRecorded, Signed
<1>8. ASSUME NEW a \in Addr, Retire(a)
      PROVE SpendRecorded'
  BY <1>0, <1>8 DEF Retire, putRecord, SpendRecorded, Signed
<1>9. ASSUME NEW rec \in OutgoingRecord, PutTransaction(rec)
      PROVE SpendRecorded'
  BY <1>0, <1>9 DEF PutTransaction, SpendRecorded, Signed
<1>10. ASSUME NEW t \in SignedTxIDs, DeletePendingBroadcast(t)
      PROVE SpendRecorded'
  BY <1>0, <1>10 DEF DeletePendingBroadcast, SpendRecorded, Signed
<1>11. CASE UNCHANGED vars
  BY <1>0, <1>11 DEF vars, SpendRecorded, Signed
<1> QED BY <1>1, <1>2, <1>3, <1>4, <1>5, <1>6, <1>7, <1>8, <1>9, <1>10, <1>11 DEF Next

\* A key signs one spending transaction, ever: the address that signs is FUNDED,
\* hence names no spend yet, and from then on it names the one it signed.
THEOREM SpendSafe == Spec => []SpendInv
<1>1. Init => SpendRecorded
  BY TxAssumption DEF Init, SpendRecorded, BlankRecord, Signed
<1> QED BY <1>1, SpendStep, SpendRecordedIsEnough, TypeCorrect, IndexInOrder, PTL DEF Spec, SpendInv

\* What signing adds to the set of signed txids.
LEMMA SignedGrows ==
  ASSUME NEW t, NEW k, signed' = signed \cup {[TxID |-> t, Kind |-> k]}
  PROVE  SignedTxIDs' = SignedTxIDs \cup {t}
<1> DEFINE r == [TxID |-> t, Kind |-> k]
<1>1. r.TxID = t
  OBVIOUS
<1> HIDE DEF r
<1> QED BY <1>1 DEF SignedTxIDs, r

\* A reservation is made by a signing, and ends when its address is credited.
LEMMA ChangeStep ==
  TypeOK /\ IndexIsMonotonic /\ ChangePromisedOnce /\ ReservedIsOwed /\ ChangeHeld /\ [Next]_vars
    => (ChangePromisedOnce /\ ReservedIsOwed /\ ChangeHeld)'
<1> SUFFICES ASSUME TypeOK, IndexIsMonotonic, ChangePromisedOnce, ReservedIsOwed, ChangeHeld, [Next]_vars
             PROVE  ChangePromisedOnce' /\ ReservedIsOwed' /\ ChangeHeld'
  OBVIOUS
<1>0. /\ addresses \in [Addr -> AddressRecord]
      /\ \A t \in TxID : TxFrom[t] \in Addr /\ TxChange[t] \in Addr \cup {NoAddr}
      /\ NoAddr \notin Addr
      /\ SignedTxIDs \subseteq TxID
      /\ ReservedIsOwed /\ ChangeHeld
      /\ \A t1, t2 \in SignedTxIDs :
            TxChange[t1] = TxChange[t2] /\ TxChange[t1] # NoAddr => t1 = t2
  BY TxAssumption DEF TypeOK, SignedTxIDs, SignedTx, ChangePromisedOnce
<1>1. CASE GenerateAddress
  <2>1. next_index \in Addr /\ addresses[next_index].State = "NONE"
    BY <1>1, MaxIndexAssumption DEF TypeOK, GenerateAddress, IndexIsMonotonic, Addr
  <2>2. SignedTxIDs' = SignedTxIDs
    BY <1>1 DEF GenerateAddress, SignedTxIDs
  <2>3. ChangeHeld'
    BY <1>0, <1>1, <2>2, <2>1 DEF GenerateAddress, putRecord, FreshRecord, BlankRecord, ChangeHeld
  <2>4. ReservedIsOwed'
    BY <1>0, <1>1, <2>2, <2>1 DEF GenerateAddress, putRecord, FreshRecord, BlankRecord, ReservedIsOwed
  <2> QED BY <1>0, <2>2, <2>3, <2>4 DEF ChangePromisedOnce, ChangeHeld, AvailableFresh
<1>2. ASSUME NEW a \in Addr, MarkFunded(a)
      PROVE ChangePromisedOnce' /\ ReservedIsOwed' /\ ChangeHeld'
  <2>2. SignedTxIDs' = SignedTxIDs
    BY <1>2 DEF MarkFunded, SignedTxIDs
  <2>3. ChangeHeld'
    BY <1>0, <1>2, <2>2 DEF MarkFunded, putRecord, Funded, ChangeHeld
  <2>4. ReservedIsOwed'
    BY <1>0, <1>2, <2>2 DEF MarkFunded, putRecord, Funded, ReservedIsOwed
  <2> QED BY <1>0, <2>2, <2>3, <2>4 DEF ChangePromisedOnce, ChangeHeld, AvailableFresh
<1>3. ASSUME NEW a \in Addr, NEW D \in SUBSET DepositTx, NEW sats \in [D -> 0 .. MaxSats],
             NEW balanceSats, MarkFundedAndRecordIncoming(a, balanceSats, IncomingFor(a, sats))
      PROVE ChangePromisedOnce' /\ ReservedIsOwed' /\ ChangeHeld'
  <2>2. SignedTxIDs' = SignedTxIDs
    BY <1>3 DEF MarkFundedAndRecordIncoming, SignedTxIDs
  <2>3. ChangeHeld'
    BY <1>0, <1>3, <2>2 DEF MarkFundedAndRecordIncoming, putRecord, Funded, ChangeHeld
  <2>4. ReservedIsOwed'
    BY <1>0, <1>3, <2>2 DEF MarkFundedAndRecordIncoming, putRecord, Funded, ReservedIsOwed
  <2> QED BY <1>0, <2>2, <2>3, <2>4 DEF ChangePromisedOnce, ChangeHeld, AvailableFresh
<1>4. ASSUME NEW t \in TxID, MarkSpendPendingAndReserveChange(TxFrom[t], TxChange[t], t)
      PROVE ChangePromisedOnce' /\ ReservedIsOwed' /\ ChangeHeld'
  <2>1. SignedTxIDs' = SignedTxIDs \cup {t} /\ ChangeIsAvailable(TxChange[t])
    BY <1>4, SignedGrows DEF MarkSpendPendingAndReserveChange
  <2>2. \A u \in SignedTxIDs : TxChange[u] = TxChange[t] => TxChange[t] = NoAddr
    BY <1>0, <2>1 DEF ChangeIsAvailable, AvailableFresh, ChangeHeld
  <2>3. ChangeHeld'
    BY <1>0, <1>4, <2>1 DEF MarkSpendPendingAndReserveChange, putRecord, ReserveChange, ChangeIsAvailable, AvailableFresh, ChangeHeld
  <2>4. ReservedIsOwed'
    <3> SUFFICES ASSUME NEW a \in Addr, addresses'[a].Reserved
                 PROVE  addresses'[a].State = "FRESH" /\ \E u \in SignedTxIDs' : TxChange[u] = a
      BY DEF ReservedIsOwed
    <3>1. CASE a = TxChange[t]
      BY <1>0, <1>4, <2>1, <3>1 DEF MarkSpendPendingAndReserveChange, putRecord, ReserveChange, ChangeIsAvailable, AvailableFresh
    <3>2. CASE a # TxChange[t]
      <4>1. addresses[a].Reserved
        BY <1>0, <1>4, <3>2 DEF MarkSpendPendingAndReserveChange, putRecord, ReserveChange
      <4>2. addresses[a].State = "FRESH" /\ \E u \in SignedTxIDs : TxChange[u] = a
        BY <1>0, <4>1 DEF ReservedIsOwed
      <4> QED BY <1>0, <1>4, <2>1, <3>2, <4>2 DEF MarkSpendPendingAndReserveChange, putRecord, ReserveChange
    <3> QED BY <3>1, <3>2
  <2>5. \A t1, t2 \in SignedTxIDs' : TxChange[t1] = TxChange[t2] /\ TxChange[t1] # NoAddr => t1 = t2
    BY <1>0, <2>1, <2>2
  <2> QED BY <2>1, <2>3, <2>4, <2>5 DEF ChangePromisedOnce, ChangeHeld, AvailableFresh
<1>5. ASSUME NEW t \in TxID,
             MarkRecoveryPendingAndReserveChange(TxFrom[t], TxChange[t], t, TxInputs[t])
      PROVE ChangePromisedOnce' /\ ReservedIsOwed' /\ ChangeHeld'
  <2>1. SignedTxIDs' = SignedTxIDs \cup {t} /\ ChangeIsAvailable(TxChange[t])
    BY <1>5, SignedGrows DEF MarkRecoveryPendingAndReserveChange
  <2>2. \A u \in SignedTxIDs : TxChange[u] = TxChange[t] => TxChange[t] = NoAddr
    BY <1>0, <2>1 DEF ChangeIsAvailable, AvailableFresh, ChangeHeld
  <2>3. ChangeHeld'
    BY <1>0, <1>5, <2>1, RecoveryFrame, SMTT(20) DEF MarkRecoveryPendingAndReserveChange, ChangeIsAvailable, AvailableFresh, ChangeHeld
  <2>4. ReservedIsOwed'
    <3> SUFFICES ASSUME NEW a \in Addr, addresses'[a].Reserved
                 PROVE  addresses'[a].State = "FRESH" /\ \E u \in SignedTxIDs' : TxChange[u] = a
      BY DEF ReservedIsOwed
    <3>1. CASE a = TxChange[t]
      BY <1>0, <1>5, <2>1, <3>1, RecoveryFrame DEF MarkRecoveryPendingAndReserveChange, ChangeIsAvailable, AvailableFresh
    <3>2. CASE a # TxChange[t]
      <4>1. addresses[a].Reserved
        BY <1>0, <1>5, <3>2, RecoveryFrame DEF MarkRecoveryPendingAndReserveChange
      <4>2. addresses[a].State = "FRESH" /\ \E u \in SignedTxIDs : TxChange[u] = a
        BY <1>0, <4>1 DEF ReservedIsOwed
      <4> QED BY <1>0, <1>5, <2>1, <3>2, <4>2, RecoveryFrame DEF MarkRecoveryPendingAndReserveChange
    <3> QED BY <3>1, <3>2
  <2>5. \A t1, t2 \in SignedTxIDs' : TxChange[t1] = TxChange[t2] /\ TxChange[t1] # NoAddr => t1 = t2
    BY <1>0, <2>1, <2>2
  <2> QED BY <2>1, <2>3, <2>4, <2>5 DEF ChangePromisedOnce, ChangeHeld, AvailableFresh
<1>6. ASSUME NEW a \in Addr, NEW mature \in BOOLEAN, NEW current \in SUBSET OutpointsOf(a),
             ObserveRecoverableOutpoints(a, current, mature)
      PROVE ChangePromisedOnce' /\ ReservedIsOwed' /\ ChangeHeld'
  <2>2. SignedTxIDs' = SignedTxIDs
    BY <1>6 DEF ObserveRecoverableOutpoints, SignedTxIDs
  <2>3. ChangeHeld'
    BY <1>0, <1>6, <2>2 DEF ObserveRecoverableOutpoints, putRecord, Reconciled, ChangeHeld
  <2>4. ReservedIsOwed'
    BY <1>0, <1>6, <2>2 DEF ObserveRecoverableOutpoints, putRecord, Reconciled, ReservedIsOwed
  <2> QED BY <1>0, <2>2, <2>3, <2>4 DEF ChangePromisedOnce, ChangeHeld, AvailableFresh
<1>7. ASSUME NEW a \in Addr, MarkSpent(a)
      PROVE ChangePromisedOnce' /\ ReservedIsOwed' /\ ChangeHeld'
  <2>2. SignedTxIDs' = SignedTxIDs
    BY <1>7 DEF MarkSpent, SignedTxIDs
  <2>3. ChangeHeld'
    BY <1>0, <1>7, <2>2 DEF MarkSpent, putRecord, ChangeHeld
  <2>4. ReservedIsOwed'
    BY <1>0, <1>7, <2>2 DEF MarkSpent, putRecord, ReservedIsOwed
  <2> QED BY <1>0, <2>2, <2>3, <2>4 DEF ChangePromisedOnce, ChangeHeld, AvailableFresh
<1>8. ASSUME NEW a \in Addr, Retire(a)
      PROVE ChangePromisedOnce' /\ ReservedIsOwed' /\ ChangeHeld'
  <2>2. SignedTxIDs' = SignedTxIDs
    BY <1>8 DEF Retire, SignedTxIDs
  <2>3. ChangeHeld'
    BY <1>0, <1>8, <2>2 DEF Retire, putRecord, ChangeHeld
  <2>4. ReservedIsOwed'
    BY <1>0, <1>8, <2>2 DEF Retire, putRecord, ReservedIsOwed
  <2> QED BY <1>0, <2>2, <2>3, <2>4 DEF ChangePromisedOnce, ChangeHeld, AvailableFresh
<1>9. ASSUME NEW rec \in OutgoingRecord, PutTransaction(rec)
      PROVE ChangePromisedOnce' /\ ReservedIsOwed' /\ ChangeHeld'
  <2>2. SignedTxIDs' = SignedTxIDs
    BY <1>9 DEF PutTransaction, SignedTxIDs
  <2>3. ChangeHeld'
    BY <1>0, <1>9, <2>2 DEF PutTransaction, ChangeHeld
  <2>4. ReservedIsOwed'
    BY <1>0, <1>9, <2>2 DEF PutTransaction, ReservedIsOwed
  <2> QED BY <1>0, <2>2, <2>3, <2>4 DEF ChangePromisedOnce, ChangeHeld, AvailableFresh
<1>10. ASSUME NEW t \in SignedTxIDs, DeletePendingBroadcast(t)
      PROVE ChangePromisedOnce' /\ ReservedIsOwed' /\ ChangeHeld'
  <2>2. SignedTxIDs' = SignedTxIDs
    BY <1>10 DEF DeletePendingBroadcast, SignedTxIDs
  <2>3. ChangeHeld'
    BY <1>0, <1>10, <2>2 DEF DeletePendingBroadcast, ChangeHeld
  <2>4. ReservedIsOwed'
    BY <1>0, <1>10, <2>2 DEF DeletePendingBroadcast, ReservedIsOwed
  <2> QED BY <1>0, <2>2, <2>3, <2>4 DEF ChangePromisedOnce, ChangeHeld, AvailableFresh
<1>11. CASE UNCHANGED vars
  <2>2. SignedTxIDs' = SignedTxIDs
    BY <1>11 DEF vars, SignedTxIDs
  <2>3. ChangeHeld'
    BY <1>0, <1>11, <2>2 DEF vars, ChangeHeld
  <2>4. ReservedIsOwed'
    BY <1>0, <1>11, <2>2 DEF vars, ReservedIsOwed
  <2> QED BY <1>0, <2>2, <2>3, <2>4 DEF ChangePromisedOnce, ChangeHeld, AvailableFresh
<1> QED BY <1>1, <1>2, <1>3, <1>4, <1>5, <1>6, <1>7, <1>8, <1>9, <1>10, <1>11 DEF Next

\* An address is promised as change by one signed transaction: reservation holds
\* it from the signature until it is FUNDED, and FUNDED is never FRESH again.
THEOREM ChangeSafe == Spec => []ChangeInv
<1> DEFINE Core == ChangePromisedOnce /\ ReservedIsOwed /\ ChangeHeld
<1>1. Init => Core
  <2> SUFFICES ASSUME Init PROVE Core
    OBVIOUS
  <2>1. SignedTxIDs = {}
    BY DEF Init, SignedTxIDs
  <2>2. \A a \in Addr : ~addresses[a].Reserved
    BY DEF Init, BlankRecord
  <2> QED BY <2>1, <2>2 DEF ChangePromisedOnce, ReservedIsOwed, ChangeHeld
<1> QED BY <1>1, ChangeStep, TypeCorrect, IndexInOrder, PTL DEF Spec, ChangeInv

\* A broadcast is stored with its signing, and its source keeps naming it.
LEMMA PendingStep ==
  TypeOK /\ IndexIsMonotonic /\ SpendInv /\ PendingIsTracked /\ [Next]_vars
    => PendingIsTracked'
<1> SUFFICES ASSUME TypeOK, IndexIsMonotonic, SpendInv, PendingIsTracked, [Next]_vars
             PROVE  PendingIsTracked'
  OBVIOUS
<1>0. /\ addresses \in [Addr -> AddressRecord]
      /\ \A t \in TxID : TxFrom[t] \in Addr /\ t # NoTx
      /\ pending_broadcasts \subseteq PendingBroadcast
      /\ \A p \in pending_broadcasts : p.SourceAddress \in Addr /\ p.TxID \in TxID
      /\ \A a \in Addr : addresses[a].SpendTxID # NoTx
           <=> addresses[a].State \in {"SPEND_PENDING", "SPENT", "RETIRED"}
  BY TxAssumption DEF TypeOK, PendingBroadcast, SpendInv, SpendRecorded
<1>1. CASE GenerateAddress
  <2>1. next_index \in Addr /\ addresses[next_index].State = "NONE"
    BY <1>1, MaxIndexAssumption DEF TypeOK, GenerateAddress, IndexIsMonotonic, Addr
  <2>2. addresses[next_index].SpendTxID = NoTx /\ FreshRecord.SpendTxID = NoTx
    BY <1>0, <2>1 DEF FreshRecord, BlankRecord
  <2> QED BY <1>0, <1>1, <2>1, <2>2 DEF GenerateAddress, putRecord, PendingIsTracked, Signed
<1>2. ASSUME NEW a \in Addr, MarkFunded(a)
      PROVE PendingIsTracked'
  BY <1>0, <1>2 DEF MarkFunded, putRecord, Funded, PendingIsTracked, Signed
<1>3. ASSUME NEW a \in Addr, NEW D \in SUBSET DepositTx, NEW sats \in [D -> 0 .. MaxSats],
             NEW balanceSats, MarkFundedAndRecordIncoming(a, balanceSats, IncomingFor(a, sats))
      PROVE PendingIsTracked'
  <2>1. \A x \in Addr : addresses'[x].SpendTxID = addresses[x].SpendTxID
    BY <1>0, <1>3 DEF MarkFundedAndRecordIncoming, putRecord, Funded
  <2>2. UNCHANGED <<pending_broadcasts, signed>>
    BY <1>3 DEF MarkFundedAndRecordIncoming
  <2>3. \A p \in pending_broadcasts : p.SourceAddress \in Addr
    BY <1>0, TxAssumption DEF PendingIsTracked, Signed
  <2> QED BY <2>1, <2>2, <2>3, <1>0 DEF PendingIsTracked, Signed
<1>4. ASSUME NEW t \in TxID, MarkSpendPendingAndReserveChange(TxFrom[t], TxChange[t], t)
      PROVE PendingIsTracked'
  <2> DEFINE new == [TxID |-> t, Kind |-> "spend", SourceAddress |-> TxFrom[t]]
  <2>1. /\ pending_broadcasts' = pending_broadcasts \cup {new}
        /\ \A p \in pending_broadcasts : p.TxID # t
        /\ signed' = signed \cup {[TxID |-> t, Kind |-> "spend"]}
    BY <1>4 DEF MarkSpendPendingAndReserveChange, putPending
  <2>2. new.TxID = t /\ new.Kind = "spend" /\ new.SourceAddress = TxFrom[t]
    OBVIOUS
  <2>3. /\ addresses[TxFrom[t]].SpendTxID = NoTx /\ addresses'[TxFrom[t]].SpendTxID = t
        /\ \A x \in Addr : x # TxFrom[t] => addresses'[x].SpendTxID = addresses[x].SpendTxID
    BY <1>0, <1>4 DEF MarkSpendPendingAndReserveChange, putRecord, ReserveChange
  <2> HIDE DEF new
  <2> SUFFICES ASSUME NEW p \in pending_broadcasts'
               PROVE  /\ Signed(p.TxID, p.Kind)'
                      /\ p.SourceAddress = TxFrom[p.TxID]
                      /\ p.Kind = "spend" => addresses'[p.SourceAddress].SpendTxID = p.TxID
                      /\ \A q \in pending_broadcasts' : q.TxID = p.TxID => q = p
    BY DEF PendingIsTracked
  <2>4. CASE p = new
    BY <1>0, <2>1, <2>2, <2>3, <2>4 DEF Signed
  <2>5. CASE p \in pending_broadcasts
    BY <1>0, <2>1, <2>2, <2>3, <2>5 DEF PendingIsTracked, Signed
  <2> QED BY <2>1, <2>4, <2>5
<1>5. ASSUME NEW t \in TxID,
             MarkRecoveryPendingAndReserveChange(TxFrom[t], TxChange[t], t, TxInputs[t])
      PROVE PendingIsTracked'
  <2> DEFINE new == [TxID |-> t, Kind |-> "recovery", SourceAddress |-> TxFrom[t]]
  <2>1. /\ pending_broadcasts' = pending_broadcasts \cup {new}
        /\ \A p \in pending_broadcasts : p.TxID # t
        /\ signed' = signed \cup {[TxID |-> t, Kind |-> "recovery"]}
    BY <1>5 DEF MarkRecoveryPendingAndReserveChange, putPending
  <2>2. new.TxID = t /\ new.Kind = "recovery" /\ new.SourceAddress = TxFrom[t]
    OBVIOUS
  <2>3. \A x \in Addr : addresses'[x].SpendTxID = addresses[x].SpendTxID
    BY <1>0, <1>5, RecoveryFrame
  <2> HIDE DEF new
  <2> SUFFICES ASSUME NEW p \in pending_broadcasts'
               PROVE  /\ Signed(p.TxID, p.Kind)'
                      /\ p.SourceAddress = TxFrom[p.TxID]
                      /\ p.Kind = "spend" => addresses'[p.SourceAddress].SpendTxID = p.TxID
                      /\ \A q \in pending_broadcasts' : q.TxID = p.TxID => q = p
    BY DEF PendingIsTracked
  <2>4. CASE p = new
    BY <1>0, <2>1, <2>2, <2>3, <2>4 DEF Signed
  <2>5. CASE p \in pending_broadcasts
    BY <1>0, <2>1, <2>2, <2>3, <2>5 DEF PendingIsTracked, Signed
  <2> QED BY <2>1, <2>4, <2>5
<1>6. ASSUME NEW a \in Addr, NEW mature \in BOOLEAN, NEW current \in SUBSET OutpointsOf(a),
             ObserveRecoverableOutpoints(a, current, mature)
      PROVE PendingIsTracked'
  <2>1. \A x \in Addr : addresses'[x].SpendTxID = addresses[x].SpendTxID
    BY <1>0, <1>6 DEF ObserveRecoverableOutpoints, putRecord, Reconciled
  <2>2. pending_broadcasts' = pending_broadcasts /\ signed' = signed
    BY <1>6 DEF ObserveRecoverableOutpoints
  <2> QED BY <1>0, <2>1, <2>2 DEF PendingIsTracked, Signed
<1>7. ASSUME NEW a \in Addr, MarkSpent(a)
      PROVE PendingIsTracked'
  <2>1. \A x \in Addr : addresses'[x].SpendTxID = addresses[x].SpendTxID
    BY <1>0, <1>7 DEF MarkSpent, putRecord
  <2>2. pending_broadcasts' = pending_broadcasts /\ signed' = signed
    BY <1>7 DEF MarkSpent
  <2> QED BY <1>0, <2>1, <2>2 DEF PendingIsTracked, Signed
<1>8. ASSUME NEW a \in Addr, Retire(a)
      PROVE PendingIsTracked'
  <2>1. \A x \in Addr : addresses'[x].SpendTxID = addresses[x].SpendTxID
    BY <1>0, <1>8 DEF Retire, putRecord
  <2>2. pending_broadcasts' = pending_broadcasts /\ signed' = signed
    BY <1>8 DEF Retire
  <2> QED BY <1>0, <2>1, <2>2 DEF PendingIsTracked, Signed
<1>9. ASSUME NEW rec \in OutgoingRecord, PutTransaction(rec)
      PROVE PendingIsTracked'
  BY <1>0, <1>9 DEF PutTransaction, PendingIsTracked, Signed
<1>10. ASSUME NEW t \in SignedTxIDs, DeletePendingBroadcast(t)
      PROVE PendingIsTracked'
  BY <1>0, <1>10 DEF DeletePendingBroadcast, PendingIsTracked, Signed
<1>11. CASE UNCHANGED vars
  BY <1>0, <1>11 DEF vars, PendingIsTracked, Signed
<1> QED BY <1>1, <1>2, <1>3, <1>4, <1>5, <1>6, <1>7, <1>8, <1>9, <1>10, <1>11 DEF Next

\* A stored broadcast is a committed signing, under the source it names; a
\* stored spend is the one recorded on its source.
THEOREM PendingSafe == Spec => []PendingIsTracked
<1>1. Init => PendingIsTracked
  BY DEF Init, PendingIsTracked
<1> QED BY <1>1, PendingStep, TypeCorrect, IndexInOrder, SpendSafe, PTL DEF Spec

\* Income is written in the step that credits its address.
LEMMA IncomingStep ==
  TypeOK /\ IndexIsMonotonic /\ IncomingIsCredited /\ [Next]_vars
    => IncomingIsCredited'
<1> SUFFICES ASSUME TypeOK, IndexIsMonotonic, IncomingIsCredited, [Next]_vars
             PROVE  IncomingIsCredited'
  OBVIOUS
<1>0. /\ addresses \in [Addr -> AddressRecord]
      /\ \A t \in TxID : TxFrom[t] \in Addr
      /\ \A r \in transactions : r.Direction = "incoming" => r.Destination \in Addr
  BY TxAssumption DEF TypeOK, IncomingRecord, OutgoingRecord
<1>1. CASE GenerateAddress
  <2>1. next_index \in Addr /\ addresses[next_index].State = "NONE"
    BY <1>1, MaxIndexAssumption DEF TypeOK, GenerateAddress, IndexIsMonotonic, Addr
  <2> QED BY <1>0, <1>1, <2>1 DEF GenerateAddress, putRecord, IncomingIsCredited
<1>2. ASSUME NEW a \in Addr, MarkFunded(a)
      PROVE IncomingIsCredited'
  BY <1>0, <1>2 DEF MarkFunded, putRecord, Funded, IncomingIsCredited
<1>3. ASSUME NEW a \in Addr, NEW D \in SUBSET DepositTx, NEW sats \in [D -> 0 .. MaxSats],
             NEW balanceSats, MarkFundedAndRecordIncoming(a, balanceSats, IncomingFor(a, sats))
      PROVE IncomingIsCredited'
  <2>1. /\ addresses' = [addresses EXCEPT ![a] = Funded(addresses[a])]
        /\ \A r \in transactions' : r \in transactions \/ r.Destination = a
    BY <1>3 DEF MarkFundedAndRecordIncoming, putRecord, putHistoryRecords
  <2>2. Funded(addresses[a]).State = "FUNDED"
    BY <1>0 DEF Funded, AddressRecord
  <2> QED BY <1>0, <2>1, <2>2 DEF IncomingIsCredited
<1>4. ASSUME NEW t \in TxID, MarkSpendPendingAndReserveChange(TxFrom[t], TxChange[t], t)
      PROVE IncomingIsCredited'
  BY <1>0, <1>4 DEF MarkSpendPendingAndReserveChange, putRecord, ReserveChange, IncomingIsCredited
<1>5. ASSUME NEW t \in TxID,
             MarkRecoveryPendingAndReserveChange(TxFrom[t], TxChange[t], t, TxInputs[t])
      PROVE IncomingIsCredited'
  BY <1>0, <1>5, RecoveryFrame, SMTT(20) DEF MarkRecoveryPendingAndReserveChange, IncomingIsCredited
<1>6. ASSUME NEW a \in Addr, NEW mature \in BOOLEAN, NEW current \in SUBSET OutpointsOf(a),
             ObserveRecoverableOutpoints(a, current, mature)
      PROVE IncomingIsCredited'
  BY <1>0, <1>6 DEF ObserveRecoverableOutpoints, putRecord, Reconciled, IncomingIsCredited
<1>7. ASSUME NEW a \in Addr, MarkSpent(a)
      PROVE IncomingIsCredited'
  BY <1>0, <1>7 DEF MarkSpent, putRecord, IncomingIsCredited
<1>8. ASSUME NEW a \in Addr, Retire(a)
      PROVE IncomingIsCredited'
  BY <1>0, <1>8 DEF Retire, putRecord, IncomingIsCredited
<1>9. ASSUME NEW rec \in OutgoingRecord, PutTransaction(rec)
      PROVE IncomingIsCredited'
  <2>1. \A r \in transactions' : r \in transactions \/ r = rec
    BY <1>9 DEF PutTransaction, putHistoryRecords
  <2>2. rec.Direction # "incoming" /\ addresses' = addresses
    BY <1>9 DEF PutTransaction, OutgoingRecord
  <2> QED BY <2>1, <2>2 DEF IncomingIsCredited
<1>10. ASSUME NEW t \in SignedTxIDs, DeletePendingBroadcast(t)
      PROVE IncomingIsCredited'
  BY <1>0, <1>10 DEF DeletePendingBroadcast, IncomingIsCredited
<1>11. CASE UNCHANGED vars
  BY <1>0, <1>11 DEF vars, IncomingIsCredited
<1> QED BY <1>1, <1>2, <1>3, <1>4, <1>5, <1>6, <1>7, <1>8, <1>9, <1>10, <1>11 DEF Next

\* Only a credited address has incoming history: it is written in the very step
\* that credits the address.
THEOREM IncomingSafe == Spec => []IncomingIsCredited
<1>1. Init => IncomingIsCredited
  BY DEF Init, IncomingIsCredited
<1> QED BY <1>1, IncomingStep, TypeCorrect, IndexInOrder, PTL DEF Spec

\* A FRESH address that is owed change is credited without income.
LEMMA ChangePrivateStep ==
  TypeOK /\ ChangeInv /\ IncomingIsCredited /\ ChangeNeverIncoming /\ [Next]_vars
    => ChangeNeverIncoming'
<1> SUFFICES ASSUME TypeOK, ChangeInv, IncomingIsCredited, ChangeNeverIncoming, [Next]_vars
             PROVE  ChangeNeverIncoming'
  OBVIOUS
<1>0. /\ \A r \in transactions : r.Direction = "incoming" => r.Destination \in Addr
      /\ NoAddr \notin Addr
      /\ ChangeHeld
  BY TxAssumption DEF TypeOK, IncomingRecord, OutgoingRecord, ChangeInv
<1>1. CASE GenerateAddress
  BY <1>1 DEF GenerateAddress, ChangeNeverIncoming, SignedTxIDs
<1>2. ASSUME NEW a \in Addr, MarkFunded(a)
      PROVE ChangeNeverIncoming'
  BY <1>2 DEF MarkFunded, ChangeNeverIncoming, SignedTxIDs
<1>3. ASSUME NEW a \in Addr, NEW D \in SUBSET DepositTx, NEW sats \in [D -> 0 .. MaxSats],
             NEW balanceSats, MarkFundedAndRecordIncoming(a, balanceSats, IncomingFor(a, sats))
      PROVE ChangeNeverIncoming'
  <2>1. SignedTxIDs' = SignedTxIDs
    BY <1>3 DEF MarkFundedAndRecordIncoming, SignedTxIDs
  <2>2. CASE addresses[a].Reserved
    BY <1>3, <2>1, <2>2 DEF MarkFundedAndRecordIncoming, ChangeNeverIncoming
  <2>3. CASE ~addresses[a].Reserved
    <3>1. \A t \in SignedTxIDs : TxChange[t] # a
      BY <1>0, <1>3, <2>3 DEF MarkFundedAndRecordIncoming, ChangeHeld
    <3>2. \A r \in transactions' : r \in transactions \/ r.Destination = a
      BY <1>3, <2>3 DEF MarkFundedAndRecordIncoming, putHistoryRecords
    <3> QED BY <2>1, <3>1, <3>2 DEF ChangeNeverIncoming
  <2> QED BY <2>2, <2>3
<1>4. ASSUME NEW t \in TxID, MarkSpendPendingAndReserveChange(TxFrom[t], TxChange[t], t)
      PROVE ChangeNeverIncoming'
  <2>1. SignedTxIDs' = SignedTxIDs \cup {t} /\ transactions' = transactions
    BY <1>4, SignedGrows DEF MarkSpendPendingAndReserveChange
  <2>2. TxChange[t] # NoAddr => addresses[TxChange[t]].State = "FRESH"
    BY <1>4 DEF MarkSpendPendingAndReserveChange, ChangeIsAvailable, AvailableFresh
  <2>3. \A r \in transactions : r.Direction = "incoming" => r.Destination # TxChange[t]
    BY <1>0, <2>2 DEF IncomingIsCredited
  <2> QED BY <2>1, <2>3 DEF ChangeNeverIncoming
<1>5. ASSUME NEW t \in TxID,
             MarkRecoveryPendingAndReserveChange(TxFrom[t], TxChange[t], t, TxInputs[t])
      PROVE ChangeNeverIncoming'
  <2>1. SignedTxIDs' = SignedTxIDs \cup {t} /\ transactions' = transactions
    BY <1>5, SignedGrows DEF MarkRecoveryPendingAndReserveChange
  <2>2. TxChange[t] # NoAddr => addresses[TxChange[t]].State = "FRESH"
    BY <1>5 DEF MarkRecoveryPendingAndReserveChange, ChangeIsAvailable, AvailableFresh
  <2>3. \A r \in transactions : r.Direction = "incoming" => r.Destination # TxChange[t]
    BY <1>0, <2>2 DEF IncomingIsCredited
  <2> QED BY <2>1, <2>3 DEF ChangeNeverIncoming
<1>6. ASSUME NEW a \in Addr, NEW mature \in BOOLEAN, NEW current \in SUBSET OutpointsOf(a),
             ObserveRecoverableOutpoints(a, current, mature)
      PROVE ChangeNeverIncoming'
  BY <1>6 DEF ObserveRecoverableOutpoints, ChangeNeverIncoming, SignedTxIDs
<1>7. ASSUME NEW a \in Addr, MarkSpent(a)
      PROVE ChangeNeverIncoming'
  BY <1>7 DEF MarkSpent, ChangeNeverIncoming, SignedTxIDs
<1>8. ASSUME NEW a \in Addr, Retire(a)
      PROVE ChangeNeverIncoming'
  BY <1>8 DEF Retire, ChangeNeverIncoming, SignedTxIDs
<1>9. ASSUME NEW rec \in OutgoingRecord, PutTransaction(rec)
      PROVE ChangeNeverIncoming'
  <2>1. \A r \in transactions' : r \in transactions \/ r.Direction = "outgoing"
    BY <1>9 DEF PutTransaction, putHistoryRecords, OutgoingRecord
  <2>2. SignedTxIDs' = SignedTxIDs
    BY <1>9 DEF PutTransaction, SignedTxIDs
  <2> QED BY <2>1, <2>2 DEF ChangeNeverIncoming
<1>10. ASSUME NEW t \in SignedTxIDs, DeletePendingBroadcast(t)
      PROVE ChangeNeverIncoming'
  BY <1>10 DEF DeletePendingBroadcast, ChangeNeverIncoming, SignedTxIDs
<1>11. CASE UNCHANGED vars
  BY <1>11 DEF vars, ChangeNeverIncoming, SignedTxIDs
<1> QED BY <1>1, <1>2, <1>3, <1>4, <1>5, <1>6, <1>7, <1>8, <1>9, <1>10, <1>11 DEF Next

\* Change that comes home is never recorded as an incoming payment: an address
\* with incoming history is not FRESH, and a FRESH address that is owed change
\* is reserved, for which no incoming history is written.
THEOREM ChangeStaysPrivate == Spec => []ChangeNeverIncoming
<1>1. Init => ChangeNeverIncoming
  BY DEF Init, ChangeNeverIncoming
<1> QED BY <1>1, ChangePrivateStep, TypeCorrect, ChangeSafe, IncomingSafe, PTL DEF Spec

\* Storing records that are accepted loses and overwrites nothing, and keeps the
\* keys distinct.
LEMMA HistoryOnlyGrows ==
  ASSUME NEW ts, NEW recs, HistoryAccepts(ts, recs),
         \A r, q \in ts : historyKey(r) = historyKey(q) => r = q
  PROVE  /\ ts \subseteq putHistoryRecords(ts, recs)
         /\ \A r, q \in putHistoryRecords(ts, recs) : historyKey(r) = historyKey(q) => r = q
<1>1. \A q \in putHistoryRecords(ts, recs) : q \in ts \cup recs
  BY DEF putHistoryRecords
<1>2. \A q \in recs : q \in putHistoryRecords(ts, recs)
  BY DEF putHistoryRecords
<1>3. ASSUME NEW q \in ts PROVE q \in putHistoryRecords(ts, recs)
  <2>1. CASE \E r \in recs : historyKey(q) = historyKey(r)
    BY <1>2, <2>1 DEF HistoryAccepts
  <2>2. CASE \A r \in recs : historyKey(q) # historyKey(r)
    BY <2>2 DEF putHistoryRecords
  <2> QED BY <2>1, <2>2
<1>4. ASSUME NEW r \in ts \cup recs, NEW q \in ts \cup recs, historyKey(r) = historyKey(q)
      PROVE r = q
  BY <1>4 DEF HistoryAccepts
<1> QED BY <1>1, <1>3, <1>4

\* History is append-only and write-once.
THEOREM HistoryKept == Spec => HistoryWriteOnce
<1> DEFINE Keyed == \A r, q \in transactions : historyKey(r) = historyKey(q) => r = q
<1>1. Init => Keyed
  BY DEF Init
<1>2. Keyed /\ [Next]_vars => HistoryStep /\ Keyed'
  <2> SUFFICES ASSUME Keyed, [Next]_vars PROVE transactions \subseteq transactions' /\ Keyed'
    BY DEF HistoryStep
  <2>1. CASE transactions' = transactions
    BY <2>1
  <2>2. ASSUME NEW recs, HistoryAccepts(transactions, recs),
               transactions' = putHistoryRecords(transactions, recs)
        PROVE  transactions \subseteq transactions' /\ Keyed'
    BY <2>2, HistoryOnlyGrows
  <2> DEFINE Stored == \E recs : /\ HistoryAccepts(transactions, recs)
                                 /\ transactions' = putHistoryRecords(transactions, recs)
  <2>3. transactions' = transactions \/ Stored
    <3>1. ASSUME NEW a \in Addr, NEW balanceSats, NEW incoming,
                 MarkFundedAndRecordIncoming(a, balanceSats, incoming)
          PROVE transactions' = transactions \/ Stored
      BY <3>1 DEF MarkFundedAndRecordIncoming
    <3>2. ASSUME NEW rec \in OutgoingRecord, PutTransaction(rec) PROVE transactions' = transactions \/ Stored
      BY <3>2 DEF PutTransaction
    <3> QED BY <3>1, <3>2 DEF Next, vars, GenerateAddress, MarkFunded,
              MarkSpendPendingAndReserveChange, MarkRecoveryPendingAndReserveChange,
              ObserveRecoverableOutpoints, MarkSpent, Retire, DeletePendingBroadcast
  <2> QED BY <2>1, <2>2, <2>3
<1> HIDE DEF Keyed
<1> QED BY <1>1, <1>2, PTL DEF Spec, HistoryWriteOnce

\* What a scan changes: the recovery fields of the address it is about.
LEMMA ObserveFrame ==
  ASSUME addresses \in [Addr -> AddressRecord], NEW a \in Addr, NEW mature \in BOOLEAN,
         NEW current \in SUBSET OutpointsOf(a), ObserveRecoverableOutpoints(a, current, mature)
  PROVE  /\ \A x \in Addr :
              /\ addresses'[x].State = addresses[x].State
              /\ addresses'[x].EncSeedBlob = addresses[x].EncSeedBlob
              /\ x # a => addresses'[x] = addresses[x]
         /\ addresses'[a].HasRecoverableBalance <=> addresses'[a].RecoverableOutpoints # {}
         /\ LockHeld(addresses[a], current) =>
              /\ addresses'[a].RecoverableOutpoints = {}
              /\ addresses'[a].RecoveryPendingOutpoints = addresses[a].RecoveryPendingOutpoints
              /\ addresses'[a].RecoverySpendTxID = addresses[a].RecoverySpendTxID
         /\ ~LockHeld(addresses[a], current) =>
              /\ addresses'[a].RecoveryPendingOutpoints = {}
              /\ addresses'[a].RecoverySpendTxID = NoTx
<1> DEFINE rec == Reconciled(addresses[a], current, mature)
<1>1. addresses[a] \in AddressRecord /\ addresses' = [addresses EXCEPT ![a] = rec]
  BY DEF ObserveRecoverableOutpoints, putRecord
<1>2. /\ rec.State = addresses[a].State
      /\ rec.EncSeedBlob = addresses[a].EncSeedBlob
      /\ rec.HasRecoverableBalance <=> rec.RecoverableOutpoints # {}
      /\ LockHeld(addresses[a], current) =>
           /\ rec.RecoverableOutpoints = {}
           /\ rec.RecoveryPendingOutpoints = addresses[a].RecoveryPendingOutpoints
           /\ rec.RecoverySpendTxID = addresses[a].RecoverySpendTxID
      /\ ~LockHeld(addresses[a], current) =>
           rec.RecoveryPendingOutpoints = {} /\ rec.RecoverySpendTxID = NoTx
  BY <1>1 DEF Reconciled, AddressRecord
<1> HIDE DEF rec
<1> QED BY <1>1, <1>2

\* A recovery takes the lock of its source, and only a scan clears it.
LEMMA RecoveryStep ==
  TypeOK /\ IndexIsMonotonic /\ RecoveryInv /\ [Next]_vars
    => RecoveryInv'
<1> SUFFICES ASSUME TypeOK, IndexIsMonotonic, RecoveryInv, [Next]_vars PROVE RecoveryInv'
  OBVIOUS
<1>0. /\ addresses \in [Addr -> AddressRecord]
      /\ \A t \in TxID : t # NoTx /\ TxFrom[t] \in Addr /\ TxInputs[t] # {}
      /\ signed \subseteq SignedTx
      /\ RecoveryLockMatches /\ KeyKeptWhileNeeded /\ RecoveryOutstanding /\ NoRecoveryConflict
  BY TxAssumption DEF TypeOK, RecoveryInv
<1>1. CASE GenerateAddress
  <2>1. next_index \in Addr /\ addresses[next_index].State = "NONE"
    BY <1>1, MaxIndexAssumption DEF TypeOK, GenerateAddress, IndexIsMonotonic, Addr
  <2>2. signed' = signed /\ released' = released
    BY <1>1 DEF GenerateAddress
  <2>3. /\ FreshRecord.State = "FRESH" /\ FreshRecord.EncSeedBlob
        /\ ~FreshRecord.HasRecoverableBalance
        /\ FreshRecord.RecoverableOutpoints = {} /\ FreshRecord.RecoveryPendingOutpoints = {}
        /\ FreshRecord.RecoverySpendTxID = NoTx
    BY DEF FreshRecord, BlankRecord
  <2>4. addresses' = [addresses EXCEPT ![next_index] = FreshRecord]
    BY <1>1 DEF GenerateAddress, putRecord
  <2>5. addresses[next_index].RecoverySpendTxID = NoTx
    BY <1>0, <2>1 DEF RecoveryLockMatches
  <2>6. RecoveryLockMatches'
    BY <1>0, <2>1, <2>2, <2>3, <2>4 DEF RecoveryLockMatches, Signed
  <2>7. KeyKeptWhileNeeded'
    BY <1>0, <2>1, <2>3, <2>4 DEF KeyKeptWhileNeeded
  <2>8. RecoveryOutstanding'
    BY <1>0, <2>1, <2>2, <2>3, <2>4, <2>5 DEF RecoveryOutstanding, Signed
  <2> QED BY <1>0, <2>2, <2>6, <2>7, <2>8 DEF RecoveryInv, NoRecoveryConflict
<1>2. ASSUME NEW a \in Addr, MarkFunded(a)
      PROVE RecoveryInv'
  <2>1. signed' = signed /\ released' = released
    BY <1>2 DEF MarkFunded
  <2>2. \A x \in Addr :
           /\ addresses'[x].HasRecoverableBalance = addresses[x].HasRecoverableBalance
           /\ addresses'[x].RecoverableOutpoints = addresses[x].RecoverableOutpoints
           /\ addresses'[x].RecoveryPendingOutpoints = addresses[x].RecoveryPendingOutpoints
           /\ addresses'[x].RecoverySpendTxID = addresses[x].RecoverySpendTxID
    BY <1>0, <1>2 DEF MarkFunded, putRecord, Funded
  <2>3. \A x \in Addr :
           /\ addresses'[x].State = IF x = a THEN "FUNDED" ELSE addresses[x].State
           /\ addresses'[x].EncSeedBlob = addresses[x].EncSeedBlob
    BY <1>0, <1>2 DEF MarkFunded, putRecord, Funded, AddressRecord
  <2>4. RecoveryLockMatches'
    BY <1>0, <1>2, <2>1, <2>2, <2>3 DEF MarkFunded, RecoveryLockMatches, Signed
  <2>5. KeyKeptWhileNeeded'
    BY <1>0, <1>2, <2>2, <2>3 DEF MarkFunded, RecoveryLockMatches, KeyKeptWhileNeeded
  <2>6. RecoveryOutstanding'
    BY <1>0, <2>1, <2>2 DEF RecoveryOutstanding, Signed
  <2> QED BY <1>0, <2>1, <2>4, <2>5, <2>6 DEF RecoveryInv, NoRecoveryConflict
<1>3. ASSUME NEW a \in Addr, NEW D \in SUBSET DepositTx, NEW sats \in [D -> 0 .. MaxSats],
             NEW balanceSats, MarkFundedAndRecordIncoming(a, balanceSats, IncomingFor(a, sats))
      PROVE RecoveryInv'
  <2>1. signed' = signed /\ released' = released
    BY <1>3 DEF MarkFundedAndRecordIncoming
  <2>2. \A x \in Addr :
           /\ addresses'[x].HasRecoverableBalance = addresses[x].HasRecoverableBalance
           /\ addresses'[x].RecoverableOutpoints = addresses[x].RecoverableOutpoints
           /\ addresses'[x].RecoveryPendingOutpoints = addresses[x].RecoveryPendingOutpoints
           /\ addresses'[x].RecoverySpendTxID = addresses[x].RecoverySpendTxID
    BY <1>0, <1>3 DEF MarkFundedAndRecordIncoming, putRecord, Funded
  <2>3. \A x \in Addr :
           /\ addresses'[x].State = IF x = a THEN "FUNDED" ELSE addresses[x].State
           /\ addresses'[x].EncSeedBlob = addresses[x].EncSeedBlob
    BY <1>0, <1>3 DEF MarkFundedAndRecordIncoming, putRecord, Funded, AddressRecord
  <2>4. RecoveryLockMatches'
    BY <1>0, <1>3, <2>1, <2>2, <2>3 DEF MarkFundedAndRecordIncoming, RecoveryLockMatches, Signed
  <2>5. KeyKeptWhileNeeded'
    BY <1>0, <1>3, <2>2, <2>3 DEF MarkFundedAndRecordIncoming, RecoveryLockMatches, KeyKeptWhileNeeded
  <2>6. RecoveryOutstanding'
    BY <1>0, <2>1, <2>2 DEF RecoveryOutstanding, Signed
  <2> QED BY <1>0, <2>1, <2>4, <2>5, <2>6 DEF RecoveryInv, NoRecoveryConflict
<1>4. ASSUME NEW t \in TxID, MarkSpendPendingAndReserveChange(TxFrom[t], TxChange[t], t)
      PROVE RecoveryInv'
  <2> DEFINE new == [TxID |-> t, Kind |-> "spend"]
  <2>1. signed' = signed \cup {new} /\ released' = released
    BY <1>4 DEF MarkSpendPendingAndReserveChange
  <2>2. \A x \in Addr :
           /\ addresses'[x].HasRecoverableBalance = addresses[x].HasRecoverableBalance
           /\ addresses'[x].RecoverableOutpoints = addresses[x].RecoverableOutpoints
           /\ addresses'[x].RecoveryPendingOutpoints = addresses[x].RecoveryPendingOutpoints
           /\ addresses'[x].RecoverySpendTxID = addresses[x].RecoverySpendTxID
           /\ addresses'[x].EncSeedBlob = addresses[x].EncSeedBlob
           /\ addresses'[x].State = IF x = TxFrom[t] THEN "SPEND_PENDING" ELSE addresses[x].State
    BY <1>0, <1>4 DEF MarkSpendPendingAndReserveChange, putRecord, ReserveChange
  <2>3. new.Kind = "spend" /\ \A u : Signed(u, "recovery")' <=> Signed(u, "recovery")
    BY <2>1 DEF Signed
  <2>4. addresses[TxFrom[t]].State = "FUNDED"
    BY <1>4 DEF MarkSpendPendingAndReserveChange
  <2> HIDE DEF new
  <2>5. RecoveryLockMatches'
    BY <1>0, <2>2, <2>3, <2>4 DEF RecoveryLockMatches
  <2>6. KeyKeptWhileNeeded'
    BY <1>0, <2>2, <2>4 DEF KeyKeptWhileNeeded
  <2>7. RecoveryOutstanding'
    BY <1>0, <2>1, <2>2, <2>3 DEF RecoveryOutstanding
  <2>8. NoRecoveryConflict'
    BY <1>0, <2>1, <2>3 DEF NoRecoveryConflict
  <2> QED BY <2>5, <2>6, <2>7, <2>8 DEF RecoveryInv
<1>5. ASSUME NEW t \in TxID,
             MarkRecoveryPendingAndReserveChange(TxFrom[t], TxChange[t], t, TxInputs[t])
      PROVE RecoveryInv'
  <2> DEFINE new == [TxID |-> t, Kind |-> "recovery"]
  <2>1. signed' = signed \cup {new} /\ released' = released
    BY <1>5 DEF MarkRecoveryPendingAndReserveChange
  <2>2. /\ addresses[TxFrom[t]].State = "SPENT"
        /\ addresses[TxFrom[t]].RecoveryPendingOutpoints = {}
    BY <1>5 DEF MarkRecoveryPendingAndReserveChange
  <2>3. new.TxID = t /\ \A u : Signed(u, "recovery")' <=> (Signed(u, "recovery") \/ u = t)
    BY <2>1 DEF Signed
  <2>4. addresses[TxFrom[t]].RecoverySpendTxID = NoTx
    BY <1>0, <2>2 DEF RecoveryLockMatches
  <2>5. \A u \in TxID : Signed(u, "recovery") /\ TxFrom[u] = TxFrom[t] => u \in released
    BY <1>0, <2>4 DEF RecoveryOutstanding
  <2> HIDE DEF new
  <2>6. RecoveryLockMatches'
    BY <1>0, <1>5, <2>2, <2>3, RecoveryFrame DEF RecoveryLockMatches
  <2>7. KeyKeptWhileNeeded'
    BY <1>0, <1>5, <2>2, RecoveryFrame DEF KeyKeptWhileNeeded
  <2>8. RecoveryOutstanding'
    BY <1>0, <1>5, <2>1, <2>3, <2>5, RecoveryFrame DEF RecoveryOutstanding
  <2>9. NoRecoveryConflict'
    <3>1. \A s \in signed : s.Kind = "recovery" => s.TxID \in TxID /\ Signed(s.TxID, "recovery")
      BY <1>0 DEF SignedTx, Signed
    <3>2. \A u \in TxID : TxInputs[u] \cap TxInputs[t] # {} => TxFrom[u] = TxFrom[t]
      BY TxAssumption DEF OutpointsOf
    <3>3. \A s \in signed :
             s.Kind = "recovery" /\ TxInputs[s.TxID] \cap TxInputs[t] # {} => s.TxID \in released
      BY <2>5, <3>1, <3>2
    <3> SUFFICES ASSUME NEW s1 \in signed', NEW s2 \in signed',
                        s1.Kind = "recovery", s2.Kind = "recovery", s1 # s2,
                        TxInputs[s1.TxID] \cap TxInputs[s2.TxID] # {}
                 PROVE  {s1.TxID, s2.TxID} \cap released # {}
      BY <2>1 DEF NoRecoveryConflict
    <3>4. CASE s1 \in signed /\ s2 \in signed
      BY <1>0, <3>4 DEF NoRecoveryConflict
    <3>5. CASE s1 = new
      BY <2>1, <2>3, <3>3, <3>5
    <3>6. CASE s2 = new
      BY <2>1, <2>3, <3>3, <3>6
    <3> QED BY <2>1, <3>4, <3>5, <3>6
  <2> QED BY <2>6, <2>7, <2>8, <2>9 DEF RecoveryInv
<1>6. ASSUME NEW a \in Addr, NEW mature \in BOOLEAN, NEW current \in SUBSET OutpointsOf(a),
             ObserveRecoverableOutpoints(a, current, mature)
      PROVE RecoveryInv'
  <2>1. /\ signed' = signed
        /\ addresses[a].State = "SPENT"
        /\ LockHeld(addresses[a], current) => released' = released
        /\ ~LockHeld(addresses[a], current) =>
             released' = released \cup ({addresses[a].RecoverySpendTxID} \ {NoTx})
    BY <1>6 DEF ObserveRecoverableOutpoints
  <2>2. RecoveryLockMatches'
    <3>1. CASE LockHeld(addresses[a], current)
      BY <1>0, <1>6, <2>1, <3>1, ObserveFrame DEF RecoveryLockMatches, Signed
    <3>2. CASE ~LockHeld(addresses[a], current)
      BY <1>0, <1>6, <2>1, <3>2, ObserveFrame DEF RecoveryLockMatches, Signed
    <3> QED BY <3>1, <3>2
  <2>3. KeyKeptWhileNeeded'
    BY <1>0, <1>6, <2>1, ObserveFrame DEF KeyKeptWhileNeeded
  <2>4. RecoveryOutstanding'
    <3>1. CASE LockHeld(addresses[a], current)
      BY <1>0, <1>6, <2>1, <3>1, ObserveFrame DEF RecoveryOutstanding, Signed
    <3>2. CASE ~LockHeld(addresses[a], current)
      BY <1>0, <1>6, <2>1, <3>2, ObserveFrame DEF RecoveryOutstanding, Signed
    <3> QED BY <3>1, <3>2
  <2>5. NoRecoveryConflict'
    BY <1>0, <2>1 DEF NoRecoveryConflict
  <2> QED BY <2>2, <2>3, <2>4, <2>5 DEF RecoveryInv
<1>7. ASSUME NEW a \in Addr, MarkSpent(a)
      PROVE RecoveryInv'
  <2>1. signed' = signed /\ released' = released
    BY <1>7 DEF MarkSpent
  <2>2. \A x \in Addr :
           /\ addresses'[x].HasRecoverableBalance = addresses[x].HasRecoverableBalance
           /\ addresses'[x].RecoverableOutpoints = addresses[x].RecoverableOutpoints
           /\ addresses'[x].RecoveryPendingOutpoints = addresses[x].RecoveryPendingOutpoints
           /\ addresses'[x].RecoverySpendTxID = addresses[x].RecoverySpendTxID
    BY <1>0, <1>7 DEF MarkSpent, putRecord
  <2>3. \A x \in Addr :
           /\ addresses'[x].State = IF x = a THEN "SPENT" ELSE addresses[x].State
           /\ addresses'[x].EncSeedBlob = addresses[x].EncSeedBlob
    BY <1>0, <1>7 DEF MarkSpent, putRecord, AddressRecord
  <2>4. RecoveryLockMatches'
    BY <1>0, <1>7, <2>1, <2>2, <2>3 DEF MarkSpent, RecoveryLockMatches, Signed
  <2>5. KeyKeptWhileNeeded'
    BY <1>0, <1>7, <2>2, <2>3 DEF MarkSpent, RecoveryLockMatches, KeyKeptWhileNeeded
  <2>6. RecoveryOutstanding'
    BY <1>0, <2>1, <2>2 DEF RecoveryOutstanding, Signed
  <2> QED BY <1>0, <2>1, <2>4, <2>5, <2>6 DEF RecoveryInv, NoRecoveryConflict
<1>8. ASSUME NEW a \in Addr, Retire(a)
      PROVE RecoveryInv'
  <2>0. /\ addresses[a].State = "SPENT" /\ ~addresses[a].HasRecoverableBalance
        /\ addresses[a].RecoveryPendingOutpoints = {}
    BY <1>8 DEF Retire
  <2>1. signed' = signed /\ released' = released
    BY <1>8 DEF Retire
  <2>2. \A x \in Addr :
           /\ addresses'[x].HasRecoverableBalance = addresses[x].HasRecoverableBalance
           /\ addresses'[x].RecoverableOutpoints = addresses[x].RecoverableOutpoints
           /\ addresses'[x].RecoveryPendingOutpoints = addresses[x].RecoveryPendingOutpoints
           /\ addresses'[x].RecoverySpendTxID = addresses[x].RecoverySpendTxID
    BY <1>0, <1>8 DEF Retire, putRecord
  <2>3. /\ \A x \in Addr : x # a => addresses'[x] = addresses[x]
        /\ addresses'[a].State = "RETIRED" /\ ~addresses'[a].EncSeedBlob
    <3>1. addresses[a] \in AddressRecord
      BY <1>0
    <3> QED BY <1>0, <1>8, <3>1 DEF Retire, putRecord, AddressRecord
  <2>4. RecoveryLockMatches'
    BY <1>0, <2>0, <2>1, <2>2, <2>3 DEF RecoveryLockMatches, Signed
  <2>5. KeyKeptWhileNeeded'
    BY <1>0, <2>0, <2>2, <2>3 DEF KeyKeptWhileNeeded
  <2>6. RecoveryOutstanding'
    BY <1>0, <2>1, <2>2 DEF RecoveryOutstanding, Signed
  <2> QED BY <1>0, <2>1, <2>4, <2>5, <2>6 DEF RecoveryInv, NoRecoveryConflict
<1>9. ASSUME NEW rec \in OutgoingRecord, PutTransaction(rec)
      PROVE RecoveryInv'
  BY <1>0, <1>9 DEF PutTransaction, RecoveryInv, RecoveryLockMatches, KeyKeptWhileNeeded,
         RecoveryOutstanding, NoRecoveryConflict, Signed
<1>10. ASSUME NEW t \in SignedTxIDs, DeletePendingBroadcast(t)
      PROVE RecoveryInv'
  BY <1>0, <1>10 DEF DeletePendingBroadcast, RecoveryInv, RecoveryLockMatches, KeyKeptWhileNeeded,
         RecoveryOutstanding, NoRecoveryConflict, Signed
<1>11. CASE UNCHANGED vars
  BY <1>0, <1>11 DEF vars, RecoveryInv, RecoveryLockMatches, KeyKeptWhileNeeded,
         RecoveryOutstanding, NoRecoveryConflict, Signed
<1> QED BY <1>1, <1>2, <1>3, <1>4, <1>5, <1>6, <1>7, <1>8, <1>9, <1>10, <1>11 DEF Next

\* The recovery lock of an address is the input set of a signed recovery of its
\* own, its key is kept while the lock or the balance is there, and a recovery
\* loses its lock only to a scan that reports its outpoints gone; hence two
\* recoveries that share an input are never outstanding together.
THEOREM RecoverySafe == Spec => []RecoveryInv
<1>1. Init => RecoveryInv
  BY DEF Init, RecoveryInv, RecoveryLockMatches, KeyKeptWhileNeeded, RecoveryOutstanding,
         NoRecoveryConflict, BlankRecord, Signed
<1> QED BY <1>1, RecoveryStep, TypeCorrect, IndexInOrder, PTL DEF Spec

\* Every method of the index keeps the inductive invariant.
LEMMA IndexStep == TypeOK /\ IInv /\ [Next]_vars => TypeOK' /\ IInv'
<1> SUFFICES ASSUME TypeOK, IInv, [Next]_vars PROVE TypeOK' /\ IInv'
  OBVIOUS
<1>0. /\ SpendInv /\ ChangeInv /\ RecoveryInv /\ PendingIsTracked
      /\ IncomingIsCredited /\ ChangeNeverIncoming /\ IndexIsMonotonic /\ SpendRecorded
      /\ ChangePromisedOnce /\ ReservedIsOwed /\ ChangeHeld
  BY DEF IInv, SpendInv, ChangeInv, HistoryInv
<1>1. TypeOK' /\ IndexIsMonotonic'
  BY <1>0, TypeStep, IndexInOrderStep
<1>2. SpendRecorded'
  BY <1>0, SpendStep
<1>3. OneSpendPerKey'
  BY <1>1, <1>2, SpendRecordedIsEnough, PTL
<1>4. ChangePromisedOnce' /\ ReservedIsOwed' /\ ChangeHeld'
  BY <1>0, ChangeStep
<1>5. IncomingIsCredited' /\ ChangeNeverIncoming'
  BY <1>0, IncomingStep, ChangePrivateStep
<1>6. RecoveryInv' /\ PendingIsTracked'
  BY <1>0, RecoveryStep, PendingStep
<1> QED BY <1>1, <1>2, <1>3, <1>4, <1>5, <1>6 DEF IInv, SpendInv, ChangeInv, HistoryInv

\* An empty index satisfies the invariant.
LEMMA IndexInit == Init => TypeOK /\ IInv
<1> SUFFICES ASSUME Init PROVE TypeOK /\ IInv
  OBVIOUS
<1>1. TypeOK
  BY MaxIndexAssumption DEF Init, TypeOK, BlankRecord, AddressRecord
<1>2. /\ \A a \in Addr : addresses[a] = BlankRecord
      /\ SignedTxIDs = {} /\ signed = {} /\ transactions = {} /\ pending_broadcasts = {}
      /\ next_index = 0
  BY DEF Init, SignedTxIDs
<1>3. SpendInv
  BY <1>2, TxAssumption DEF SpendInv, SpendRecorded, OneSpendPerKey, Signed, BlankRecord
<1>4. ChangeInv
  BY <1>2, MaxIndexAssumption DEF ChangeInv, IndexIsMonotonic, ChangePromisedOnce, ReservedIsOwed,
                                  ChangeHeld, BlankRecord, Addr
<1>5. HistoryInv
  BY <1>2 DEF HistoryInv, IncomingIsCredited, ChangeNeverIncoming
<1>6. RecoveryInv
  BY <1>2 DEF RecoveryInv, RecoveryLockMatches, KeyKeptWhileNeeded, RecoveryOutstanding,
              NoRecoveryConflict, Signed, BlankRecord
<1>7. PendingIsTracked
  BY <1>2 DEF PendingIsTracked
<1> QED BY <1>1, <1>3, <1>4, <1>5, <1>6, <1>7 DEF IInv

\* The inductive invariant holds in every reachable state.
THEOREM IndexSafe == Spec => [](TypeOK /\ IInv)
BY TypeCorrect, SpendSafe, ChangeSafe, IncomingSafe, ChangeStaysPrivate, RecoverySafe, PendingSafe,
   PTL DEF IInv, HistoryInv

\* What a reader of the package comment wants to know: one spend per key, each
\* change address promised once, one outstanding recovery per output.
THEOREM IndexIsSingleUse == Spec => [](OneSpendPerKey /\ ChangePromisedOnce /\ NoRecoveryConflict)
BY SpendSafe, ChangeSafe, RecoverySafe, PTL DEF SpendInv, ChangeInv, RecoveryInv

\* A key is on disk as long as anything may still have to be signed with it.
THEOREM KeysAreKept == Spec => [](KeyKeptWhileNeeded /\ RecoveryLockMatches)
BY RecoverySafe, PTL DEF RecoveryInv

\* Whatever the abstraction sees of the addresses is in five fields.
LEMMA AbstractFrame ==
  ASSUME addresses \in [Addr -> AddressRecord], addresses' \in [Addr -> AddressRecord],
         signed' = signed,
         \A x \in Addr : addresses'[x].State = addresses[x].State,
         \A x \in Addr : addresses'[x].SpendTxID = addresses[x].SpendTxID,
         \A x \in Addr : addresses'[x].RecoveryPendingOutpoints = addresses[x].RecoveryPendingOutpoints
  PROVE  UNCHANGED SingleUse!abstract
<1>1. SignedTxIDs' = SignedTxIDs
  BY DEF SignedTxIDs
<1>2. Born' = Born /\ Credited' = Credited /\ Destroyed' = Destroyed
  BY DEF Born, Credited, Destroyed
<1>3. SpentBy' = SpentBy
  BY DEF SpentBy
<1>4. Locked' = Locked
  BY DEF Locked
<1>5. Promised' = Promised
  BY <1>1 DEF Promised
<1> QED BY <1>2, <1>3, <1>4, <1>5 DEF SingleUse!abstract

\* Outputs under recovery are outputs of the address that holds the lock.
LEMMA LockedAreOwned ==
  ASSUME TypeOK, RecoveryLockMatches
  PROVE  \A a \in Addr : \A o \in addresses[a].RecoveryPendingOutpoints : o \in Outpoint /\ Owner[o] = a
<1> SUFFICES ASSUME NEW a \in Addr, NEW o \in addresses[a].RecoveryPendingOutpoints
             PROVE  o \in Outpoint /\ Owner[o] = a
  OBVIOUS
<1>1. addresses[a].RecoverySpendTxID \in TxID \cup {NoTx}
  BY DEF TypeOK, AddressRecord
<1>2. /\ addresses[a].RecoverySpendTxID # NoTx
      /\ TxFrom[addresses[a].RecoverySpendTxID] = a
      /\ o \in TxInputs[addresses[a].RecoverySpendTxID]
  BY DEF RecoveryLockMatches
<1> QED BY <1>1, <1>2, TxAssumption DEF OutpointsOf

\* A committed signature promises its change address, if it has one, for the
\* first time.
LEMMA PromiseIsNew ==
  ASSUME TypeOK, IndexIsMonotonic, ChangeHeld, NEW t \in TxID, ChangeIsAvailable(TxChange[t]),
         SignedTxIDs' = SignedTxIDs \cup {t}
  PROVE  SingleUse!Promise(TxChange[t])
<1>1. TxChange[t] \in Addr \cup {NoAddr} /\ NoAddr \notin Addr
  BY TxAssumption
<1>2. Promised' = Promised \cup ({TxChange[t]} \ {NoAddr})
  BY DEF Promised
<1>3. ASSUME TxChange[t] # NoAddr
      PROVE  TxChange[t] \in Born \ (Credited \cup Promised)
  <2>1. addresses[TxChange[t]].State = "FRESH" /\ ~addresses[TxChange[t]].Reserved
    BY <1>3 DEF ChangeIsAvailable, AvailableFresh
  <2>2. TxChange[t] \notin Promised
    BY <2>1 DEF Promised, ChangeHeld
  <2> QED BY <1>1, <1>3, <2>1, <2>2 DEF Born, Credited
<1> QED BY <1>2, <1>3 DEF SingleUse!Promise

\* Crediting an address is the same abstract step with and without history.
LEMMA CreditStep ==
  ASSUME addresses \in [Addr -> AddressRecord], NEW a \in Addr, addresses[a].State = "FRESH",
         signed' = signed, addresses' = [addresses EXCEPT ![a] = Funded(addresses[a])]
  PROVE  SingleUse!Next
<1>1. addresses[a] \in AddressRecord
  OBVIOUS
<1>2. \A x \in Addr :
         /\ addresses'[x].State = IF x = a THEN "FUNDED" ELSE addresses[x].State
         /\ addresses'[x].SpendTxID = addresses[x].SpendTxID
         /\ addresses'[x].RecoveryPendingOutpoints = addresses[x].RecoveryPendingOutpoints
  BY <1>1 DEF Funded, AddressRecord
<1>3. Born' = Born /\ Credited' = Credited \cup {a} /\ Destroyed' = Destroyed
  BY <1>2 DEF Born, Credited, Destroyed
<1>4. SpentBy' = SpentBy /\ Locked' = Locked
  BY <1>2 DEF SpentBy, Locked
<1>5. Promised' = Promised
  BY DEF Promised, SignedTxIDs
<1>6. a \in Born \ Credited
  BY DEF Born, Credited
<1>7. SingleUse!Credit(a)
  BY <1>3, <1>4, <1>5, <1>6 DEF SingleUse!Credit
<1> QED BY <1>7 DEF SingleUse!Next

\* Every method of the index is a step of SingleUse or changes nothing that
\* SingleUse can see.
THEOREM IndexKeepsPromises == Spec => KeepsPromises
<1>1. Init => SingleUse!Init
  <2> SUFFICES ASSUME Init PROVE SingleUse!Init
    OBVIOUS
  <2>1. SignedTxIDs = {}
    BY DEF Init, SignedTxIDs
  <2>2. Born = {} /\ Credited = {} /\ Destroyed = {} /\ Locked = {}
    BY DEF Init, BlankRecord, Born, Credited, Destroyed, Locked
  <2>3. SpentBy = [a \in Addr |-> NoTx]
    BY DEF Init, BlankRecord, SpentBy
  <2>4. Promised = {}
    BY <2>1 DEF Promised
  <2> QED BY <2>2, <2>3, <2>4 DEF SingleUse!Init
<1>2. TypeOK /\ TypeOK' /\ IInv /\ [Next]_vars => [SingleUse!Next]_(SingleUse!abstract)
  <2> SUFFICES ASSUME TypeOK, TypeOK', IInv, [Next]_vars
               PROVE  [SingleUse!Next]_(SingleUse!abstract)
    OBVIOUS
  <2>0. /\ addresses \in [Addr -> AddressRecord] /\ addresses' \in [Addr -> AddressRecord]
        /\ \A t \in TxID : t # NoTx /\ TxFrom[t] \in Addr
        /\ IndexIsMonotonic /\ ChangeHeld /\ SpendRecorded /\ RecoveryLockMatches
    BY TxAssumption DEF TypeOK, IInv, ChangeInv, SpendInv, RecoveryInv
  <2>1. CASE GenerateAddress
    <3>1. next_index \in Addr /\ addresses[next_index].State = "NONE"
      BY <2>1, MaxIndexAssumption DEF TypeOK, GenerateAddress, IInv, ChangeInv, IndexIsMonotonic, Addr
    <3>2. SignedTxIDs' = SignedTxIDs /\ addresses' = [addresses EXCEPT ![next_index] = FreshRecord]
      BY <2>1 DEF GenerateAddress, SignedTxIDs, putRecord
    <3>3. addresses[next_index].SpendTxID = NoTx /\ addresses[next_index].RecoveryPendingOutpoints = {}
      BY <2>0, <3>1 DEF SpendRecorded, RecoveryLockMatches
    <3>4. /\ FreshRecord.State = "FRESH" /\ FreshRecord.SpendTxID = NoTx
          /\ FreshRecord.RecoveryPendingOutpoints = {}
      BY DEF FreshRecord, BlankRecord
    <3>5. Born' = Born \cup {next_index} /\ Credited' = Credited /\ Destroyed' = Destroyed
      BY <2>0, <3>1, <3>2, <3>4 DEF Born, Credited, Destroyed
    <3>6. \A x \in Addr : /\ addresses'[x].SpendTxID = addresses[x].SpendTxID
                          /\ addresses'[x].RecoveryPendingOutpoints = addresses[x].RecoveryPendingOutpoints
      BY <2>0, <3>1, <3>2, <3>3, <3>4
    <3>7. SpentBy' = SpentBy /\ Locked' = Locked /\ Promised' = Promised
      BY <3>2, <3>6 DEF SpentBy, Locked, Promised
    <3>8. SingleUse!Create(next_index)
      BY <3>1, <3>5, <3>7 DEF SingleUse!Create, Born
    <3> QED BY <3>1, <3>8 DEF SingleUse!Next
  <2>2. ASSUME NEW a \in Addr, MarkFunded(a)
        PROVE [SingleUse!Next]_(SingleUse!abstract)
    <3>1. /\ addresses[a].State = "FRESH" /\ signed' = signed
          /\ addresses' = [addresses EXCEPT ![a] = Funded(addresses[a])]
      BY <2>2 DEF MarkFunded, putRecord
    <3> QED BY <2>0, <3>1, CreditStep
  <2>3. ASSUME NEW a \in Addr, NEW D \in SUBSET DepositTx, NEW sats \in [D -> 0 .. MaxSats],
               NEW balanceSats, MarkFundedAndRecordIncoming(a, balanceSats, IncomingFor(a, sats))
        PROVE [SingleUse!Next]_(SingleUse!abstract)
    <3>1. /\ addresses[a].State = "FRESH" /\ signed' = signed
          /\ addresses' = [addresses EXCEPT ![a] = Funded(addresses[a])]
      BY <2>3 DEF MarkFundedAndRecordIncoming, putRecord
    <3> QED BY <2>0, <3>1, CreditStep
  <2>4. ASSUME NEW t \in TxID, MarkSpendPendingAndReserveChange(TxFrom[t], TxChange[t], t)
        PROVE [SingleUse!Next]_(SingleUse!abstract)
    <3>1. /\ addresses[TxFrom[t]].State = "FUNDED" /\ ChangeIsAvailable(TxChange[t])
          /\ SignedTxIDs' = SignedTxIDs \cup {t}
      BY <2>4, SignedGrows DEF MarkSpendPendingAndReserveChange
    <3>2. SingleUse!Promise(TxChange[t])
      BY <2>0, <3>1, PromiseIsNew
    <3>3. \A x \in Addr :
             /\ addresses'[x].State = IF x = TxFrom[t] THEN "SPEND_PENDING" ELSE addresses[x].State
             /\ addresses'[x].SpendTxID = IF x = TxFrom[t] THEN t ELSE addresses[x].SpendTxID
             /\ addresses'[x].RecoveryPendingOutpoints = addresses[x].RecoveryPendingOutpoints
      BY <2>0, <2>4 DEF MarkSpendPendingAndReserveChange, putRecord, ReserveChange
    <3>4. Born' = Born /\ Credited' = Credited /\ Destroyed' = Destroyed
      BY <3>1, <3>3 DEF Born, Credited, Destroyed
    <3>5. SpentBy' = [SpentBy EXCEPT ![TxFrom[t]] = t]
      BY <2>0, <3>3 DEF SpentBy
    <3>6. Locked' = Locked
      BY <3>3 DEF Locked
    <3>7. TxFrom[t] \in Credited /\ SpentBy[TxFrom[t]] = NoTx
      BY <2>0, <3>1 DEF Credited, SpentBy, SpendRecorded
    <3>8. SingleUse!Spend(t)
      BY <3>2, <3>4, <3>5, <3>6, <3>7 DEF SingleUse!Spend
    <3> QED BY <3>8 DEF SingleUse!Next
  <2>5. ASSUME NEW t \in TxID,
               MarkRecoveryPendingAndReserveChange(TxFrom[t], TxChange[t], t, TxInputs[t])
        PROVE [SingleUse!Next]_(SingleUse!abstract)
    <3>1. /\ addresses[TxFrom[t]].State = "SPENT" /\ ChangeIsAvailable(TxChange[t])
          /\ addresses[TxFrom[t]].RecoveryPendingOutpoints = {}
          /\ SignedTxIDs' = SignedTxIDs \cup {t}
      BY <2>5, SignedGrows DEF MarkRecoveryPendingAndReserveChange
    <3>2. SingleUse!Promise(TxChange[t])
      BY <2>0, <3>1, PromiseIsNew
    <3>3. \A x \in Addr :
             /\ addresses'[x].State = addresses[x].State
             /\ addresses'[x].SpendTxID = addresses[x].SpendTxID
             /\ addresses'[x].RecoveryPendingOutpoints =
                  IF x = TxFrom[t] THEN TxInputs[t] ELSE addresses[x].RecoveryPendingOutpoints
      BY <2>0, <2>5, RecoveryFrame
    <3>4. Born' = Born /\ Credited' = Credited /\ Destroyed' = Destroyed /\ SpentBy' = SpentBy
      BY <3>3 DEF Born, Credited, Destroyed, SpentBy
    <3>5. Locked' = Locked \cup TxInputs[t]
      BY <2>0, <3>1, <3>3 DEF Locked
    <3>6. TxInputs[t] \cap Locked = {}
      BY <2>0, <3>1, LockedAreOwned, TxAssumption DEF Locked, OutpointsOf
    <3>7. SpentBy[TxFrom[t]] # NoTx /\ TxFrom[t] \notin Destroyed
      BY <2>0, <3>1 DEF SpentBy, Destroyed, SpendRecorded
    <3>8. SingleUse!Recover(t)
      BY <3>2, <3>4, <3>5, <3>6, <3>7 DEF SingleUse!Recover
    <3> QED BY <3>8 DEF SingleUse!Next
  <2>6. ASSUME NEW a \in Addr, NEW mature \in BOOLEAN, NEW current \in SUBSET OutpointsOf(a),
               ObserveRecoverableOutpoints(a, current, mature)
        PROVE [SingleUse!Next]_(SingleUse!abstract)
    <3>1. signed' = signed /\ \A x \in Addr : addresses'[x].SpendTxID = addresses[x].SpendTxID
      BY <2>0, <2>6 DEF ObserveRecoverableOutpoints, putRecord, Reconciled
    <3>2. \A x \in Addr : addresses'[x].State = addresses[x].State
      BY <2>0, <2>6, ObserveFrame
    <3>3. CASE LockHeld(addresses[a], current)
      <4>1. \A x \in Addr : addresses'[x].RecoveryPendingOutpoints = addresses[x].RecoveryPendingOutpoints
        BY <2>0, <2>6, <3>3, ObserveFrame
      <4> QED BY <2>0, <3>1, <3>2, <4>1, AbstractFrame
    <3>4. CASE ~LockHeld(addresses[a], current)
      <4> DEFINE gone == addresses[a].RecoveryPendingOutpoints
      <4>1. \A x \in Addr : addresses'[x].RecoveryPendingOutpoints =
               IF x = a THEN {} ELSE addresses[x].RecoveryPendingOutpoints
        BY <2>0, <2>6, <3>4, ObserveFrame, ZenonT(40)
      <4>2. \A x \in Addr : x # a => addresses[x].RecoveryPendingOutpoints \cap gone = {}
        BY <2>0, LockedAreOwned
      <4>3. Locked' = Locked \ gone /\ gone \in SUBSET Locked
        BY <4>1, <4>2 DEF Locked
      <4>4. Born' = Born /\ Credited' = Credited /\ Destroyed' = Destroyed /\ SpentBy' = SpentBy
        BY <3>1, <3>2 DEF Born, Credited, Destroyed, SpentBy
      <4>5. Promised' = Promised
        BY <3>1 DEF Promised, SignedTxIDs
      <4>6. SingleUse!Release(gone)
        BY <4>3, <4>4, <4>5 DEF SingleUse!Release
      <4> QED BY <4>3, <4>6 DEF SingleUse!Next
    <3> QED BY <3>3, <3>4
  <2>7. ASSUME NEW a \in Addr, MarkSpent(a)
        PROVE [SingleUse!Next]_(SingleUse!abstract)
    <3>1. \A x \in Addr :
             /\ addresses'[x].State = IF x = a THEN "SPENT" ELSE addresses[x].State
             /\ addresses'[x].SpendTxID = addresses[x].SpendTxID
             /\ addresses'[x].RecoveryPendingOutpoints = addresses[x].RecoveryPendingOutpoints
      BY <2>0, <2>7 DEF MarkSpent, putRecord
    <3>2. addresses[a].State = "SPEND_PENDING" /\ signed' = signed
      BY <2>7 DEF MarkSpent
    <3>3. Born' = Born /\ Credited' = Credited /\ Destroyed' = Destroyed
      BY <3>1, <3>2 DEF Born, Credited, Destroyed
    <3>4. SpentBy' = SpentBy /\ Locked' = Locked
      BY <3>1 DEF SpentBy, Locked
    <3>5. Promised' = Promised
      BY <3>2 DEF Promised, SignedTxIDs
    <3> QED BY <3>3, <3>4, <3>5 DEF SingleUse!abstract
  <2>8. ASSUME NEW a \in Addr, Retire(a)
        PROVE [SingleUse!Next]_(SingleUse!abstract)
    <3>1. \A x \in Addr :
             /\ addresses'[x].State = IF x = a THEN "RETIRED" ELSE addresses[x].State
             /\ addresses'[x].SpendTxID = addresses[x].SpendTxID
             /\ addresses'[x].RecoveryPendingOutpoints = addresses[x].RecoveryPendingOutpoints
      BY <2>0, <2>8 DEF Retire, putRecord
    <3>2. /\ addresses[a].State = "SPENT" /\ addresses[a].RecoveryPendingOutpoints = {}
          /\ signed' = signed
      BY <2>8 DEF Retire
    <3>3. Born' = Born /\ Credited' = Credited /\ Destroyed' = Destroyed \cup {a}
      BY <3>1, <3>2 DEF Born, Credited, Destroyed
    <3>4. SpentBy' = SpentBy /\ Locked' = Locked
      BY <3>1 DEF SpentBy, Locked
    <3>5. Promised' = Promised
      BY <3>2 DEF Promised, SignedTxIDs
    <3>6. SpentBy[a] # NoTx /\ \A o \in Locked : Owner[o] # a
      BY <2>0, <3>2, LockedAreOwned DEF SpentBy, SpendRecorded, Locked
    <3>7. SingleUse!Destroy(a)
      BY <3>3, <3>4, <3>5, <3>6 DEF SingleUse!Destroy
    <3> QED BY <3>7 DEF SingleUse!Next
  <2>9. ASSUME NEW rec \in OutgoingRecord, PutTransaction(rec)
        PROVE [SingleUse!Next]_(SingleUse!abstract)
    <3>1. addresses' = addresses /\ signed' = signed
      BY <2>9 DEF PutTransaction
    <3> QED BY <2>0, <3>1, AbstractFrame
  <2>10. ASSUME NEW t \in SignedTxIDs, DeletePendingBroadcast(t)
        PROVE [SingleUse!Next]_(SingleUse!abstract)
    <3>1. addresses' = addresses /\ signed' = signed
      BY <2>10 DEF DeletePendingBroadcast
    <3> QED BY <2>0, <3>1, AbstractFrame
  <2>11. CASE UNCHANGED vars
    <3>1. addresses' = addresses /\ signed' = signed
      BY <2>11 DEF vars
    <3> QED BY <2>0, <3>1, AbstractFrame
  <2> QED BY <2>1, <2>2, <2>3, <2>4, <2>5, <2>6, <2>7, <2>8, <2>9, <2>10, <2>11 DEF Next
<1> QED BY <1>1, <1>2, TypeCorrect, IndexSafe, PTL DEF Spec, KeepsPromises, SingleUse!Spec
=============================================================================
