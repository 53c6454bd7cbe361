------------------------------ MODULE KeyIndex ------------------------------
(***************************************************************************)
(* The single-use address index of package keystore: the bbolt database    *)
(* behind KeyIndex and every method that writes to it.                     *)
(*                                                                         *)
(* Every method takes ki.mu and does its reads, its checks and its writes  *)
(* in one bolt transaction, so one method call is one action.  A method    *)
(* that returns an error rolls its transaction back: the call is then a    *)
(* stuttering step, and the conditions under which it succeeds are the     *)
(* guard of the action.                                                    *)
(*                                                                         *)
(* An address is named by its derivation index, which derivation makes     *)
(* one-to-one.  A transaction id is a hash of what the transaction commits *)
(* to, so a txid determines its source, its inputs and its change output:  *)
(* the constant functions TxFrom, TxInputs and TxChange.                   *)
(***************************************************************************)
EXTENDS Naturals, FiniteSetsExt

CONSTANTS
  MaxIndex,   \* bound: at most this many addresses are ever generated
  Outpoint,   \* unspent outputs the chain can show on wallet addresses
  Owner,      \* Outpoint -> Addr, the address whose script an outpoint pays
  TxID,       \* ids of the transactions the wallet may be asked to sign
  TxFrom,     \* TxID -> Addr, the source address
  TxInputs,   \* TxID -> SUBSET Outpoint, the inputs
  TxChange,   \* TxID -> Addr \cup {NoAddr}, where the change goes
  DepositTx,  \* ids of the transactions that pay the wallet: other people's,
              \* and its own payments to one of its addresses
  MaxSats,    \* bound: the largest amount of one deposit
  MaxBalance, \* bound: the largest balance reported for one address
  Stamp,      \* the times at which a broadcast can be recorded
  NoAddr,     \* the empty ChangeAddr
  NoTx        \* the empty SpendTxID / RecoverySpendTxID

Addr == 0 .. MaxIndex - 1

OutpointsOf(a) == {o \in Outpoint : Owner[o] = a}

ASSUME MaxIndexAssumption == MaxIndex \in Nat

\* signP2QPKInputs rejects an empty input list, and an input whose script is
\* not the source's; change goes to another address because the source is
\* FUNDED or SPENT while change is FRESH.
ASSUME TxAssumption ==
  /\ Owner \in [Outpoint -> Addr]
  /\ TxFrom \in [TxID -> Addr]
  /\ TxInputs \in [TxID -> SUBSET Outpoint]
  /\ \A t \in TxID : TxInputs[t] # {} /\ TxInputs[t] \subseteq OutpointsOf(TxFrom[t])
  /\ TxChange \in [TxID -> Addr \cup {NoAddr}]
  /\ \A t \in TxID : TxChange[t] # TxFrom[t]
  /\ NoAddr \notin Addr
  /\ NoTx \notin TxID

ASSUME SatsAssumption == MaxSats \in Nat /\ MaxBalance \in Nat

VARIABLES
  next_index,         \* meta bucket: the next derivation index
  addresses,          \* addresses bucket, by index
  transactions,       \* transactions bucket: history records
  pending_broadcasts, \* pending_broadcasts bucket
  signed,             \* history: the signings that were committed
  released            \* history: txids whose recovery lock a scan cleared

vars == <<next_index, addresses, transactions, pending_broadcasts, signed, released>>

-----------------------------------------------------------------------------
(* Records *)

AddressState == {"FRESH", "FUNDED", "SPEND_PENDING", "SPENT", "RETIRED"}

\* "NONE" is the state of an index with no record yet.
AddressRecord ==
  [State                    : AddressState \cup {"NONE"},
   EncSeedBlob              : BOOLEAN,
   HasRecoverableBalance    : BOOLEAN,
   RecoverableOutpoints     : SUBSET Outpoint,
   RecoveryPendingOutpoints : SUBSET Outpoint,
   RecoverySpendTxID        : TxID \cup {NoTx},
   Reserved                 : BOOLEAN,
   SpendTxID                : TxID \cup {NoTx}]

BlankRecord ==
  [State                    |-> "NONE",
   EncSeedBlob              |-> FALSE,
   HasRecoverableBalance    |-> FALSE,
   RecoverableOutpoints     |-> {},
   RecoveryPendingOutpoints |-> {},
   RecoverySpendTxID        |-> NoTx,
   Reserved                 |-> FALSE,
   SpendTxID                |-> NoTx]

FreshRecord == [BlankRecord EXCEPT !.State = "FRESH", !.EncSeedBlob = TRUE]

Kind == {"spend", "recovery"}

PendingBroadcast == [TxID : TxID, Kind : Kind, SourceAddress : Addr]

\* An incoming record's Destination is one of our addresses, and its time is
\* left out: an address is credited once.  An outgoing record's destination,
\* amount and fee are fixed by its txid; its time is when it was broadcast.
IncomingRecord == [Direction : {"incoming"}, TxID : DepositTx, Destination : Addr,
                   AmountSats : 0 .. MaxSats]
OutgoingRecord == [Direction : {"outgoing"}, TxID : TxID, RecordedAt : Stamp]

historyKey(rec) ==
  IF rec.Direction = "incoming" THEN <<"in", rec.TxID, rec.Destination>>
                                ELSE <<"out", rec.TxID>>

\* The records ObserveFundingWithHistory builds: one per deposit.
IncomingFor(a, sats) ==
  {[Direction |-> "incoming", TxID |-> d, Destination |-> a,
    AmountSats |-> sats[d]] : d \in DOMAIN sats}

TotalSats(recs) == MapThenSumSet(LAMBDA r : r.AmountSats, recs)

\* Mutant: the stored record under the key is not compared.
HistoryAccepts_NewOnly(ts, recs) ==
  \A r, q \in recs : historyKey(q) = historyKey(r) => q = r

\* putHistoryRecord for each of recs: every key is new, or already holds
\* exactly this record.
HistoryAccepts(ts, recs) ==
  \A r \in recs : \A q \in ts \cup recs : historyKey(q) = historyKey(r) => q = r

putHistoryRecords(ts, recs) ==
  {q \in ts : \A r \in recs : historyKey(q) # historyKey(r)} \cup recs

-----------------------------------------------------------------------------
(* Addresses *)

Init ==
  /\ next_index = 0
  /\ addresses = [a \in Addr |-> BlankRecord]
  /\ transactions = {}
  /\ pending_broadcasts = {}
  /\ signed = {}
  /\ released = {}

putRecord(a, rec) == [addresses EXCEPT ![a] = rec]

AvailableFresh(a) == addresses[a].State = "FRESH" /\ ~addresses[a].Reserved

\* Mutant: the incremented index is not saved.
GenerateAddress_SameIndex ==
  /\ next_index < MaxIndex
  /\ addresses' = putRecord(next_index, FreshRecord)
  /\ UNCHANGED <<next_index, transactions, pending_broadcasts, signed, released>>

GenerateAddress ==
  /\ next_index < MaxIndex
  /\ addresses' = putRecord(next_index, FreshRecord)
  /\ next_index' = next_index + 1
  /\ UNCHANGED <<transactions, pending_broadcasts, signed, released>>

Funded(rec) == [rec EXCEPT !.State = "FUNDED", !.Reserved = FALSE]

\* Mutant: any known address is credited, whatever its state.
MarkFunded_AnyState(a) ==
  /\ addresses[a].State # "NONE"
  /\ addresses' = putRecord(a, Funded(addresses[a]))
  /\ UNCHANGED <<next_index, transactions, pending_broadcasts, signed, released>>

MarkFunded(a) ==
  /\ addresses[a].State = "FRESH"
  /\ addresses' = putRecord(a, Funded(addresses[a]))
  /\ UNCHANGED <<next_index, transactions, pending_broadcasts, signed, released>>

\* A reserved change address is funded by our own transaction: no incoming
\* history.  Any other address needs records that add up to its balance.
MarkFundedAndRecordIncoming(a, balanceSats, incoming) ==
  /\ addresses[a].State = "FRESH"
  /\ \/ /\ addresses[a].Reserved
        /\ UNCHANGED transactions
     \/ /\ ~addresses[a].Reserved
        /\ incoming # {}
        /\ \A r \in incoming : r.Destination = a /\ r.AmountSats > 0
        /\ TotalSats(incoming) = balanceSats
        /\ HistoryAccepts(transactions, incoming)
        /\ transactions' = putHistoryRecords(transactions, incoming)
  /\ addresses' = putRecord(a, Funded(addresses[a]))
  /\ UNCHANGED <<next_index, pending_broadcasts, signed, released>>

-----------------------------------------------------------------------------
(* Committing a signature *)

\* Mutant: a FRESH address is offered again although it is reserved.
ChangeIsAvailable_FreshOnly(c) == c # NoAddr => addresses[c].State = "FRESH"

ChangeIsAvailable(c) == c # NoAddr => AvailableFresh(c)

\* putPendingForTransition with the one broadcast signP2QPKInputs always
\* passes: the entry must be new.
putPending(t, kind, a) ==
  /\ \A p \in pending_broadcasts : p.TxID # t
  /\ pending_broadcasts' =
       pending_broadcasts \cup {[TxID |-> t, Kind |-> kind, SourceAddress |-> a]}

\* Mutant: the reservation is not saved.
ReserveChange_NotSaved(recs, c) == recs

ReserveChange(recs, c) ==
  [x \in Addr |-> IF x = c THEN [recs[x] EXCEPT !.Reserved = TRUE] ELSE recs[x]]

MarkSpendPendingAndReserveChange(from, change, t) ==
  /\ addresses[from].State = "FUNDED"
  /\ ChangeIsAvailable(change)
  /\ putPending(t, "spend", from)
  /\ addresses' =
       ReserveChange(putRecord(from, [addresses[from] EXCEPT !.State = "SPEND_PENDING",
                                                             !.SpendTxID = t]), change)
  /\ signed' = signed \cup {[TxID |-> t, Kind |-> "spend"]}
  /\ UNCHANGED <<next_index, transactions, released>>

\* The selected outpoints are locked; the rest stay recoverable.
RecoveryCommitted(rec, t, outpoints) ==
  LET remaining == rec.RecoverableOutpoints \ outpoints
  IN  [rec EXCEPT !.RecoverableOutpoints = remaining,
                  !.HasRecoverableBalance = (remaining # {}),
                  !.RecoveryPendingOutpoints = outpoints,
                  !.RecoverySpendTxID = t]

MarkRecoveryPendingAndReserveChange(from, change, t, outpoints) ==
  LET rec == addresses[from]
  IN  /\ rec.State = "SPENT"
      /\ rec.RecoveryPendingOutpoints = {}
      /\ rec.HasRecoverableBalance
      /\ outpoints # {}
      /\ outpoints \subseteq rec.RecoverableOutpoints
      /\ ChangeIsAvailable(change)
      /\ putPending(t, "recovery", from)
      /\ addresses' =
           ReserveChange(putRecord(from, RecoveryCommitted(rec, t, outpoints)), change)
      /\ signed' = signed \cup {[TxID |-> t, Kind |-> "recovery"]}
      /\ UNCHANGED <<next_index, transactions, released>>

-----------------------------------------------------------------------------
(* Reconciling with the chain *)

\* A scan that still shows a locked outpoint keeps the lock and withdraws the
\* recovery authority; one that shows none of them clears the lock first.
LockHeld(rec, current) == rec.RecoveryPendingOutpoints \cap current # {}

\* Mutant: every scan replaces the lock by what it saw.
Reconciled_DropsLock(rec, current, mature) ==
  LET has == mature /\ current # {}
  IN  [rec EXCEPT !.HasRecoverableBalance = has,
                  !.RecoverableOutpoints = IF has THEN current ELSE {},
                  !.RecoveryPendingOutpoints = {},
                  !.RecoverySpendTxID = NoTx]

Reconciled(rec, current, mature) ==
  LET held == LockHeld(rec, current)
      has  == mature /\ current # {} /\ ~held
  IN  [rec EXCEPT !.HasRecoverableBalance = has,
                  !.RecoverableOutpoints = IF has THEN current ELSE {},
                  !.RecoveryPendingOutpoints = IF held THEN @ ELSE {},
                  !.RecoverySpendTxID = IF held THEN @ ELSE NoTx]

ObserveRecoverableOutpoints(a, current, mature) ==
  /\ addresses[a].State = "SPENT"
  /\ addresses' = putRecord(a, Reconciled(addresses[a], current, mature))
  /\ released' = IF LockHeld(addresses[a], current) THEN released
                 ELSE released \cup ({addresses[a].RecoverySpendTxID} \ {NoTx})
  /\ UNCHANGED <<next_index, transactions, pending_broadcasts, signed>>

MarkSpent(a) ==
  /\ addresses[a].State = "SPEND_PENDING"
  /\ addresses' = putRecord(a, [addresses[a] EXCEPT !.State = "SPENT"])
  /\ UNCHANGED <<next_index, transactions, pending_broadcasts, signed, released>>

\* Mutant: a purge looks at the state alone.
Retire_StateOnly(a) ==
  /\ addresses[a].State = "SPENT"
  /\ addresses' = putRecord(a, [addresses[a] EXCEPT !.State = "RETIRED", !.EncSeedBlob = FALSE])
  /\ UNCHANGED <<next_index, transactions, pending_broadcasts, signed, released>>

Retire(a) ==
  /\ addresses[a].State = "SPENT"
  /\ ~addresses[a].HasRecoverableBalance
  /\ addresses[a].RecoveryPendingOutpoints = {}
  /\ addresses' = putRecord(a, [addresses[a] EXCEPT !.State = "RETIRED", !.EncSeedBlob = FALSE])
  /\ UNCHANGED <<next_index, transactions, pending_broadcasts, signed, released>>

PutTransaction(rec) ==
  /\ HistoryAccepts(transactions, {rec})
  /\ transactions' = putHistoryRecords(transactions, {rec})
  /\ UNCHANGED <<next_index, addresses, pending_broadcasts, signed, released>>

DeletePendingBroadcast(t) ==
  /\ pending_broadcasts' = {p \in pending_broadcasts : p.TxID # t}
  /\ UNCHANGED <<next_index, addresses, transactions, signed, released>>

-----------------------------------------------------------------------------

SignedTxIDs == {s.TxID : s \in signed}

Next ==
  \/ GenerateAddress
  \/ \E a \in Addr : MarkFunded(a)
  \/ \E a \in Addr, D \in SUBSET DepositTx :
        \E sats \in [D -> 0 .. MaxSats], balanceSats \in 1 .. MaxBalance :
           MarkFundedAndRecordIncoming(a, balanceSats, IncomingFor(a, sats))
  \/ \E t \in TxID : MarkSpendPendingAndReserveChange(TxFrom[t], TxChange[t], t)
  \/ \E t \in TxID : MarkRecoveryPendingAndReserveChange(TxFrom[t], TxChange[t], t, TxInputs[t])
  \/ \E a \in Addr, mature \in BOOLEAN : \E current \in SUBSET OutpointsOf(a) :
        ObserveRecoverableOutpoints(a, current, mature)
  \/ \E a \in Addr : MarkSpent(a)
  \/ \E a \in Addr : Retire(a)
  \/ \E rec \in OutgoingRecord : rec.TxID \in SignedTxIDs /\ PutTransaction(rec)
  \/ \E t \in SignedTxIDs : DeletePendingBroadcast(t)

Spec == Init /\ [][Next]_vars

-----------------------------------------------------------------------------
(* What the index promises *)

SignedTx == [TxID : TxID, Kind : Kind]

\* The variables have the shape of the database and of the two history
\* variables (AddressRecord, TransactionRecord, PendingBroadcast).
TypeOK ==
  /\ next_index \in 0 .. MaxIndex
  /\ addresses \in [Addr -> AddressRecord]
  /\ transactions \subseteq IncomingRecord \cup OutgoingRecord
  /\ pending_broadcasts \subseteq PendingBroadcast
  /\ signed \subseteq SignedTx
  /\ released \subseteq TxID

Signed(t, kind) == [TxID |-> t, Kind |-> kind] \in signed

\* One key signs one spending transaction, whatever confirmations, scans and
\* recoveries come between: "single-use" of the package comment.
OneSpendPerKey ==
  \A s1, s2 \in signed :
     s1.Kind = "spend" /\ s2.Kind = "spend" /\ TxFrom[s1.TxID] = TxFrom[s2.TxID] => s1 = s2

\* No two signed transactions send change to the same address, and an address
\* already promised as change is never offered again: NextFreshAddress and a
\* later signing skip it until it is FUNDED by that change.
ChangePromisedOnce ==
  /\ \A t1, t2 \in SignedTxIDs :
        TxChange[t1] = TxChange[t2] /\ TxChange[t1] # NoAddr => t1 = t2
  /\ \A t \in SignedTxIDs : TxChange[t] # NoAddr => ~AvailableFresh(TxChange[t])

\* A reserved address is FRESH and is the change of a signed transaction: a
\* reservation never outlives FRESH and is never made without a signature.
ReservedIsOwed ==
  \A a \in Addr : addresses[a].Reserved =>
     addresses[a].State = "FRESH" /\ \E t \in SignedTxIDs : TxChange[t] = a

\* Change that comes back to the wallet is never shown as an incoming payment
\* (MarkFundedAndRecordIncoming reads Reserved before it clears it).
ChangeNeverIncoming ==
  \A t \in SignedTxIDs, r \in transactions :
     r.Direction = "incoming" => r.Destination # TxChange[t]

\* The encrypted key is on disk from generation until RETIRED, and is never
\* destroyed while the address still holds a recoverable balance or has a
\* recovery in flight.
KeyKeptWhileNeeded ==
  \A a \in Addr :
     /\ addresses[a].EncSeedBlob <=> addresses[a].State \notin {"NONE", "RETIRED"}
     /\ ~addresses[a].EncSeedBlob =>
          ~addresses[a].HasRecoverableBalance /\ addresses[a].RecoveryPendingOutpoints = {}

\* Recovery data sits on SPENT addresses only; the outpoints still on offer are
\* disjoint from those locked by the signed recovery, which are its inputs.
RecoveryLockMatches ==
  \A a \in Addr :
     LET rec == addresses[a]
     IN  /\ rec.HasRecoverableBalance <=> rec.RecoverableOutpoints # {}
         /\ rec.RecoverableOutpoints \cap rec.RecoveryPendingOutpoints = {}
         /\ rec.RecoverableOutpoints \cup rec.RecoveryPendingOutpoints # {} => rec.State = "SPENT"
         /\ rec.RecoverySpendTxID = NoTx <=> rec.RecoveryPendingOutpoints = {}
         /\ rec.RecoverySpendTxID # NoTx =>
              /\ Signed(rec.RecoverySpendTxID, "recovery")
              /\ TxFrom[rec.RecoverySpendTxID] = a
              /\ rec.RecoveryPendingOutpoints = TxInputs[rec.RecoverySpendTxID]

\* Two different recoveries that share an input are both signed only if a scan
\* reported the first one's outpoints gone in between.
NoRecoveryConflict ==
  \A s1, s2 \in signed :
     /\ s1.Kind = "recovery" /\ s2.Kind = "recovery" /\ s1 # s2
     /\ TxInputs[s1.TxID] \cap TxInputs[s2.TxID] # {}
     => {s1.TxID, s2.TxID} \cap released # {}

\* Every stored broadcast is a signed transaction of the source it names; a
\* stored spend is the one its source is waiting for or has been spent by.
PendingIsTracked ==
  \A p \in pending_broadcasts :
     /\ Signed(p.TxID, p.Kind)
     /\ p.SourceAddress = TxFrom[p.TxID]
     /\ p.Kind = "spend" => addresses[p.SourceAddress].SpendTxID = p.TxID
     /\ \A q \in pending_broadcasts : q.TxID = p.TxID => q = p

\* A step keeps every history record as it is, and no two records share a key.
HistoryStep ==
  /\ transactions \subseteq transactions'
  /\ \A r, q \in transactions' : historyKey(r) = historyKey(q) => r = q

\* History is append-only and write-once: a record is never removed or
\* overwritten, whichever method writes (putHistoryRecord's conflict check).
HistoryWriteOnce == [][HistoryStep]_vars

-----------------------------------------------------------------------------
(* What makes the promises inductive *)

\* Addresses are generated in derivation order and an index is never reused.
IndexIsMonotonic ==
  \A a \in Addr : addresses[a].State = "NONE" <=> a >= next_index

\* An address names the spend its key has signed exactly from SPEND_PENDING on.
SpendRecorded ==
  /\ \A a \in Addr :
        /\ addresses[a].SpendTxID # NoTx
             <=> addresses[a].State \in {"SPEND_PENDING", "SPENT", "RETIRED"}
        /\ addresses[a].SpendTxID # NoTx =>
             TxFrom[addresses[a].SpendTxID] = a /\ Signed(addresses[a].SpendTxID, "spend")
  /\ \A t \in TxID : Signed(t, "spend") => addresses[TxFrom[t]].SpendTxID = t

\* A promised change address exists, and while FRESH it is reserved.
ChangeHeld ==
  \A t \in SignedTxIDs : TxChange[t] # NoAddr =>
     /\ addresses[TxChange[t]].State # "NONE"
     /\ addresses[TxChange[t]].State = "FRESH" => addresses[TxChange[t]].Reserved

\* Only an address that has been credited has incoming history.
IncomingIsCredited ==
  \A r \in transactions :
     r.Direction = "incoming" => addresses[r.Destination].State \notin {"NONE", "FRESH"}

\* A signed recovery still holds its lock unless a scan cleared it.
RecoveryOutstanding ==
  \A t \in TxID : Signed(t, "recovery") =>
     t \in released \/ addresses[TxFrom[t]].RecoverySpendTxID = t

SpendInv    == SpendRecorded /\ OneSpendPerKey
ChangeInv   == IndexIsMonotonic /\ ChangePromisedOnce /\ ReservedIsOwed /\ ChangeHeld
HistoryInv  == IncomingIsCredited /\ ChangeNeverIncoming
RecoveryInv == RecoveryLockMatches /\ KeyKeptWhileNeeded /\ RecoveryOutstanding /\ NoRecoveryConflict

\* The inductive invariant: the promises above, and what each rests on.
IInv        == SpendInv /\ ChangeInv /\ HistoryInv /\ RecoveryInv /\ PendingIsTracked

Born      == {a \in Addr : addresses[a].State # "NONE"}
Credited  == {a \in Addr : addresses[a].State \notin {"NONE", "FRESH"}}
SpentBy   == [a \in Addr |-> addresses[a].SpendTxID]
Promised  == {TxChange[t] : t \in SignedTxIDs} \ {NoAddr}
Locked    == UNION {addresses[a].RecoveryPendingOutpoints : a \in Addr}
Destroyed == {a \in Addr : addresses[a].State = "RETIRED"}

SingleUse == INSTANCE SingleUse WITH
  born <- Born, credited <- Credited, spentBy <- SpentBy,
  promised <- Promised, locked <- Locked, destroyed <- Destroyed

\* The index keeps the promises of SingleUse, whatever is generated, funded,
\* signed, observed, retired and deleted, and in whatever order.
KeepsPromises == SingleUse!Spec
=============================================================================
