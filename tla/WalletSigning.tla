--------------------------- MODULE WalletSigning ---------------------------
(***************************************************************************)
(* Package wallet above the index: callers that sign, observe, purge and   *)
(* refill the address pool at the same time, and a process that may die.   *)
(*                                                                         *)
(* Each index method is one step (it takes ki.mu and runs one bolt         *)
(* transaction).  A wallet method is a sequence of such steps with nothing *)
(* but signMu between them, and only the signing methods take signMu: so   *)
(* what a signer read may be stale when it commits.                        *)
(*                                                                         *)
(* The contents of messages, transactions and signatures are left out; so  *)
(* are the checks of signP2QPKInputs on its own arguments, which fail      *)
(* before anything is written.                                             *)
(***************************************************************************)
EXTENDS KeyIndex

CONSTANTS
  Thread,    \* the callers
  NoThread,  \* signMu is free
  PoolSize   \* PreGenPoolSize

\* The bounded index has room for one pool.
ASSUME PoolAssumption == PoolSize \in 1 .. MaxIndex /\ NoThread \notin Thread

VARIABLES
  signMu,        \* the thread that holds signMu, or NoThread
  call,          \* what each thread is doing
  returned,      \* history: raw transactions handed to a caller
  refillFailed   \* history: a refill gave up and none has counted since

walletVars == <<signMu, call, returned, refillFailed>>
allVars == <<vars, walletVars>>

\* op: SignAndStoreP2QPKInputs, SignAndStoreRecoverableP2QPKInputs,
\* SignMessage, SignTransaction, ObserveSpendConfirmation, a fillPool that ends
\* the call, and the fillPool of openWallet.
Op == {"none", "spend", "recovery", "message", "legacy", "confirm", "fill", "open"}
Pc == {"idle", "lock", "source", "change", "sign", "return", "confirm", "count", "generate"}
Call == [op : Op, pc : Pc,
         addr : Addr, txid : TxID \cup {NoTx}, needed : 0 .. PoolSize]

Idle == [op |-> "none", pc |-> "idle", addr |-> 0, txid |-> NoTx, needed |-> 0]

\* A wallet exists for its callers once openWallet has returned.
MayCall(th) == call[th] = Idle /\ \A other \in Thread : call[other].op # "open"

Begin(th, op, pc, a, t) ==
  /\ MayCall(th)
  /\ call' = [call EXCEPT ![th] = [op |-> op, pc |-> pc, addr |-> a, txid |-> t, needed |-> 0]]

Goto(th, pc) == call' = [call EXCEPT ![th].pc = pc]
Return(th)   == call' = [call EXCEPT ![th] = Idle]

AvailableCount == Cardinality({a \in Addr : AvailableFresh(a)})

\* openWallet of a new database: the pool is empty.
SigningInit ==
  /\ Init
  /\ signMu = NoThread
  /\ \E th \in Thread :
        call = [x \in Thread |->
                  IF x = th THEN [Idle EXCEPT !.op = "open", !.pc = "count"] ELSE Idle]
  /\ returned = {}
  /\ refillFailed = FALSE

-----------------------------------------------------------------------------
(* Signing: lock, check the source, check the change, sign, commit, return *)

\* SignP2QPKInput(s), SignAndStore... and their recovery forms.
CallSignP2QPKInputs(th, t, kind) ==
  /\ Begin(th, kind, "lock", TxFrom[t], t)
  /\ UNCHANGED <<vars, signMu, returned, refillFailed>>

CallSignMessage(th, a) ==
  /\ a < next_index
  /\ Begin(th, "message", "lock", a, NoTx)
  /\ UNCHANGED <<vars, signMu, returned, refillFailed>>

CallSignTransaction(th, t) ==
  /\ Begin(th, "legacy", "lock", TxFrom[t], t)
  /\ UNCHANGED <<vars, signMu, returned, refillFailed>>

\* Mutant: SignMessage does not take signMu.
LockSignMu_NotForMessages(th) ==
  /\ call[th].pc = "lock"
  /\ call[th].op # "message" => signMu = NoThread
  /\ signMu' = IF call[th].op = "message" THEN signMu ELSE th
  /\ Goto(th, IF call[th].op = "legacy" THEN "change" ELSE "source")
  /\ UNCHANGED <<vars, returned, refillFailed>>

\* SignTransaction checks its change before its source, signP2QPKInputs after.
LockSignMu(th) ==
  /\ call[th].pc = "lock"
  /\ signMu = NoThread
  /\ signMu' = th
  /\ Goto(th, IF call[th].op = "legacy" THEN "change" ELSE "source")
  /\ UNCHANGED <<vars, returned, refillFailed>>

\* Mutant: an early return leaves signMu locked.
ReturnUnlocked_KeepsLock(th) == Return(th) /\ UNCHANGED signMu

ReturnUnlocked(th) == Return(th) /\ signMu' = NoThread

SourceMaySign(rec, op, t) ==
  IF op = "recovery"
  THEN /\ rec.State = "SPENT"
       /\ rec.HasRecoverableBalance
       /\ rec.RecoveryPendingOutpoints = {}
       /\ TxInputs[t] \subseteq rec.RecoverableOutpoints
  ELSE rec.State = "FUNDED"

\* GetRecord of the source, and the gate on its state.
CheckSource(th) ==
  /\ call[th].pc = "source"
  /\ \/ /\ SourceMaySign(addresses[call[th].addr], call[th].op, call[th].txid)
        /\ Goto(th, IF call[th].op \in {"spend", "recovery"} THEN "change" ELSE "sign")
        /\ UNCHANGED signMu
     \/ /\ ~SourceMaySign(addresses[call[th].addr], call[th].op, call[th].txid)
        /\ ReturnUnlocked(th)
  /\ UNCHANGED <<vars, returned, refillFailed>>

\* GetRecord of the change address; a spend may have none, SignTransaction not.
ChangeMayBeUsed(op, c) == IF op = "legacy" THEN c # NoAddr /\ AvailableFresh(c)
                                           ELSE ChangeIsAvailable(c)

CheckChange(th) ==
  /\ call[th].pc = "change"
  /\ \/ /\ ChangeMayBeUsed(call[th].op, TxChange[call[th].txid])
        /\ Goto(th, IF call[th].op = "legacy" THEN "source" ELSE "sign")
        /\ UNCHANGED signMu
     \/ /\ ~ChangeMayBeUsed(call[th].op, TxChange[call[th].txid])
        /\ ReturnUnlocked(th)
  /\ UNCHANGED <<vars, returned, refillFailed>>

\* SignMessage and SignTransaction: sign and return, nothing is committed.
SignOnly(th) ==
  /\ call[th].pc = "sign"
  /\ call[th].op \in {"message", "legacy"}
  /\ ReturnUnlocked(th)
  /\ UNCHANGED <<vars, returned, refillFailed>>

Commit(t, op) ==
  IF op = "spend" THEN MarkSpendPendingAndReserveChange(TxFrom[t], TxChange[t], t)
                  ELSE MarkRecoveryPendingAndReserveChange(TxFrom[t], TxChange[t], t, TxInputs[t])

\* Mutant: the raw transaction is handed over even if the commit failed.
SignAndCommit_IgnoresError(th) ==
  LET t == call[th].txid  op == call[th].op
  IN  /\ call[th].pc = "sign"
      /\ op \in {"spend", "recovery"}
      /\ Commit(t, op) \/ UNCHANGED vars
      /\ Goto(th, "return")
      /\ UNCHANGED <<signMu, returned, refillFailed>>

\* signP2QPKInputs signs every input, commits, and only then returns the raw
\* transaction.  If a seed cannot be decrypted, a signature not made or the
\* transaction of bbolt not committed (the index checks again what the gates
\* checked, and the disk may fail), the signatures are dropped.
SignAndCommit(th) ==
  LET t == call[th].txid  op == call[th].op
  IN  /\ call[th].pc = "sign"
      /\ op \in {"spend", "recovery"}
      /\ \/ Commit(t, op) /\ Goto(th, "return") /\ UNCHANGED signMu
         \/ ReturnUnlocked(th) /\ UNCHANGED vars
      /\ UNCHANGED <<returned, refillFailed>>

ReturnRaw(th) ==
  /\ call[th].pc = "return"
  /\ returned' = returned \cup {[TxID |-> call[th].txid, Kind |-> call[th].op]}
  /\ ReturnUnlocked(th)
  /\ UNCHANGED <<vars, refillFailed>>

-----------------------------------------------------------------------------
(* Observing, purging and refilling the pool *)

\* Mutant: no refill after the credit.
ObserveFunding_NoRefill(th, a) ==
  MayCall(th) /\ MarkFunded(a) /\ UNCHANGED walletVars

ObserveFunding(th, a) ==
  /\ Begin(th, "fill", "count", a, NoTx)
  /\ MarkFunded(a)
  /\ UNCHANGED <<signMu, returned, refillFailed>>

OnConfirmation(th, a) ==
  /\ Begin(th, "fill", "count", a, NoTx)
  /\ MarkSpent(a)
  /\ UNCHANGED <<signMu, returned, refillFailed>>

\* GetRecord and the checks on it; MarkSpent is a transaction of its own.
ObserveSpendConfirmation(th, a, t) ==
  /\ addresses[a].State = "SPEND_PENDING"
  /\ addresses[a].SpendTxID = t
  /\ Begin(th, "confirm", "confirm", a, t)
  /\ UNCHANGED <<vars, signMu, returned, refillFailed>>

\* Mutant: MarkSpent is retried until it succeeds.
ConfirmSpend_Retries(th) ==
  /\ call[th].pc = "confirm"
  /\ \/ /\ MarkSpent(call[th].addr)
        /\ call' = [call EXCEPT ![th].op = "fill", ![th].pc = "count"]
     \/ /\ addresses[call[th].addr].State # "SPEND_PENDING"
        /\ UNCHANGED <<vars, call>>
  /\ UNCHANGED <<signMu, returned, refillFailed>>

\* MarkSpent fails if another caller was first, or with its transaction.
ConfirmSpend(th) ==
  /\ call[th].pc = "confirm"
  /\ \/ /\ MarkSpent(call[th].addr)
        /\ call' = [call EXCEPT ![th].op = "fill", ![th].pc = "count"]
     \/ /\ Return(th)
        /\ UNCHANGED vars
  /\ UNCHANGED <<signMu, returned, refillFailed>>

ObserveRecoverableBalance(th, a, current, mature) ==
  MayCall(th) /\ ObserveRecoverableOutpoints(a, current, mature) /\ UNCHANGED walletVars

PurgeSpentKey(th, a) == MayCall(th) /\ Retire(a) /\ UNCHANGED walletVars

\* PreGenerate counts in one transaction and generates in others.
CountAvailableFresh(th) ==
  /\ call[th].pc = "count"
  /\ IF AvailableCount >= PoolSize
     THEN Return(th)
     ELSE call' = [call EXCEPT ![th].pc = "generate", ![th].needed = PoolSize - AvailableCount]
  /\ refillFailed' = FALSE
  /\ UNCHANGED <<vars, signMu, returned>>

PreGenerate(th) ==
  /\ call[th].pc = "generate"
  /\ GenerateAddress
  /\ IF call[th].needed = 1 THEN Return(th)
                            ELSE call' = [call EXCEPT ![th].needed = @ - 1]
  /\ UNCHANGED <<signMu, returned, refillFailed>>

\* Counting, deriving, encrypting or storing may fail (at the bound MaxIndex
\* generating always does): what is generated stays, and ObserveFunding and
\* OnConfirmation only warn.  Where openWallet fails there is no wallet, and
\* opening once more is CrashAndOpen.
RefillFails(th) ==
  /\ call[th].pc \in {"count", "generate"}
  /\ call[th].op # "open"
  /\ Return(th)
  /\ refillFailed' = TRUE
  /\ UNCHANGED <<vars, signMu, returned>>

\* The process dies and the wallet is opened again: the database survives, and
\* openWallet fills the pool before anyone else may call.  (Bound: only while
\* the bounded index can still fill a pool, since openWallet fails if it cannot.)
CrashAndOpen(th) ==
  /\ next_index + PoolSize <= MaxIndex
  /\ signMu' = NoThread
  /\ call' = [x \in Thread |->
                IF x = th THEN [Idle EXCEPT !.op = "open", !.pc = "count"] ELSE Idle]
  /\ UNCHANGED <<vars, returned, refillFailed>>

-----------------------------------------------------------------------------

Step(th) ==
  \/ LockSignMu(th) \/ CheckSource(th) \/ CheckChange(th)
  \/ SignOnly(th) \/ SignAndCommit(th) \/ ReturnRaw(th)
  \/ ConfirmSpend(th) \/ CountAvailableFresh(th) \/ PreGenerate(th) \/ RefillFails(th)

SigningNext ==
  \E th \in Thread :
    \/ Step(th)
    \/ \E t \in TxID, kind \in Kind : CallSignP2QPKInputs(th, t, kind)
    \/ \E t \in TxID : CallSignTransaction(th, t)
    \/ \E a \in Addr : \/ CallSignMessage(th, a) \/ ObserveFunding(th, a)
                       \/ OnConfirmation(th, a) \/ PurgeSpentKey(th, a)
    \/ \E a \in Addr, t \in TxID : ObserveSpendConfirmation(th, a, t)
    \/ \E a \in Addr, mature \in BOOLEAN : \E current \in SUBSET OutpointsOf(a) :
         ObserveRecoverableBalance(th, a, current, mature)
    \/ CrashAndOpen(th)

\* A goroutine that can run does; Go's mutex hands itself to a waiter that has
\* starved, so a caller waiting for signMu gets it although others keep coming.
Fairness == \A th \in Thread : WF_allVars(Step(th)) /\ SF_allVars(LockSignMu(th))

SigningSpec == SigningInit /\ [][SigningNext]_allVars /\ Fairness

-----------------------------------------------------------------------------
(* What the wallet promises its callers *)

\* The mutex is held by a thread that is signing, and by nobody else.
SigningTypeOK ==
  /\ signMu \in Thread \cup {NoThread}
  /\ call \in [Thread -> Call]
  /\ returned \subseteq SignedTx
  /\ refillFailed \in BOOLEAN
  /\ \A th \in Thread : signMu = th <=> call[th].pc \in {"source", "change", "sign", "return"}

PastGate(c) == c.op # "recovery" /\ (c.pc = "sign" \/ (c.pc = "change" /\ c.op = "spend"))

\* Between the gate and the signature the source stays FUNDED for a message, a
\* legacy signature or a spend, however many callers there are: only signers
\* take an address out of FUNDED, and signers exclude each other.
GateStillHolds ==
  \A th \in Thread : PastGate(call[th]) => addresses[call[th].addr].State = "FUNDED"

\* The transaction that ObserveSpendConfirmation compared with the record is
\* still the one the record names when MarkSpent runs in its own transaction.
ConfirmsItsOwnSpend ==
  \A th \in Thread :
     call[th].pc = "confirm" => addresses[call[th].addr].SpendTxID = call[th].txid

\* A raw transaction that has left the wallet is stored for rebroadcast, under
\* the kind it was signed as: a crash or a failed commit never loses one that
\* somebody may already have broadcast.
ReturnedIsStored ==
  \A r \in returned : \E p \in pending_broadcasts : p.TxID = r.TxID /\ p.Kind = r.Kind

\* The pool has PoolSize addresses, but for those that signatures have reserved
\* since (signing does not refill), unless a refill is under way or the last one
\* warned that it failed: no credit slips past refills that interleave.
PoolRefilled ==
  (\A th \in Thread : call[th].pc \notin {"count", "generate"}) /\ ~refillFailed
     => Cardinality({a \in Addr : addresses[a].State = "FRESH"}) >= PoolSize

\* What a call is about: the transaction and the address it was called with.
CallMatches ==
  \A th \in Thread :
    /\ call[th].op \in {"spend", "recovery", "legacy", "confirm"} => call[th].txid \in TxID
    /\ call[th].op \in {"spend", "recovery", "legacy"} =>
         call[th].addr = TxFrom[call[th].txid]
    /\ call[th].pc = "change" => call[th].op \in {"spend", "recovery", "legacy"}
    /\ call[th].pc = "return" => call[th].op \in {"spend", "recovery"}
    /\ call[th].pc = "confirm" => call[th].op = "confirm"
    /\ call[th].pc = "generate" => call[th].needed > 0

\* Between its commit and its return a transaction is stored.
CommitIsStored ==
  \A th \in Thread : call[th].pc = "return" =>
    \E p \in pending_broadcasts : p.TxID = call[th].txid /\ p.Kind = call[th].op

\* Every call returns, unless the process keeps dying: no path, error paths
\* included, keeps signMu.
NoMoreCrashes == <>[][\A th \in Thread : ~CrashAndOpen(th)]_allVars
CallsReturn ==
  NoMoreCrashes => \A th \in Thread : call[th] # Idle ~> call[th] = Idle
=============================================================================
