----------------------------- MODULE WalletNode -----------------------------
(***************************************************************************)
(* One wallet, the GUI that drives it, the node it asks and the chain.     *)
(*                                                                         *)
(* The GUI runs on one thread: a handler runs to its end before the next   *)
(* one starts, and while a dialog is open nothing else can be pressed.     *)
(* Between two calls of a handler the chain and the mempool move and the   *)
(* process may die, so what a handler learnt from the node may be stale.   *)
(*                                                                         *)
(* The node is modelled by what the GUI sees of it: any call may fail, and *)
(* the answer to sendrawtransaction may be lost after the node accepted.   *)
(* Fees, scripts and the choice of inputs are in CoinSelection.            *)
(***************************************************************************)
EXTENDS KeyIndex

CONSTANTS
  Creator,   \* Outpoint -> TxID \cup DepositTx, the transaction it is an output of
  Amount,    \* Outpoint -> Nat, its satoshis
  TxTo,      \* TxID -> Addr \cup {NoAddr}, the wallet's own address it pays
  FundingMinConfirmations,
  PoolSize,  \* PreGenPoolSize
  MaxDepth,  \* bound: confirmations are counted up to here
  MaxReorgs, \* bound: blocks that are ever disconnected
  Payments,  \* bound: the transactions that the Send page composes
  MaxDemos   \* bound: uses of the command line's options 3 and 5

ChainTx == TxID \cup DepositTx

\* A transaction's outputs to the wallet are its change and its own-address
\* destination, and nothing else; the latter make it a deposit as well.  No
\* worthless output is shown by scantxoutset here.
ASSUME NodeAssumption ==
  /\ Creator \in [Outpoint -> ChainTx]
  /\ Amount \in [Outpoint -> Nat \ {0}]
  /\ TxTo \in [TxID -> Addr \cup {NoAddr}]
  /\ \A o \in Outpoint : Creator[o] \in TxID =>
       \/ Owner[o] = TxChange[Creator[o]]
       \/ Owner[o] = TxTo[Creator[o]] /\ Creator[o] \in DepositTx
  /\ Payments \subseteq TxID
  /\ FundingMinConfirmations \in 1 .. MaxDepth
  /\ PoolSize \in 1 .. MaxIndex
  /\ MaxDepth \in Nat /\ MaxReorgs \in Nat /\ MaxDemos \in Nat

VARIABLES
  depth,    \* the chain: confirmations of each transaction, 0 if in no block
  mempool,  \* our transactions in the node's mempool
  sent,     \* history: our transactions a node has ever accepted
  reorgs,   \* how many blocks have been disconnected
  demos,    \* how often the command line has been believed
  session,  \* the GUI's memory: signed transactions, gates, rows, selection
  task      \* the handler that is running

nodeVars  == <<depth, mempool, sent, reorgs>>
guiVars   == <<session, task>>
worldVars == <<vars, nodeVars, demos, guiVars>>

-----------------------------------------------------------------------------
(* The chain and the node's mempool *)

Unspent == {o \in Outpoint : depth[Creator[o]] > 0 /\
              \A t \in TxID : depth[t] > 0 => o \notin TxInputs[t]}

Conflicts(t, T) == \E u \in T \ {t} : TxInputs[u] \cap TxInputs[t] # {}

\* What testmempoolaccept allows: a transaction the node does not have, whose
\* inputs are on the chain and spent neither there nor in the mempool.
Accepts(t) ==
  /\ t \notin mempool /\ depth[t] = 0
  /\ TxInputs[t] \subseteq Unspent
  /\ ~Conflicts(t, mempool)

\* A block may take our transactions from any node that has ever had them.
Mineable(T) ==
  /\ T \cap TxID \subseteq sent
  /\ \A t \in T \cap TxID : TxInputs[t] \subseteq Unspent /\ ~Conflicts(t, T \cap TxID)
  /\ \A o \in Outpoint : Creator[o] \in T \ TxID => addresses[Owner[o]].State # "NONE"

Mine(T) ==
  /\ Mineable(T)
  /\ \A t \in T : depth[t] = 0
  /\ depth' = [t \in ChainTx |-> IF t \in T THEN 1
                                 ELSE IF depth[t] \in 1 .. MaxDepth - 1 THEN depth[t] + 1
                                 ELSE depth[t]]
  /\ mempool' = {t \in mempool \ T : ~Conflicts(t, T \cap TxID)}
  /\ UNCHANGED <<vars, sent, reorgs, demos, guiVars>>

\* The last block is disconnected; the node takes our transactions back.
Reorg ==
  LET undone == {t \in ChainTx : depth[t] = 1}
  IN  /\ reorgs < MaxReorgs
      /\ undone # {}
      /\ reorgs' = reorgs + 1
      /\ depth' = [t \in ChainTx |-> IF depth[t] = 0 THEN 0 ELSE depth[t] - 1]
      /\ mempool' = mempool \cup {t \in undone \cap TxID : ~Conflicts(t, mempool)}
      /\ UNCHANGED <<vars, sent, demos, guiVars>>

Evict ==
  /\ \E t \in mempool : mempool' = mempool \ {t}
  /\ UNCHANGED <<vars, depth, sent, reorgs, demos, guiVars>>

-----------------------------------------------------------------------------
(* The GUI's memory and its handlers *)

\* The two pages that sign, and the list of pending broadcasts.
Panel == {"send", "recovery", "pending"}

\* signedTxHex, recoverySignedHex and the rows with a test button; approved is
\* what each broadcastGate has approved, one gate for each row of the list.
Session == [send : TxID \cup {NoTx}, recovery : TxID \cup {NoTx}, rows : SUBSET TxID,
            approved : [Panel -> SUBSET TxID], to : Addr \cup {NoAddr}]

NoSession == [send |-> NoTx, recovery |-> NoTx, rows |-> {},
              approved |-> [p \in Panel |-> {}], to |-> NoAddr]

Pc == {"idle", "fund", "scan", "recover", "confirm", "render", "reconcile", "clear",
       "sign", "send", "record", "settle"}

\* fill: a transition is committed and fillPool is to run before anything else.
Task == [pc : Pc, fill : BOOLEAN, panel : Panel, tx : TxID \cup {NoTx},
         addrs : SUBSET Addr, list : SUBSET TxID,
         seen : SUBSET Outpoint, mature : SUBSET Addr]

Idle == [pc |-> "idle", fill |-> FALSE, panel |-> "send", tx |-> NoTx,
         addrs |-> {}, list |-> {}, seen |-> {}, mature |-> {}]

At(pc) == task.pc = pc /\ ~task.fill
Finish == task' = Idle

InState(s) == {a \in Addr : addresses[a].State = s}

PendingTxIDs == {p.TxID : p \in pending_broadcasts}

Current(panel) == IF panel = "pending" THEN session.rows
                  ELSE {session[panel]} \ {NoTx}

\* RecordMempoolResult and Reset of the gate of t's button on this panel.
Gate(panel, t, allowed) ==
  [session EXCEPT !.approved[panel] =
     (IF panel = "pending" THEN @ \ {t} ELSE {}) \cup (IF allowed THEN {t} ELSE {})]

AvailableCount == Cardinality({a \in Addr : AvailableFresh(a)})

\* NextFreshAddress: the lowest one.
IsNextFresh(a) == AvailableFresh(a) /\ \A b \in Addr : AvailableFresh(b) => a <= b

\* openWallet of a new database: the pool is to be filled.
NodeInit ==
  /\ Init
  /\ depth = [t \in ChainTx |-> 0]
  /\ mempool = {} /\ sent = {} /\ reorgs = 0 /\ demos = 0
  /\ session = NoSession
  /\ task = [Idle EXCEPT !.fill = TRUE]

\* fillPool.  After a credit or a confirmation it may fail at any point, which
\* its callers only warn about; before that (pc idle) the wallet is being
\* opened, and an opening that fails is tried again.  MaxIndex is a bound.
FillPool ==
  /\ task.fill
  /\ \/ AvailableCount < PoolSize /\ GenerateAddress /\ UNCHANGED task
     \/ /\ task.pc = "idle" => AvailableCount >= PoolSize \/ next_index = MaxIndex
        /\ task' = [task EXCEPT !.fill = FALSE]
        /\ UNCHANGED vars
  /\ UNCHANGED <<nodeVars, demos, session>>

\* The process dies, or the user leaves; the wallet is opened again.
Restart ==
  /\ session' = NoSession
  /\ task' = [Idle EXCEPT !.fill = TRUE]
  /\ UNCHANGED <<vars, nodeVars, demos>>

-----------------------------------------------------------------------------
(* "Refresh addresses": three stages, each on a scan or lookups of its own *)

Sats(S) == MapThenSumSet(LAMBDA o : Amount[o], S)

\* The bounds of KeyIndex leave room for every balance an address can have.
ASSUME AmountsFit ==
  \A a \in Addr : \A S \in SUBSET OutpointsOf(a) :
     S # {} => Sats(S) \in 1 .. MaxSats /\ Sats(S) \in 1 .. MaxBalance

\* Mutant: the deepest output counts, not the shallowest.
Mature_Deepest(a) ==
  \E o \in Unspent \cap OutpointsOf(a) : depth[Creator[o]] >= FundingMinConfirmations

\* Mutant: depth is counted one too high.
Mature_OffByOne(a) ==
  /\ Unspent \cap OutpointsOf(a) # {}
  /\ \A o \in Unspent \cap OutpointsOf(a) : depth[Creator[o]] + 1 >= FundingMinConfirmations

\* AnalyzeFunding, and the threshold of the wallet's observers: the balance is
\* positive and its shallowest output is deep enough.
Mature(a) ==
  /\ Unspent \cap OutpointsOf(a) # {}
  /\ \A o \in Unspent \cap OutpointsOf(a) : depth[Creator[o]] >= FundingMinConfirmations

MatureAddrs == {a \in Addr : Mature(a)}

\* Mutant: outputs that the mempool spends are left out (gettxout's default).
SeenOn_Mempool(A) ==
  {o \in Unspent : Owner[o] \in A /\ \A t \in mempool : o \notin TxInputs[t]}

SeenOn(A) == {o \in Unspent : Owner[o] \in A}

\* The first scan; if it fails no address is credited.
StartRefresh ==
  /\ At("idle")
  /\ \/ LET credited == InState("FRESH") \cap MatureAddrs
        IN  task' = [Idle EXCEPT !.pc = "fund", !.addrs = credited, !.seen = SeenOn(credited)]
     \/ task' = [Idle EXCEPT !.pc = "fund"]
  /\ UNCHANGED <<vars, nodeVars, demos, session>>

\* Mutant: history and state are written in two transactions, the second fails.
ObserveFundingWithHistory_HistoryOnly(a) ==
  LET paid == task.seen \cap OutpointsOf(a)
      sats == [d \in {Creator[o] : o \in paid} |-> Sats({o \in paid : Creator[o] = d})]
  IN  /\ At("fund")
      /\ a \in task.addrs /\ \A b \in task.addrs : a <= b
      /\ HistoryAccepts(transactions, IncomingFor(a, sats))
      /\ transactions' = putHistoryRecords(transactions, IncomingFor(a, sats))
      /\ task' = [task EXCEPT !.addrs = @ \ {a}]
      /\ UNCHANGED <<next_index, addresses, pending_broadcasts, signed, released,
                     nodeVars, demos, session>>

\* AnalyzeDeposits groups the outputs seen by transaction.
ObserveFundingWithHistory(a) ==
  LET paid == task.seen \cap OutpointsOf(a)
      sats == [d \in {Creator[o] : o \in paid} |-> Sats({o \in paid : Creator[o] = d})]
  IN  /\ At("fund")
      /\ a \in task.addrs /\ \A b \in task.addrs : a <= b
      /\ MarkFundedAndRecordIncoming(a, Sats(paid), IncomingFor(a, sats))
      /\ task' = [task EXCEPT !.addrs = @ \ {a}, !.fill = TRUE]
      /\ UNCHANGED <<nodeVars, demos, session>>

\* The first two stages end at the first call that fails.
ObserveFails ==
  /\ At("fund") \/ At("recover")
  /\ task.addrs # {}
  /\ task' = [task EXCEPT !.addrs = {}]
  /\ UNCHANGED <<vars, nodeVars, demos, session>>

ToConfirm == [Idle EXCEPT !.pc = "confirm", !.addrs = InState("SPEND_PENDING")]

\* The second scan, of SPENT addresses; without one, or if it fails, go on.
ScanSpent ==
  /\ At("fund") /\ task.addrs = {}
  /\ \/ /\ InState("SPENT") # {}
        /\ task' = [Idle EXCEPT !.pc = "recover", !.addrs = InState("SPENT"),
                                !.seen = SeenOn(InState("SPENT")),
                                !.mature = InState("SPENT") \cap MatureAddrs]
     \/ task' = ToConfirm
  /\ UNCHANGED <<vars, nodeVars, demos, session>>

ObserveRecoverableBalance(a) ==
  /\ At("recover")
  /\ a \in task.addrs /\ \A b \in task.addrs : a <= b
  /\ ObserveRecoverableOutpoints(a, task.seen \cap OutpointsOf(a), a \in task.mature)
  /\ task' = [task EXCEPT !.addrs = @ \ {a}]
  /\ UNCHANGED <<nodeVars, demos, session>>

StartConfirm ==
  /\ At("recover") /\ task.addrs = {}
  /\ task' = ToConfirm
  /\ UNCHANGED <<vars, nodeVars, demos, session>>

\* TransactionConfirmations found t in a block.
Confirmed(t) == depth[t] >= 1

ObserveSpendConfirmation(a) ==
  /\ At("confirm") /\ a \in task.addrs
  /\ Confirmed(addresses[a].SpendTxID)
  /\ MarkSpent(a)
  /\ task' = [task EXCEPT !.addrs = @ \ {a}, !.fill = TRUE]
  /\ UNCHANGED <<nodeVars, demos, session>>

\* The lookup failed, or the node does not know the transaction, or it is
\* still in the mempool.
SkipSpendConfirmation(a) ==
  /\ At("confirm") /\ a \in task.addrs
  /\ task' = [task EXCEPT !.addrs = @ \ {a}]
  /\ UNCHANGED <<vars, nodeVars, demos, session>>

\* renderPending starts: the old rows and their gates are gone.
StartRender(entries) ==
  /\ task' = [Idle EXCEPT !.pc = "render", !.list = entries]
  /\ session' = [session EXCEPT !.rows = {}, !.approved["pending"] = {}]

EndRefresh ==
  /\ At("confirm") /\ task.addrs = {}
  /\ StartRender(PendingTxIDs)
  /\ UNCHANGED <<vars, nodeVars, demos>>

-----------------------------------------------------------------------------
(* The list of pending broadcasts: renderPending, inspectPendingBroadcast *)

RefreshPending ==
  /\ At("idle")
  /\ StartRender(PendingTxIDs)
  /\ UNCHANGED <<vars, nodeVars, demos>>

NextRow(t) == At("render") /\ t \in task.list

\* Not found on the node: the row gets a test button.
RowUnknown(t) ==
  /\ NextRow(t)
  /\ t \notin mempool /\ depth[t] = 0
  /\ session' = [session EXCEPT !.rows = @ \cup {t}]
  /\ task' = [task EXCEPT !.list = @ \ {t}]
  /\ UNCHANGED <<vars, nodeVars, demos>>

\* The lookup failed, or the transaction waits in the mempool.
RowWaits(t) ==
  /\ NextRow(t)
  /\ task' = [task EXCEPT !.list = @ \ {t}]
  /\ UNCHANGED <<vars, nodeVars, demos, session>>

RowConfirmed(t) ==
  /\ NextRow(t)
  /\ Confirmed(t)
  /\ task' = [task EXCEPT !.list = @ \ {t}, !.pc = "reconcile", !.tx = t]
  /\ UNCHANGED <<vars, nodeVars, demos, session>>

PendingKind(t, kind) == \E p \in pending_broadcasts : p.TxID = t /\ p.Kind = kind

\* Mutant: a source that is SPENT already is an error as well.
ReconcileSpend_OnlyWaiting ==
  LET t == task.tx  a == TxFrom[t]
  IN  /\ At("reconcile") /\ PendingKind(t, "spend")
      /\ \/ /\ addresses[a].SpendTxID = t
            /\ MarkSpent(a)
            /\ task' = [task EXCEPT !.pc = "clear", !.fill = TRUE]
         \/ /\ addresses[a].SpendTxID # t \/ addresses[a].State # "SPEND_PENDING"
            /\ task' = [task EXCEPT !.pc = "render", !.tx = NoTx]
            /\ UNCHANGED vars
      /\ UNCHANGED <<nodeVars, demos, session>>

\* The source is SPENT by this transaction already, or becomes it now; any
\* other source is an error, and the entry stays.
ReconcileSpend ==
  LET t == task.tx  a == TxFrom[t]
  IN  /\ At("reconcile") /\ PendingKind(t, "spend")
      /\ \/ /\ addresses[a].State = "SPENT" /\ addresses[a].SpendTxID = t
            /\ task' = [task EXCEPT !.pc = "clear"]
            /\ UNCHANGED vars
         \/ /\ addresses[a].SpendTxID = t
            /\ MarkSpent(a)
            /\ task' = [task EXCEPT !.pc = "clear", !.fill = TRUE]
         \/ /\ addresses[a].SpendTxID # t \/ addresses[a].State \notin {"SPENT", "SPEND_PENDING"}
            /\ task' = [task EXCEPT !.pc = "render", !.tx = NoTx]
            /\ UNCHANGED vars
      /\ UNCHANGED <<nodeVars, demos, session>>

\* A scan of the source; the entry may go once no locked output is left on it.
\* A source that is not SPENT any more is an error.
ReconcileRecovery ==
  LET t == task.tx  a == TxFrom[t]
  IN  /\ At("reconcile") /\ PendingKind(t, "recovery")
      /\ \/ /\ ObserveRecoverableOutpoints(a, Unspent \cap OutpointsOf(a), Mature(a))
            /\ task' = IF addresses'[a].RecoveryPendingOutpoints = {}
                       THEN [task EXCEPT !.pc = "clear"]
                       ELSE [task EXCEPT !.pc = "render", !.tx = NoTx]
         \/ /\ addresses[a].State # "SPENT"
            /\ task' = [task EXCEPT !.pc = "render", !.tx = NoTx]
            /\ UNCHANGED vars
      /\ UNCHANGED <<nodeVars, demos, session>>

\* The scan or a write fails: the entry stays.
ReconcileFails ==
  /\ At("reconcile") \/ At("clear")
  /\ task' = [task EXCEPT !.pc = "render", !.tx = NoTx]
  /\ UNCHANGED <<vars, nodeVars, demos, session>>

ClearEntry ==
  /\ At("clear")
  /\ DeletePendingBroadcast(task.tx)
  /\ task' = [task EXCEPT !.pc = "render", !.tx = NoTx]
  /\ UNCHANGED <<nodeVars, demos, session>>

EndRender ==
  /\ At("render") /\ task.list = {}
  /\ Finish
  /\ UNCHANGED <<vars, nodeVars, demos, session>>

-----------------------------------------------------------------------------
(* Send and Recover from Spent: preview, sign, test, broadcast *)

\* populateSendDropdowns: the To list offers FRESH addresses, but what was
\* chosen stays chosen until there is none to offer.
Repopulated(s) == IF AvailableCount = 0 THEN [s EXCEPT !.to = NoAddr] ELSE s

RefreshSendAddresses ==
  /\ At("idle")
  /\ session' = Repopulated(session)
  /\ UNCHANGED <<vars, nodeVars, demos, task>>

\* Choosing from an older list is choosing earlier.
ChooseTo(a) ==
  /\ At("idle")
  /\ AvailableFresh(a)
  /\ session' = [session EXCEPT !.to = a]
  /\ UNCHANGED <<vars, nodeVars, demos, task>>

\* A preview resets the page's gate first; that of a recovery also forgets the
\* last signed recovery.
Forget(panel) ==
  [session EXCEPT !.approved[panel] = {}, ![panel] = IF panel = "recovery" THEN NoTx ELSE @]

OpenDialog(panel, t) ==
  /\ session' = IF panel = "send" THEN Repopulated(Forget(panel)) ELSE Forget(panel)
  /\ task' = [Idle EXCEPT !.pc = "sign", !.panel = panel, !.tx = t]

\* The scan of the source has no threshold: any confirmed output can be an
\* input.  Change goes to NextReceiveAddress, unless that is the destination.
PreviewSend(t) ==
  /\ At("idle") /\ t \in Payments
  /\ addresses[TxFrom[t]].State = "FUNDED"
  /\ TxInputs[t] \subseteq Unspent
  /\ TxTo[t] \in {NoAddr, Repopulated(session).to}
  /\ TxChange[t] # NoAddr => IsNextFresh(TxChange[t]) /\ TxChange[t] # TxTo[t]
  /\ OpenDialog("send", t)
  /\ UNCHANGED <<vars, nodeVars, demos>>

\* A source stays selected although its balance has been recovered since.
PreviewRecovery(t) ==
  /\ At("idle")
  /\ addresses[TxFrom[t]].State \in {"SPENT", "RETIRED"}
  /\ TxInputs[t] \subseteq Unspent
  /\ TxChange[t] = NoAddr
  /\ OpenDialog("recovery", t)
  /\ UNCHANGED <<vars, nodeVars, demos>>

PreviewFails(panel) ==
  /\ At("idle") /\ panel # "pending"
  /\ \/ session' = Forget(panel)
     \/ panel = "send" /\ session' = Repopulated(Forget(panel))
  /\ UNCHANGED <<vars, nodeVars, demos, task>>

SignAndStore ==
  LET t == task.tx
  IN  /\ At("sign")
      /\ \/ /\ task.panel = "send"
            /\ MarkSpendPendingAndReserveChange(TxFrom[t], TxChange[t], t)
         \/ /\ task.panel = "recovery"
            /\ MarkRecoveryPendingAndReserveChange(TxFrom[t], TxChange[t], t, TxInputs[t])
      /\ session' = [session EXCEPT ![task.panel] = t]
      /\ Finish
      /\ UNCHANGED <<nodeVars, demos>>

\* The user cancels, or signing or saving fails.
NotSigned ==
  /\ At("sign")
  /\ Finish
  /\ UNCHANGED <<vars, nodeVars, demos, session>>

\* testmempoolaccept; it may also refuse by policy, or the call may fail.
TestTransaction(panel, t) ==
  /\ At("idle") /\ t \in Current(panel)
  /\ \/ Accepts(t) /\ session' = Gate(panel, t, TRUE)
     \/ session' = Gate(panel, t, FALSE)
  /\ UNCHANGED <<vars, nodeVars, demos, task>>

\* The gate must have approved exactly what would be sent.  The list asks the
\* node once more, and stops if it knows the transaction or does not answer.
Broadcast(panel, t) ==
  /\ At("idle") /\ t \in Current(panel) \cap session.approved[panel]
  /\ \/ /\ panel = "pending" => t \notin mempool /\ depth[t] = 0
        /\ task' = [Idle EXCEPT !.pc = "send", !.panel = panel, !.tx = t]
        /\ UNCHANGED session
     \/ /\ panel = "pending"
        /\ session' = Gate(panel, t, FALSE)
        /\ UNCHANGED task
  /\ UNCHANGED <<vars, nodeVars, demos>>

\* Mutant: whatever the answer, the broadcast is taken to have worked.
SendRawTransaction_AnyAnswer ==
  LET t == task.tx
  IN  /\ At("send")
      /\ \/ /\ Accepts(t) \/ t \in mempool
            /\ mempool' = mempool \cup {t}
            /\ sent' = sent \cup {t}
         \/ UNCHANGED <<mempool, sent>>
      /\ task' = [task EXCEPT !.pc = "record"]
      /\ UNCHANGED <<vars, depth, reorgs, demos, session>>

\* The node takes it and says so; or takes it and the answer is lost; or
\* refuses, or is not reached.  Without an answer nothing is written.
SendRawTransaction ==
  LET t == task.tx
  IN  /\ At("send")
      /\ \/ /\ Accepts(t) \/ t \in mempool
            /\ mempool' = mempool \cup {t}
            /\ sent' = sent \cup {t}
            /\ task' \in {[task EXCEPT !.pc = "record"], Idle}
         \/ UNCHANGED <<mempool, sent>> /\ Finish
      /\ UNCHANGED <<vars, depth, reorgs, demos, session>>

\* RecordOutgoingTransaction; that it fails is only a warning.
RecordOutgoing(at) ==
  LET rec == [Direction |-> "outgoing", TxID |-> task.tx, RecordedAt |-> at]
  IN  /\ At("record")
      /\ \/ PutTransaction(rec)
         \/ UNCHANGED vars
      /\ task' = [task EXCEPT !.pc = "settle"]
      /\ UNCHANGED <<nodeVars, demos, session>>

\* Mutant: the list is not rendered again.
SettlePending_OldList ==
  /\ At("settle")
  /\ DeletePendingBroadcast(task.tx)
  /\ Finish
  /\ session' = Gate(task.panel, task.tx, FALSE)
  /\ UNCHANGED <<nodeVars, demos>>

\* The entry is deleted, or that fails, which is only a warning; the gate is
\* reset and the list rendered again.
SettlePending ==
  LET t == task.tx  reset == Gate(task.panel, t, FALSE)
  IN  /\ At("settle")
      /\ \/ /\ DeletePendingBroadcast(t)
            /\ task' = [Idle EXCEPT !.pc = "render", !.list = PendingTxIDs \ {t}]
         \/ /\ task' = [Idle EXCEPT !.pc = "render", !.list = PendingTxIDs]
            /\ UNCHANGED vars
      /\ session' = [reset EXCEPT !.rows = {}, !.approved["pending"] = {}]
      /\ UNCHANGED <<nodeVars, demos>>

-----------------------------------------------------------------------------
(* The command line, used while the GUI is closed, with constant confirmations *)

CommandLine ==
  /\ At("idle") /\ session = NoSession
  /\ demos < MaxDemos
  /\ demos' = demos + 1
  /\ task' = [Idle EXCEPT !.fill = TRUE]
  /\ UNCHANGED <<nodeVars, session>>

DemoConfirmation(a) == CommandLine /\ MarkSpent(a)
DemoPurge(a)        == CommandLine /\ Retire(a)

-----------------------------------------------------------------------------

ChainNext == (\E T \in SUBSET ChainTx : Mine(T)) \/ Reorg \/ Evict

\* A handler that has started goes on, and the user answers its dialog.
HandlerNext ==
  \/ FillPool \/ ObserveFails \/ ScanSpent \/ StartConfirm \/ EndRefresh
  \/ \E a \in Addr : \/ ObserveFundingWithHistory(a) \/ ObserveRecoverableBalance(a)
                     \/ ObserveSpendConfirmation(a) \/ SkipSpendConfirmation(a)
  \/ \E t \in TxID : RowUnknown(t) \/ RowWaits(t) \/ RowConfirmed(t)
  \/ ReconcileSpend \/ ReconcileRecovery \/ ReconcileFails \/ ClearEntry \/ EndRender
  \/ SignAndStore \/ NotSigned \/ SendRawTransaction \/ SettlePending
  \/ \E at \in Stamp : RecordOutgoing(at)

UserNext ==
  \/ StartRefresh \/ RefreshPending \/ RefreshSendAddresses
  \/ \E a \in Addr : ChooseTo(a) \/ DemoConfirmation(a) \/ DemoPurge(a)
  \/ \E t \in TxID : PreviewSend(t) \/ PreviewRecovery(t)
  \/ \E panel \in Panel : \/ PreviewFails(panel)
                          \/ \E t \in TxID : TestTransaction(panel, t) \/ Broadcast(panel, t)

NodeNext == ChainNext \/ HandlerNext \/ UserNext \/ Restart

\* A handler runs, and the user presses Refresh again and again.
NodeFairness == WF_worldVars(HandlerNext) /\ SF_worldVars(StartRefresh)

NodeSpec == NodeInit /\ [][NodeNext]_worldVars /\ NodeFairness

-----------------------------------------------------------------------------
(* What the whole promises *)

\* The chain, the GUI's memory and the running handler have their types.
NodeTypeOK ==
  /\ TypeOK
  /\ depth \in [ChainTx -> 0 .. MaxDepth]
  /\ mempool \subseteq sent /\ sent \subseteq SignedTxIDs
  /\ reorgs \in 0 .. MaxReorgs /\ demos \in 0 .. MaxDemos
  /\ session \in Session /\ task \in Task

\* Whatever the pages, the node, the chain and the crashes do between two calls,
\* every step leaves the database alone or is one call of KeyIndex, complete and
\* with arguments the index allows: a credit comes with its history, a signature
\* with its stored transaction, and an entry that is deleted was signed.
UsesIndex == Spec

\* A FUNDED address holds money on the chain, although a block may be
\* disconnected between the scan and now: that is what the threshold of
\* AnalyzeFunding's shallowest output is for.
FundedIsBacked == \A a \in InState("FUNDED") : Unspent \cap OutpointsOf(a) # {}

\* History tells what happened: an outgoing record is of a transaction that a
\* node accepted, an incoming one of a deposit that is on the chain.
HistoryIsTrue ==
  \A r \in transactions : IF r.Direction = "outgoing" THEN r.TxID \in sent
                                                      ELSE depth[r.TxID] > 0

\* The only copy of a signed transaction is not deleted before a node has
\* accepted it, whatever fails, is lost or dies on the way.
StoredUntilSent == SignedTxIDs \subseteq PendingTxIDs \cup sent

\* Unless a block was disconnected or the command line believed, no two
\* transactions the wallet has signed spend the same output: recovery offers
\* an output only after every earlier transaction of its address was mined.
SignaturesNeverConflict ==
  reorgs = 0 /\ demos = 0 => \A t \in SignedTxIDs : ~Conflicts(t, SignedTxIDs)

\* What the list says of a row still holds when it is broadcast: a row with a
\* test button is stored, and every approved transaction is the current one.
GatesAreCurrent ==
  /\ session.rows \subseteq PendingTxIDs
  /\ \A panel \in Panel : session.approved[panel] \subseteq Current(panel)

\* A lookup of a confirmed transaction, its reconciliation or a write fails; a
\* reconciliation that refuses is not a failure, although its step looks alike.
CallFails ==
  \/ ReconcileFails /\ ~(ReconcileSpend \/ ReconcileRecovery \/ ClearEntry)
  \/ \E a \in Addr : SkipSpendConfirmation(a) /\ Confirmed(addresses[a].SpendTxID)
  \/ \E t \in TxID : RowWaits(t) /\ Confirmed(t)

TroubleEnds == <>[][~Restart /\ ~CallFails]_worldVars

\* The list cannot settle t: its source is RETIRED, or a recovery of the same
\* address that was signed later still locks outputs the chain shows.
Blocked(t) ==
  LET rec == addresses[TxFrom[t]]
  IN  \/ rec.State = "RETIRED"
      \/ PendingKind(t, "recovery") /\ rec.RecoveryPendingOutpoints \cap Unspent # {}

\* A transaction that is mined for good is settled in the end, however its
\* broadcast went: its source is not waiting, and its entry goes once nothing
\* blocks it.  (Premise: restarts and failing calls come to an end.)
MinedIsSettled ==
  TroubleEnds =>
    \A t \in TxID :
      /\ <>[](depth[t] > 0) => <>[](addresses[TxFrom[t]].State # "SPEND_PENDING")
      /\ <>[](depth[t] > 0 /\ ~Blocked(t)) => <>[](t \notin PendingTxIDs)

-----------------------------------------------------------------------------
(* What the documentation says, and the code does not do *)

\* A payment to the wallet itself is signed only to an address that is FRESH
\* and not reserved: a key that has been used or promised is not paid again.
PaysFreshAddress ==
  [][\A t \in TxID : t \in SignedTxIDs' \ SignedTxIDs /\ TxTo[t] # NoAddr =>
       AvailableFresh(TxTo[t])]_worldVars
=============================================================================
