-------------------------- MODULE WalletNodeProofs --------------------------
(* Theorems about the wallet with its GUI, its node and the chain, for any    *)
(* number of addresses, outputs and transactions: the handlers, then what the *)
(* wallet's data says of the chain.  The GUI drives the index as KeyIndex     *)
(* allows, a FUNDED address and the history tell the truth, and signatures do *)
(* not conflict.                                                              *)
EXTENDS WalletNode, KeyIndexProofs

-----------------------------------------------------------------------------
(* The inductive invariant *)

\* The running handler, the GUI's memory, the chain and the stored broadcasts
\* have their shape.
NodeShape ==
  /\ task \in Task
  /\ session \in Session
  /\ depth \in [ChainTx -> Nat]
  /\ pending_broadcasts \subseteq PendingBroadcast

\* A handler that works on a transaction has one.
TxInHand ==
  task.pc \in {"reconcile", "clear", "sign", "send", "record", "settle"} => task.tx \in TxID

\* What is in a block has been accepted by a node; so has what a handler is
\* about to delete from the list.
SentBeforeCleared ==
  /\ \A t \in TxID : depth[t] > 0 => t \in sent
  /\ task.pc \in {"reconcile", "clear", "record", "settle"} => task.tx \in sent

\* While the list is rendered, what is still to be asked about is stored, and
\* neither it nor the entry in hand has a row yet.
RenderInOrder ==
  /\ task.pc \in {"render", "reconcile", "clear"} =>
       task.list \subseteq PendingTxIDs /\ task.list \cap session.rows = {}
  /\ task.pc \in {"reconcile", "clear"} => task.tx \notin task.list \cup session.rows

\* A page whose dialog is open has forgotten what was approved on it.
DialogForgets ==
  task.pc = "sign" => task.panel \in {"send", "recovery"} /\ session.approved[task.panel] = {}

NodeInv ==
  /\ NodeShape
  /\ TxInHand
  /\ SentBeforeCleared
  /\ StoredUntilSent
  /\ RenderInOrder
  /\ DialogForgets
  /\ GatesAreCurrent

\* What the handlers build keeps its shape.
LEMMA NodeValues ==
  ASSUME NodeInv
  PROVE  /\ Idle \in Task /\ NoSession \in Session
         /\ \A s : InState(s) \subseteq Addr
         /\ \A S : SeenOn(S) \subseteq Outpoint
         /\ MatureAddrs \subseteq Addr
         /\ PendingTxIDs \subseteq TxID
         /\ \A panel \in Panel, t \in TxID, allowed \in BOOLEAN : Gate(panel, t, allowed) \in Session
         /\ \A panel \in Panel \ {"pending"} : Forget(panel) \in Session
         /\ \A s \in Session : Repopulated(s) \in Session
<1>0. session \in Session /\ pending_broadcasts \subseteq PendingBroadcast
  BY DEF NodeInv, NodeShape
<1>1. Idle \in Task
  BY DEF Idle, Task, Pc, Panel
<1>2. NoSession \in Session
  BY DEF NoSession, Session, Panel
<1>3. \A s : InState(s) \subseteq Addr
  BY DEF InState
<1>4. \A S : SeenOn(S) \subseteq Outpoint
  BY DEF SeenOn, Unspent
<1>5. MatureAddrs \subseteq Addr
  BY DEF MatureAddrs
<1>6. PendingTxIDs \subseteq TxID
  BY <1>0 DEF PendingTxIDs, PendingBroadcast
<1>7. ASSUME NEW panel \in Panel, NEW t \in TxID, NEW allowed \in BOOLEAN
      PROVE  Gate(panel, t, allowed) \in Session
  <2>1. \A S : S \in SUBSET TxID => [session EXCEPT !.approved[panel] = S] \in Session
    BY <1>0 DEF Session
  <2>2. session.approved[panel] \in SUBSET TxID
    BY <1>0 DEF Session
  <2> QED BY <2>1, <2>2 DEF Gate
<1>8. ASSUME NEW panel \in Panel \ {"pending"} PROVE Forget(panel) \in Session
  BY <1>0 DEF Forget, Session, Panel
<1>9. \A s \in Session : Repopulated(s) \in Session
  BY DEF Repopulated, Session
<1> QED BY <1>1, <1>2, <1>3, <1>4, <1>5, <1>6, <1>7, <1>8, <1>9

\* Every step keeps the shape.
LEMMA ShapeStep ==
  ASSUME NodeInv, [NodeNext]_worldVars PROVE NodeShape'
<1>0. /\ task \in Task /\ session \in Session /\ depth \in [ChainTx -> Nat]
      /\ pending_broadcasts \subseteq PendingBroadcast
  BY DEF NodeInv, NodeShape
<1>x. TxInHand
  BY DEF NodeInv
<1>i. /\ Idle \in Task /\ NoSession \in Session /\ PendingTxIDs \subseteq TxID
      /\ \A s : InState(s) \subseteq Addr
      /\ \A S : SeenOn(S) \subseteq Outpoint
      /\ MatureAddrs \subseteq Addr
  BY NodeValues
<1>g. /\ \A panel \in Panel, t \in TxID, allowed \in BOOLEAN : Gate(panel, t, allowed) \in Session
      /\ \A panel \in Panel \ {"pending"} : Forget(panel) \in Session
      /\ \A s \in Session : Repopulated(s) \in Session
  BY NodeValues
<1>c. ToConfirm \in Task
  BY <1>i DEF ToConfirm, Task, Pc
<1>r. ASSUME NEW entries \in SUBSET TxID, StartRender(entries)
      PROVE  task' \in Task /\ session' \in Session
  BY <1>0, <1>i, <1>r DEF StartRender, Task, Pc, Session
<1>s. ASSUME NEW addrs \in SUBSET Addr, NEW seen \in SUBSET Outpoint, NEW mature \in SUBSET Addr, NEW pc \in Pc
      PROVE  [Idle EXCEPT !.pc = pc, !.addrs = addrs, !.seen = seen, !.mature = mature] \in Task
  BY <1>i DEF Task
<1>t. ASSUME NEW panel \in Panel, NEW t \in TxID, NEW pc \in Pc
      PROVE  [Idle EXCEPT !.pc = pc, !.panel = panel, !.tx = t] \in Task
  BY <1>i DEF Task
<1>1. ASSUME NEW T \in SUBSET ChainTx, Mine(T) PROVE NodeShape'
  BY <1>0, <1>1 DEF Mine, vars, nodeVars, guiVars, NodeShape, Task, Session, Pc, Panel
<1>2. CASE Reorg
  BY <1>0, <1>2 DEF Reorg, vars, nodeVars, guiVars, NodeShape, Task, Session, Pc, Panel
<1>3. CASE Evict
  BY <1>0, <1>3 DEF Evict, vars, nodeVars, guiVars, NodeShape, Task, Session, Pc, Panel
<1>4. CASE FillPool
  BY <1>0, <1>4 DEF FillPool, GenerateAddress, vars, nodeVars, guiVars, NodeShape, Task, Session, Pc, Panel
<1>5. CASE ScanSpent
  <2>1. task' = ToConfirm \/ task' = [Idle EXCEPT !.pc = "recover", !.addrs = InState("SPENT"),
                                !.seen = SeenOn(InState("SPENT")),
                                !.mature = InState("SPENT") \cap MatureAddrs]
    BY <1>5 DEF ScanSpent
  <2>2. [Idle EXCEPT !.pc = "recover", !.addrs = InState("SPENT"), !.seen = SeenOn(InState("SPENT")),
                     !.mature = InState("SPENT") \cap MatureAddrs] \in Task
    <3>1. InState("SPENT") \cap MatureAddrs \subseteq Addr /\ "recover" \in Pc
      BY <1>i DEF Pc
    <3>2. InState("SPENT") \in SUBSET Addr /\ SeenOn(InState("SPENT")) \in SUBSET Outpoint
      BY <1>i
    <3> QED BY <1>s, <3>1, <3>2
  <2> QED BY <1>0, <1>5, <1>c, <2>1, <2>2 DEF ScanSpent, NodeShape, vars, nodeVars, guiVars
<1>6. CASE StartConfirm
  BY <1>0, <1>c, <1>6 DEF StartConfirm, NodeShape, vars, nodeVars, guiVars
<1>7. CASE EndRefresh
  BY <1>0, <1>i, <1>r, <1>7 DEF EndRefresh, NodeShape, vars, nodeVars, guiVars
<1>8. ASSUME NEW a \in Addr, ObserveFundingWithHistory(a) PROVE NodeShape'
  BY <1>0, <1>8 DEF ObserveFundingWithHistory, MarkFundedAndRecordIncoming, At, vars, nodeVars, guiVars, NodeShape, Task, Session, Pc, Panel
<1>9. ASSUME NEW a \in Addr, ObserveRecoverableBalance(a) PROVE NodeShape'
  BY <1>0, <1>9 DEF ObserveRecoverableBalance, ObserveRecoverableOutpoints, At, vars, nodeVars, guiVars, NodeShape, Task, Session, Pc, Panel
<1>10. ASSUME NEW a \in Addr, ObserveSpendConfirmation(a) PROVE NodeShape'
  BY <1>0, <1>10 DEF ObserveSpendConfirmation, MarkSpent, At, vars, nodeVars, guiVars, NodeShape, Task, Session, Pc, Panel
<1>11. ASSUME NEW a \in Addr, SkipSpendConfirmation(a) PROVE NodeShape'
  BY <1>0, <1>11 DEF SkipSpendConfirmation, At, vars, nodeVars, guiVars, NodeShape, Task, Session, Pc, Panel
<1>12. ASSUME NEW t \in TxID, RowUnknown(t) PROVE NodeShape'
  BY <1>0, <1>12 DEF RowUnknown, NextRow, At, vars, nodeVars, guiVars, NodeShape, Task, Session, Pc, Panel
<1>13. ASSUME NEW t \in TxID, RowWaits(t) PROVE NodeShape'
  BY <1>0, <1>13 DEF RowWaits, NextRow, At, vars, nodeVars, guiVars, NodeShape, Task, Session, Pc, Panel
<1>14. ASSUME NEW t \in TxID, RowConfirmed(t) PROVE NodeShape'
  BY <1>0, <1>14 DEF RowConfirmed, NextRow, Confirmed, At, vars, nodeVars, guiVars, NodeShape, Task, Session, Pc, Panel
<1>15. CASE ReconcileSpend
  BY <1>0, <1>15 DEF ReconcileSpend, MarkSpent, At, vars, nodeVars, guiVars, NodeShape, Task, Session, Pc, Panel
<1>16. CASE ReconcileRecovery
  <2>1. task' \in {[task EXCEPT !.pc = "clear"], [task EXCEPT !.pc = "render", !.tx = NoTx]}
    BY <1>16 DEF ReconcileRecovery
  <2>2. task' \in Task
    BY <1>0, <2>1 DEF Task, Pc
  <2>3. UNCHANGED <<depth, session, pending_broadcasts>>
    BY <1>16 DEF ReconcileRecovery, ObserveRecoverableOutpoints, vars, nodeVars
  <2> QED BY <1>0, <2>2, <2>3 DEF NodeShape
<1>17. CASE ReconcileFails \/ ObserveFails
  BY <1>0, <1>17 DEF ReconcileFails, ObserveFails, At, vars, nodeVars, guiVars, NodeShape, Task, Session, Pc, Panel
<1>18. CASE ClearEntry
  BY <1>0, <1>18 DEF ClearEntry, DeletePendingBroadcast, At, vars, nodeVars, guiVars, NodeShape, Task, Session, Pc, Panel
<1>19. CASE EndRender
  BY <1>0, <1>19 DEF EndRender, Finish, Idle, At, vars, nodeVars, guiVars, NodeShape, Task, Session, Pc, Panel
<1>20. CASE SignAndStore
  <2>1. task' = Idle /\ depth' = depth /\ task.panel \in {"send", "recovery"} /\ session' = [session EXCEPT ![task.panel] = task.tx]
    BY <1>20 DEF SignAndStore, Finish, vars, nodeVars, guiVars
  <2>2. task.tx \in TxID
    BY <1>20, <1>x DEF SignAndStore, At, TxInHand
  <2>5. pending_broadcasts' \subseteq pending_broadcasts \cup [TxID : {task.tx}, Kind : Kind, SourceAddress : {TxFrom[task.tx]}]
    BY <1>0, <1>20 DEF SignAndStore, MarkSpendPendingAndReserveChange, MarkRecoveryPendingAndReserveChange, putPending, Kind
  <2>3. session' \in Session
    BY <1>0, <2>1, <2>2 DEF Session
  <2>4. pending_broadcasts' \subseteq PendingBroadcast
    BY <1>0, <2>2, <2>5, TxAssumption DEF PendingBroadcast
  <2> QED BY <1>0, <1>i, <2>1, <2>3, <2>4 DEF NodeShape
<1>21. CASE NotSigned
  BY <1>0, <1>21 DEF NotSigned, Finish, Idle, At, vars, nodeVars, guiVars, NodeShape, Task, Session, Pc, Panel
<1>22. CASE SendRawTransaction
  <2>1. task' \in Task
    BY <1>0, <1>i, <1>22 DEF SendRawTransaction, Finish, Task, Pc
  <2> QED BY <1>0, <1>22, <2>1 DEF SendRawTransaction, NodeShape, vars, nodeVars, guiVars
<1>23. CASE SettlePending
  <2>1. task.tx \in TxID
    BY <1>23, <1>x DEF SettlePending, At, TxInHand
  <2>2. task' \in Task
    <3>1. \E list \in SUBSET TxID : task' = [Idle EXCEPT !.pc = "render", !.list = list]
      BY <1>i, <1>23 DEF SettlePending
    <3> QED BY <1>i, <3>1 DEF Task, Pc
  <2>3. session' \in Session
    BY <1>0, <1>g, <1>23, <2>1 DEF SettlePending, Session, Task
  <2> QED BY <1>0, <1>23, <2>2, <2>3 DEF SettlePending, DeletePendingBroadcast, NodeShape, vars, nodeVars, guiVars
<1>24. ASSUME NEW at \in Stamp, RecordOutgoing(at) PROVE NodeShape'
  BY <1>0, <1>24 DEF RecordOutgoing, PutTransaction, At, vars, nodeVars, guiVars, NodeShape, Task, Session, Pc, Panel
<1>25. CASE StartRefresh
  <2> DEFINE credited == InState("FRESH") \cap MatureAddrs
  <2>1. credited \in SUBSET Addr /\ SeenOn(credited) \in SUBSET Outpoint /\ "fund" \in Pc
    BY <1>i DEF Pc
  <2>2. \/ task' = [Idle EXCEPT !.pc = "fund", !.addrs = credited, !.seen = SeenOn(credited)]
        \/ task' = [Idle EXCEPT !.pc = "fund"]
    BY <1>25 DEF StartRefresh
  <2> HIDE DEF credited
  <2>3. task' \in Task
    BY <1>i, <2>1, <2>2 DEF Task
  <2> QED BY <1>0, <1>25, <2>3 DEF StartRefresh, NodeShape, vars, nodeVars, guiVars
<1>26. CASE RefreshPending
  BY <1>0, <1>i, <1>r, <1>26 DEF RefreshPending, NodeShape, vars, nodeVars, guiVars
<1>27. CASE RefreshSendAddresses
  BY <1>0, <1>27 DEF RefreshSendAddresses, Repopulated, At, vars, nodeVars, guiVars, NodeShape, Task, Session, Pc, Panel
<1>28. ASSUME NEW a \in Addr, ChooseTo(a) PROVE NodeShape'
  BY <1>0, <1>28 DEF ChooseTo, At, vars, nodeVars, guiVars, NodeShape, Task, Session, Pc, Panel
<1>29. ASSUME NEW a \in Addr, DemoConfirmation(a) PROVE NodeShape'
  BY <1>0, <1>29 DEF DemoConfirmation, CommandLine, MarkSpent, Idle, At, vars, nodeVars, guiVars, NodeShape, Task, Session, Pc, Panel
<1>30. ASSUME NEW a \in Addr, DemoPurge(a) PROVE NodeShape'
  BY <1>0, <1>30 DEF DemoPurge, CommandLine, Retire, Idle, At, vars, nodeVars, guiVars, NodeShape, Task, Session, Pc, Panel
<1>31. ASSUME NEW t \in TxID, PreviewSend(t) PROVE NodeShape'
  <2>1. "sign" \in Pc /\ "send" \in Panel \ {"pending"}
    BY DEF Pc, Panel
  <2>2. task' \in Task /\ session' \in Session
    BY <1>0, <1>g, <1>t, <1>31, <2>1 DEF PreviewSend, OpenDialog
  <2> QED BY <1>0, <1>31, <2>2 DEF PreviewSend, NodeShape, vars, nodeVars, guiVars
<1>32. ASSUME NEW t \in TxID, PreviewRecovery(t) PROVE NodeShape'
  <2>1. "sign" \in Pc /\ "recovery" \in Panel \ {"pending"}
    BY DEF Pc, Panel
  <2>2. task' \in Task /\ session' \in Session
    BY <1>0, <1>g, <1>t, <1>32, <2>1 DEF PreviewRecovery, OpenDialog
  <2> QED BY <1>0, <1>32, <2>2 DEF PreviewRecovery, NodeShape, vars, nodeVars, guiVars
<1>33. ASSUME NEW panel \in Panel, PreviewFails(panel) PROVE NodeShape'
  BY <1>0, <1>g, <1>33 DEF PreviewFails, NodeShape, vars, nodeVars, guiVars
<1>34. ASSUME NEW panel \in Panel, NEW t \in TxID, TestTransaction(panel, t) PROVE NodeShape'
  BY <1>0, <1>g, <1>34 DEF TestTransaction, NodeShape, vars, nodeVars, guiVars
<1>35. ASSUME NEW panel \in Panel, NEW t \in TxID, Broadcast(panel, t) PROVE NodeShape'
  <2>1. "send" \in Pc /\ FALSE \in BOOLEAN
    BY DEF Pc
  <2>2. CASE task' = [Idle EXCEPT !.pc = "send", !.panel = panel, !.tx = t] /\ UNCHANGED session
    BY <1>0, <1>t, <1>35, <2>1, <2>2 DEF Broadcast, NodeShape, vars, nodeVars, guiVars
  <2>3. CASE session' = Gate(panel, t, FALSE) /\ UNCHANGED task
    BY <1>0, <1>g, <1>35, <2>1, <2>3 DEF Broadcast, NodeShape, vars, nodeVars, guiVars
  <2> QED BY <1>35, <2>2, <2>3 DEF Broadcast
<1>36. CASE Restart
  BY <1>0, <1>36 DEF Restart, NoSession, Idle, vars, nodeVars, guiVars, NodeShape, Task, Session, Pc, Panel
<1>37. CASE UNCHANGED worldVars
  BY <1>0, <1>37 DEF worldVars, vars, nodeVars, guiVars, NodeShape, Task, Session, Pc, Panel
<1> QED BY <1>1, <1>2, <1>3, <1>4, <1>5, <1>6, <1>7, <1>8, <1>9, <1>10, <1>11, <1>12, <1>13, <1>14, <1>15, <1>16, <1>17, <1>18, <1>19, <1>20, <1>21, <1>22, <1>23, <1>24, <1>25, <1>26, <1>27, <1>28, <1>29, <1>30, <1>31, <1>32, <1>33, <1>34, <1>35, <1>36, <1>37
        DEF NodeNext, ChainNext, HandlerNext, UserNext

\* A handler that works on a transaction has one.
LEMMA InHandStep ==
  ASSUME NodeInv, [NodeNext]_worldVars PROVE TxInHand'
<1>0. /\ task \in Task /\ session \in Session /\ pending_broadcasts \subseteq PendingBroadcast
      /\ depth \in [ChainTx -> Nat]
      /\ TxInHand /\ SentBeforeCleared /\ StoredUntilSent /\ RenderInOrder /\ DialogForgets /\ GatesAreCurrent
  BY DEF NodeInv, NodeShape
<1>1. ASSUME NEW T \in SUBSET ChainTx, Mine(T) PROVE TxInHand'
  BY <1>0, <1>1 DEF Mine, vars, nodeVars, guiVars, TxInHand, Task
<1>2. CASE Reorg
  BY <1>0, <1>2 DEF Reorg, vars, nodeVars, guiVars, TxInHand, Task
<1>3. CASE Evict
  BY <1>0, <1>3 DEF Evict, vars, nodeVars, guiVars, TxInHand, Task
<1>4. CASE FillPool
  BY <1>0, <1>4 DEF FillPool, GenerateAddress, vars, nodeVars, guiVars, TxInHand, Task
<1>5. CASE ScanSpent
  BY <1>0, <1>5 DEF ScanSpent, ToConfirm, Idle, At, vars, nodeVars, guiVars, TxInHand, Task
<1>6. CASE StartConfirm
  BY <1>0, <1>6 DEF StartConfirm, ToConfirm, Idle, At, vars, nodeVars, guiVars, TxInHand, Task
<1>7. CASE EndRefresh
  BY <1>0, <1>7 DEF EndRefresh, StartRender, Idle, At, vars, nodeVars, guiVars, TxInHand, Task
<1>8. ASSUME NEW a \in Addr, ObserveFundingWithHistory(a) PROVE TxInHand'
  BY <1>0, <1>8 DEF ObserveFundingWithHistory, MarkFundedAndRecordIncoming, At, vars, nodeVars, guiVars, TxInHand, Task
<1>9. ASSUME NEW a \in Addr, ObserveRecoverableBalance(a) PROVE TxInHand'
  BY <1>0, <1>9 DEF ObserveRecoverableBalance, ObserveRecoverableOutpoints, At, vars, nodeVars, guiVars, TxInHand, Task
<1>10. ASSUME NEW a \in Addr, ObserveSpendConfirmation(a) PROVE TxInHand'
  BY <1>0, <1>10 DEF ObserveSpendConfirmation, MarkSpent, At, vars, nodeVars, guiVars, TxInHand, Task
<1>11. ASSUME NEW a \in Addr, SkipSpendConfirmation(a) PROVE TxInHand'
  BY <1>0, <1>11 DEF SkipSpendConfirmation, At, vars, nodeVars, guiVars, TxInHand, Task
<1>12. ASSUME NEW t \in TxID, RowUnknown(t) PROVE TxInHand'
  BY <1>0, <1>12 DEF RowUnknown, NextRow, At, vars, nodeVars, guiVars, TxInHand, Task
<1>13. ASSUME NEW t \in TxID, RowWaits(t) PROVE TxInHand'
  BY <1>0, <1>13 DEF RowWaits, NextRow, At, vars, nodeVars, guiVars, TxInHand, Task
<1>14. ASSUME NEW t \in TxID, RowConfirmed(t) PROVE TxInHand'
  BY <1>0, <1>14 DEF RowConfirmed, NextRow, Confirmed, At, vars, nodeVars, guiVars, TxInHand, Task
<1>15. CASE ReconcileSpend
  BY <1>0, <1>15 DEF ReconcileSpend, MarkSpent, At, vars, nodeVars, guiVars, TxInHand, Task
<1>16. CASE ReconcileRecovery
  BY <1>0, <1>16 DEF ReconcileRecovery, ObserveRecoverableOutpoints, At, vars, nodeVars, guiVars, TxInHand, Task
<1>17. CASE ReconcileFails \/ ObserveFails
  BY <1>0, <1>17 DEF ReconcileFails, ObserveFails, At, vars, nodeVars, guiVars, TxInHand, Task
<1>18. CASE ClearEntry
  BY <1>0, <1>18 DEF ClearEntry, DeletePendingBroadcast, At, vars, nodeVars, guiVars, TxInHand, Task
<1>19. CASE EndRender
  BY <1>0, <1>19 DEF EndRender, Finish, Idle, At, vars, nodeVars, guiVars, TxInHand, Task
<1>20. CASE SignAndStore
  BY <1>0, <1>20 DEF SignAndStore, MarkSpendPendingAndReserveChange, MarkRecoveryPendingAndReserveChange, putPending, Finish, Idle, At, vars, nodeVars, guiVars, TxInHand, Task
<1>21. CASE NotSigned
  BY <1>0, <1>21 DEF NotSigned, Finish, Idle, At, vars, nodeVars, guiVars, TxInHand, Task
<1>22. CASE SendRawTransaction
  BY <1>0, <1>22 DEF SendRawTransaction, Finish, Idle, At, vars, nodeVars, guiVars, TxInHand, Task
<1>23. CASE SettlePending
  BY <1>0, <1>23 DEF SettlePending, Gate, DeletePendingBroadcast, Idle, At, vars, nodeVars, guiVars, TxInHand, Task
<1>24. ASSUME NEW at \in Stamp, RecordOutgoing(at) PROVE TxInHand'
  BY <1>0, <1>24 DEF RecordOutgoing, PutTransaction, At, vars, nodeVars, guiVars, TxInHand, Task
<1>25. CASE StartRefresh
  BY <1>0, <1>25 DEF StartRefresh, Idle, At, vars, nodeVars, guiVars, TxInHand, Task
<1>26. CASE RefreshPending
  BY <1>0, <1>26 DEF RefreshPending, StartRender, Idle, At, vars, nodeVars, guiVars, TxInHand, Task
<1>27. CASE RefreshSendAddresses
  BY <1>0, <1>27 DEF RefreshSendAddresses, Repopulated, At, vars, nodeVars, guiVars, TxInHand, Task
<1>28. ASSUME NEW a \in Addr, ChooseTo(a) PROVE TxInHand'
  BY <1>0, <1>28 DEF ChooseTo, At, vars, nodeVars, guiVars, TxInHand, Task
<1>29. ASSUME NEW a \in Addr, DemoConfirmation(a) PROVE TxInHand'
  BY <1>0, <1>29 DEF DemoConfirmation, CommandLine, MarkSpent, Idle, At, vars, nodeVars, guiVars, TxInHand, Task
<1>30. ASSUME NEW a \in Addr, DemoPurge(a) PROVE TxInHand'
  BY <1>0, <1>30 DEF DemoPurge, CommandLine, Retire, Idle, At, vars, nodeVars, guiVars, TxInHand, Task
<1>31. ASSUME NEW t \in TxID, PreviewSend(t) PROVE TxInHand'
  BY <1>0, <1>31 DEF PreviewSend, OpenDialog, Repopulated, Forget, Idle, At, vars, nodeVars, guiVars, TxInHand, Task
<1>32. ASSUME NEW t \in TxID, PreviewRecovery(t) PROVE TxInHand'
  BY <1>0, <1>32 DEF PreviewRecovery, OpenDialog, Forget, Idle, At, vars, nodeVars, guiVars, TxInHand, Task
<1>33. ASSUME NEW panel \in Panel, PreviewFails(panel) PROVE TxInHand'
  BY <1>0, <1>33 DEF PreviewFails, Repopulated, Forget, At, vars, nodeVars, guiVars, TxInHand, Task
<1>34. ASSUME NEW panel \in Panel, NEW t \in TxID, TestTransaction(panel, t) PROVE TxInHand'
  BY <1>0, <1>34 DEF TestTransaction, Gate, At, vars, nodeVars, guiVars, TxInHand, Task
<1>35. ASSUME NEW panel \in Panel, NEW t \in TxID, Broadcast(panel, t) PROVE TxInHand'
  BY <1>0, <1>35 DEF Broadcast, Gate, Idle, At, vars, nodeVars, guiVars, TxInHand, Task
<1>36. CASE Restart
  BY <1>0, <1>36 DEF Restart, NoSession, Idle, vars, nodeVars, guiVars, TxInHand, Task
<1>37. CASE UNCHANGED worldVars
  BY <1>0, <1>37 DEF worldVars, vars, nodeVars, guiVars, TxInHand, Task
<1> QED BY <1>1, <1>2, <1>3, <1>4, <1>5, <1>6, <1>7, <1>8, <1>9, <1>10, <1>11, <1>12, <1>13, <1>14, <1>15, <1>16, <1>17, <1>18, <1>19, <1>20, <1>21, <1>22, <1>23, <1>24, <1>25, <1>26, <1>27, <1>28, <1>29, <1>30, <1>31, <1>32, <1>33, <1>34, <1>35, <1>36, <1>37
        DEF NodeNext, ChainNext, HandlerNext, UserNext

\* What a handler deletes, and what is in a block, has been accepted by a node.
LEMMA SentStep ==
  ASSUME NodeInv, [NodeNext]_worldVars PROVE SentBeforeCleared'
<1>0. /\ task \in Task /\ session \in Session /\ pending_broadcasts \subseteq PendingBroadcast
      /\ depth \in [ChainTx -> Nat]
      /\ TxInHand /\ SentBeforeCleared /\ StoredUntilSent /\ RenderInOrder /\ DialogForgets /\ GatesAreCurrent
  BY DEF NodeInv, NodeShape
<1>1. ASSUME NEW T \in SUBSET ChainTx, Mine(T) PROVE SentBeforeCleared'
  <2>1. T \cap TxID \subseteq sent
    BY <1>1 DEF Mine, Mineable
  <2>2. \A t \in ChainTx : depth'[t] > 0 => t \in T \/ depth[t] > 0
    BY <1>0, <1>1 DEF Mine
  <2> QED BY <1>0, <1>1, <2>1, <2>2 DEF Mine, SentBeforeCleared, ChainTx, vars, nodeVars, guiVars
<1>2. CASE Reorg
  BY <1>0, <1>2 DEF Reorg, vars, nodeVars, guiVars, SentBeforeCleared, Task, ChainTx
<1>3. CASE Evict
  BY <1>0, <1>3 DEF Evict, vars, nodeVars, guiVars, SentBeforeCleared, Task, ChainTx
<1>4. CASE FillPool
  BY <1>0, <1>4 DEF FillPool, GenerateAddress, vars, nodeVars, guiVars, SentBeforeCleared, Task, ChainTx
<1>5. CASE ScanSpent
  BY <1>0, <1>5 DEF ScanSpent, ToConfirm, Idle, At, vars, nodeVars, guiVars, SentBeforeCleared, Task, ChainTx
<1>6. CASE StartConfirm
  BY <1>0, <1>6 DEF StartConfirm, ToConfirm, Idle, At, vars, nodeVars, guiVars, SentBeforeCleared, Task, ChainTx
<1>7. CASE EndRefresh
  BY <1>0, <1>7 DEF EndRefresh, StartRender, Idle, At, vars, nodeVars, guiVars, SentBeforeCleared, Task, ChainTx
<1>8. ASSUME NEW a \in Addr, ObserveFundingWithHistory(a) PROVE SentBeforeCleared'
  BY <1>0, <1>8 DEF ObserveFundingWithHistory, MarkFundedAndRecordIncoming, At, vars, nodeVars, guiVars, SentBeforeCleared, Task, ChainTx
<1>9. ASSUME NEW a \in Addr, ObserveRecoverableBalance(a) PROVE SentBeforeCleared'
  BY <1>0, <1>9 DEF ObserveRecoverableBalance, ObserveRecoverableOutpoints, At, vars, nodeVars, guiVars, SentBeforeCleared, Task, ChainTx
<1>10. ASSUME NEW a \in Addr, ObserveSpendConfirmation(a) PROVE SentBeforeCleared'
  BY <1>0, <1>10 DEF ObserveSpendConfirmation, MarkSpent, At, vars, nodeVars, guiVars, SentBeforeCleared, Task, ChainTx
<1>11. ASSUME NEW a \in Addr, SkipSpendConfirmation(a) PROVE SentBeforeCleared'
  BY <1>0, <1>11 DEF SkipSpendConfirmation, At, vars, nodeVars, guiVars, SentBeforeCleared, Task, ChainTx
<1>12. ASSUME NEW t \in TxID, RowUnknown(t) PROVE SentBeforeCleared'
  BY <1>0, <1>12 DEF RowUnknown, NextRow, At, vars, nodeVars, guiVars, SentBeforeCleared, Task, ChainTx
<1>13. ASSUME NEW t \in TxID, RowWaits(t) PROVE SentBeforeCleared'
  BY <1>0, <1>13 DEF RowWaits, NextRow, At, vars, nodeVars, guiVars, SentBeforeCleared, Task, ChainTx
<1>14. ASSUME NEW t \in TxID, RowConfirmed(t) PROVE SentBeforeCleared'
  BY <1>0, <1>14 DEF RowConfirmed, NextRow, Confirmed, At, vars, nodeVars, guiVars, SentBeforeCleared, Task, ChainTx
<1>15. CASE ReconcileSpend
  BY <1>0, <1>15 DEF ReconcileSpend, MarkSpent, At, vars, nodeVars, guiVars, SentBeforeCleared, Task, ChainTx
<1>16. CASE ReconcileRecovery
  BY <1>0, <1>16 DEF ReconcileRecovery, ObserveRecoverableOutpoints, At, vars, nodeVars, guiVars, SentBeforeCleared, Task, ChainTx
<1>17. CASE ReconcileFails \/ ObserveFails
  BY <1>0, <1>17 DEF ReconcileFails, ObserveFails, At, vars, nodeVars, guiVars, SentBeforeCleared, Task, ChainTx
<1>18. CASE ClearEntry
  BY <1>0, <1>18 DEF ClearEntry, DeletePendingBroadcast, At, vars, nodeVars, guiVars, SentBeforeCleared, Task, ChainTx
<1>19. CASE EndRender
  BY <1>0, <1>19 DEF EndRender, Finish, Idle, At, vars, nodeVars, guiVars, SentBeforeCleared, Task, ChainTx
<1>20. CASE SignAndStore
  BY <1>0, <1>20 DEF SignAndStore, MarkSpendPendingAndReserveChange, MarkRecoveryPendingAndReserveChange, putPending, Finish, Idle, At, vars, nodeVars, guiVars, SentBeforeCleared, Task, ChainTx
<1>21. CASE NotSigned
  BY <1>0, <1>21 DEF NotSigned, Finish, Idle, At, vars, nodeVars, guiVars, SentBeforeCleared, Task, ChainTx
<1>22. CASE SendRawTransaction
  BY <1>0, <1>22 DEF SendRawTransaction, Finish, Idle, At, vars, nodeVars, guiVars, SentBeforeCleared, Task, ChainTx
<1>23. CASE SettlePending
  BY <1>0, <1>23 DEF SettlePending, Gate, DeletePendingBroadcast, Idle, At, vars, nodeVars, guiVars, SentBeforeCleared, Task, ChainTx
<1>24. ASSUME NEW at \in Stamp, RecordOutgoing(at) PROVE SentBeforeCleared'
  BY <1>0, <1>24 DEF RecordOutgoing, PutTransaction, At, vars, nodeVars, guiVars, SentBeforeCleared, Task, ChainTx
<1>25. CASE StartRefresh
  BY <1>0, <1>25 DEF StartRefresh, Idle, At, vars, nodeVars, guiVars, SentBeforeCleared, Task, ChainTx
<1>26. CASE RefreshPending
  BY <1>0, <1>26 DEF RefreshPending, StartRender, Idle, At, vars, nodeVars, guiVars, SentBeforeCleared, Task, ChainTx
<1>27. CASE RefreshSendAddresses
  BY <1>0, <1>27 DEF RefreshSendAddresses, Repopulated, At, vars, nodeVars, guiVars, SentBeforeCleared, Task, ChainTx
<1>28. ASSUME NEW a \in Addr, ChooseTo(a) PROVE SentBeforeCleared'
  BY <1>0, <1>28 DEF ChooseTo, At, vars, nodeVars, guiVars, SentBeforeCleared, Task, ChainTx
<1>29. ASSUME NEW a \in Addr, DemoConfirmation(a) PROVE SentBeforeCleared'
  BY <1>0, <1>29 DEF DemoConfirmation, CommandLine, MarkSpent, Idle, At, vars, nodeVars, guiVars, SentBeforeCleared, Task, ChainTx
<1>30. ASSUME NEW a \in Addr, DemoPurge(a) PROVE SentBeforeCleared'
  BY <1>0, <1>30 DEF DemoPurge, CommandLine, Retire, Idle, At, vars, nodeVars, guiVars, SentBeforeCleared, Task, ChainTx
<1>31. ASSUME NEW t \in TxID, PreviewSend(t) PROVE SentBeforeCleared'
  BY <1>0, <1>31 DEF PreviewSend, OpenDialog, Repopulated, Forget, Idle, At, vars, nodeVars, guiVars, SentBeforeCleared, Task, ChainTx
<1>32. ASSUME NEW t \in TxID, PreviewRecovery(t) PROVE SentBeforeCleared'
  BY <1>0, <1>32 DEF PreviewRecovery, OpenDialog, Forget, Idle, At, vars, nodeVars, guiVars, SentBeforeCleared, Task, ChainTx
<1>33. ASSUME NEW panel \in Panel, PreviewFails(panel) PROVE SentBeforeCleared'
  BY <1>0, <1>33 DEF PreviewFails, Repopulated, Forget, At, vars, nodeVars, guiVars, SentBeforeCleared, Task, ChainTx
<1>34. ASSUME NEW panel \in Panel, NEW t \in TxID, TestTransaction(panel, t) PROVE SentBeforeCleared'
  BY <1>0, <1>34 DEF TestTransaction, Gate, At, vars, nodeVars, guiVars, SentBeforeCleared, Task, ChainTx
<1>35. ASSUME NEW panel \in Panel, NEW t \in TxID, Broadcast(panel, t) PROVE SentBeforeCleared'
  BY <1>0, <1>35 DEF Broadcast, Gate, Idle, At, vars, nodeVars, guiVars, SentBeforeCleared, Task, ChainTx
<1>36. CASE Restart
  BY <1>0, <1>36 DEF Restart, NoSession, Idle, vars, nodeVars, guiVars, SentBeforeCleared, Task, ChainTx
<1>37. CASE UNCHANGED worldVars
  BY <1>0, <1>37 DEF worldVars, vars, nodeVars, guiVars, SentBeforeCleared, Task, ChainTx
<1> QED BY <1>1, <1>2, <1>3, <1>4, <1>5, <1>6, <1>7, <1>8, <1>9, <1>10, <1>11, <1>12, <1>13, <1>14, <1>15, <1>16, <1>17, <1>18, <1>19, <1>20, <1>21, <1>22, <1>23, <1>24, <1>25, <1>26, <1>27, <1>28, <1>29, <1>30, <1>31, <1>32, <1>33, <1>34, <1>35, <1>36, <1>37
        DEF NodeNext, ChainNext, HandlerNext, UserNext

\* A signed transaction is stored until a node has accepted it.
LEMMA StoredStep ==
  ASSUME NodeInv, [NodeNext]_worldVars PROVE StoredUntilSent'
<1>0. /\ task \in Task /\ session \in Session /\ pending_broadcasts \subseteq PendingBroadcast
      /\ depth \in [ChainTx -> Nat]
      /\ TxInHand /\ SentBeforeCleared /\ StoredUntilSent /\ RenderInOrder /\ DialogForgets /\ GatesAreCurrent
  BY DEF NodeInv, NodeShape
<1>1. ASSUME NEW T \in SUBSET ChainTx, Mine(T) PROVE StoredUntilSent'
  BY <1>0, <1>1 DEF Mine, vars, nodeVars, guiVars, StoredUntilSent, SentBeforeCleared, SignedTxIDs, PendingTxIDs, Task
<1>2. CASE Reorg
  BY <1>0, <1>2 DEF Reorg, vars, nodeVars, guiVars, StoredUntilSent, SentBeforeCleared, SignedTxIDs, PendingTxIDs, Task
<1>3. CASE Evict
  BY <1>0, <1>3 DEF Evict, vars, nodeVars, guiVars, StoredUntilSent, SentBeforeCleared, SignedTxIDs, PendingTxIDs, Task
<1>4. CASE FillPool
  BY <1>0, <1>4 DEF FillPool, GenerateAddress, vars, nodeVars, guiVars, StoredUntilSent, SentBeforeCleared, SignedTxIDs, PendingTxIDs, Task
<1>5. CASE ScanSpent
  BY <1>0, <1>5 DEF ScanSpent, ToConfirm, Idle, At, vars, nodeVars, guiVars, StoredUntilSent, SentBeforeCleared, SignedTxIDs, PendingTxIDs, Task
<1>6. CASE StartConfirm
  BY <1>0, <1>6 DEF StartConfirm, ToConfirm, Idle, At, vars, nodeVars, guiVars, StoredUntilSent, SentBeforeCleared, SignedTxIDs, PendingTxIDs, Task
<1>7. CASE EndRefresh
  BY <1>0, <1>7 DEF EndRefresh, StartRender, Idle, At, vars, nodeVars, guiVars, StoredUntilSent, SentBeforeCleared, SignedTxIDs, PendingTxIDs, Task
<1>8. ASSUME NEW a \in Addr, ObserveFundingWithHistory(a) PROVE StoredUntilSent'
  BY <1>0, <1>8 DEF ObserveFundingWithHistory, MarkFundedAndRecordIncoming, At, vars, nodeVars, guiVars, StoredUntilSent, SentBeforeCleared, SignedTxIDs, PendingTxIDs, Task
<1>9. ASSUME NEW a \in Addr, ObserveRecoverableBalance(a) PROVE StoredUntilSent'
  BY <1>0, <1>9 DEF ObserveRecoverableBalance, ObserveRecoverableOutpoints, At, vars, nodeVars, guiVars, StoredUntilSent, SentBeforeCleared, SignedTxIDs, PendingTxIDs, Task
<1>10. ASSUME NEW a \in Addr, ObserveSpendConfirmation(a) PROVE StoredUntilSent'
  BY <1>0, <1>10 DEF ObserveSpendConfirmation, MarkSpent, At, vars, nodeVars, guiVars, StoredUntilSent, SentBeforeCleared, SignedTxIDs, PendingTxIDs, Task
<1>11. ASSUME NEW a \in Addr, SkipSpendConfirmation(a) PROVE StoredUntilSent'
  BY <1>0, <1>11 DEF SkipSpendConfirmation, At, vars, nodeVars, guiVars, StoredUntilSent, SentBeforeCleared, SignedTxIDs, PendingTxIDs, Task
<1>12. ASSUME NEW t \in TxID, RowUnknown(t) PROVE StoredUntilSent'
  BY <1>0, <1>12 DEF RowUnknown, NextRow, At, vars, nodeVars, guiVars, StoredUntilSent, SentBeforeCleared, SignedTxIDs, PendingTxIDs, Task
<1>13. ASSUME NEW t \in TxID, RowWaits(t) PROVE StoredUntilSent'
  BY <1>0, <1>13 DEF RowWaits, NextRow, At, vars, nodeVars, guiVars, StoredUntilSent, SentBeforeCleared, SignedTxIDs, PendingTxIDs, Task
<1>14. ASSUME NEW t \in TxID, RowConfirmed(t) PROVE StoredUntilSent'
  BY <1>0, <1>14 DEF RowConfirmed, NextRow, Confirmed, At, vars, nodeVars, guiVars, StoredUntilSent, SentBeforeCleared, SignedTxIDs, PendingTxIDs, Task
<1>15. CASE ReconcileSpend
  BY <1>0, <1>15 DEF ReconcileSpend, MarkSpent, At, vars, nodeVars, guiVars, StoredUntilSent, SentBeforeCleared, SignedTxIDs, PendingTxIDs, Task
<1>16. CASE ReconcileRecovery
  BY <1>0, <1>16 DEF ReconcileRecovery, ObserveRecoverableOutpoints, At, vars, nodeVars, guiVars, StoredUntilSent, SentBeforeCleared, SignedTxIDs, PendingTxIDs, Task
<1>17. CASE ReconcileFails \/ ObserveFails
  BY <1>0, <1>17 DEF ReconcileFails, ObserveFails, At, vars, nodeVars, guiVars, StoredUntilSent, SentBeforeCleared, SignedTxIDs, PendingTxIDs, Task
<1>18. CASE ClearEntry
  BY <1>0, <1>18 DEF ClearEntry, DeletePendingBroadcast, At, vars, nodeVars, guiVars, StoredUntilSent, SentBeforeCleared, SignedTxIDs, PendingTxIDs, Task
<1>19. CASE EndRender
  BY <1>0, <1>19 DEF EndRender, Finish, Idle, At, vars, nodeVars, guiVars, StoredUntilSent, SentBeforeCleared, SignedTxIDs, PendingTxIDs, Task
<1>20. CASE SignAndStore
  <2>1. sent' = sent
    BY <1>20 DEF SignAndStore, vars, nodeVars, guiVars
  <2>2. /\ \A s \in signed' : s \in signed \/ s.TxID = task.tx
        /\ pending_broadcasts \subseteq pending_broadcasts'
        /\ \E p \in pending_broadcasts' : p.TxID = task.tx
    <3>1. PICK kind \in Kind :
            /\ pending_broadcasts' = pending_broadcasts \cup
                 {[TxID |-> task.tx, Kind |-> kind, SourceAddress |-> TxFrom[task.tx]]}
            /\ signed' = signed \cup {[TxID |-> task.tx, Kind |-> kind]}
      BY <1>20 DEF SignAndStore, MarkSpendPendingAndReserveChange, MarkRecoveryPendingAndReserveChange,
                 putPending, Kind
    <3> DEFINE entry == [TxID |-> task.tx, Kind |-> kind, SourceAddress |-> TxFrom[task.tx]]
    <3>2. entry \in pending_broadcasts' /\ entry.TxID = task.tx
      BY <3>1
    <3>3. \A s \in signed' : s \in signed \/ s.TxID = task.tx
      BY <3>1
    <3>4. pending_broadcasts \subseteq pending_broadcasts'
      BY <3>1
    <3> HIDE DEF entry
    <3> QED BY <3>2, <3>3, <3>4
  <2> QED BY <1>0, <2>1, <2>2 DEF StoredUntilSent, SignedTxIDs, PendingTxIDs
<1>21. CASE NotSigned
  BY <1>0, <1>21 DEF NotSigned, Finish, Idle, At, vars, nodeVars, guiVars, StoredUntilSent, SentBeforeCleared, SignedTxIDs, PendingTxIDs, Task
<1>22. CASE SendRawTransaction
  BY <1>0, <1>22 DEF SendRawTransaction, Finish, Idle, At, vars, nodeVars, guiVars, StoredUntilSent, SentBeforeCleared, SignedTxIDs, PendingTxIDs, Task
<1>23. CASE SettlePending
  BY <1>0, <1>23 DEF SettlePending, Gate, DeletePendingBroadcast, Idle, At, vars, nodeVars, guiVars, StoredUntilSent, SentBeforeCleared, SignedTxIDs, PendingTxIDs, Task
<1>24. ASSUME NEW at \in Stamp, RecordOutgoing(at) PROVE StoredUntilSent'
  BY <1>0, <1>24 DEF RecordOutgoing, PutTransaction, At, vars, nodeVars, guiVars, StoredUntilSent, SentBeforeCleared, SignedTxIDs, PendingTxIDs, Task
<1>25. CASE StartRefresh
  BY <1>0, <1>25 DEF StartRefresh, Idle, At, vars, nodeVars, guiVars, StoredUntilSent, SentBeforeCleared, SignedTxIDs, PendingTxIDs, Task
<1>26. CASE RefreshPending
  BY <1>0, <1>26 DEF RefreshPending, StartRender, Idle, At, vars, nodeVars, guiVars, StoredUntilSent, SentBeforeCleared, SignedTxIDs, PendingTxIDs, Task
<1>27. CASE RefreshSendAddresses
  BY <1>0, <1>27 DEF RefreshSendAddresses, Repopulated, At, vars, nodeVars, guiVars, StoredUntilSent, SentBeforeCleared, SignedTxIDs, PendingTxIDs, Task
<1>28. ASSUME NEW a \in Addr, ChooseTo(a) PROVE StoredUntilSent'
  BY <1>0, <1>28 DEF ChooseTo, At, vars, nodeVars, guiVars, StoredUntilSent, SentBeforeCleared, SignedTxIDs, PendingTxIDs, Task
<1>29. ASSUME NEW a \in Addr, DemoConfirmation(a) PROVE StoredUntilSent'
  BY <1>0, <1>29 DEF DemoConfirmation, CommandLine, MarkSpent, Idle, At, vars, nodeVars, guiVars, StoredUntilSent, SentBeforeCleared, SignedTxIDs, PendingTxIDs, Task
<1>30. ASSUME NEW a \in Addr, DemoPurge(a) PROVE StoredUntilSent'
  BY <1>0, <1>30 DEF DemoPurge, CommandLine, Retire, Idle, At, vars, nodeVars, guiVars, StoredUntilSent, SentBeforeCleared, SignedTxIDs, PendingTxIDs, Task
<1>31. ASSUME NEW t \in TxID, PreviewSend(t) PROVE StoredUntilSent'
  BY <1>0, <1>31 DEF PreviewSend, OpenDialog, Repopulated, Forget, Idle, At, vars, nodeVars, guiVars, StoredUntilSent, SentBeforeCleared, SignedTxIDs, PendingTxIDs, Task
<1>32. ASSUME NEW t \in TxID, PreviewRecovery(t) PROVE StoredUntilSent'
  BY <1>0, <1>32 DEF PreviewRecovery, OpenDialog, Forget, Idle, At, vars, nodeVars, guiVars, StoredUntilSent, SentBeforeCleared, SignedTxIDs, PendingTxIDs, Task
<1>33. ASSUME NEW panel \in Panel, PreviewFails(panel) PROVE StoredUntilSent'
  BY <1>0, <1>33 DEF PreviewFails, Repopulated, Forget, At, vars, nodeVars, guiVars, StoredUntilSent, SentBeforeCleared, SignedTxIDs, PendingTxIDs, Task
<1>34. ASSUME NEW panel \in Panel, NEW t \in TxID, TestTransaction(panel, t) PROVE StoredUntilSent'
  BY <1>0, <1>34 DEF TestTransaction, Gate, At, vars, nodeVars, guiVars, StoredUntilSent, SentBeforeCleared, SignedTxIDs, PendingTxIDs, Task
<1>35. ASSUME NEW panel \in Panel, NEW t \in TxID, Broadcast(panel, t) PROVE StoredUntilSent'
  BY <1>0, <1>35 DEF Broadcast, Gate, Idle, At, vars, nodeVars, guiVars, StoredUntilSent, SentBeforeCleared, SignedTxIDs, PendingTxIDs, Task
<1>36. CASE Restart
  BY <1>0, <1>36 DEF Restart, NoSession, Idle, vars, nodeVars, guiVars, StoredUntilSent, SentBeforeCleared, SignedTxIDs, PendingTxIDs, Task
<1>37. CASE UNCHANGED worldVars
  BY <1>0, <1>37 DEF worldVars, vars, nodeVars, guiVars, StoredUntilSent, SentBeforeCleared, SignedTxIDs, PendingTxIDs, Task
<1> QED BY <1>1, <1>2, <1>3, <1>4, <1>5, <1>6, <1>7, <1>8, <1>9, <1>10, <1>11, <1>12, <1>13, <1>14, <1>15, <1>16, <1>17, <1>18, <1>19, <1>20, <1>21, <1>22, <1>23, <1>24, <1>25, <1>26, <1>27, <1>28, <1>29, <1>30, <1>31, <1>32, <1>33, <1>34, <1>35, <1>36, <1>37
        DEF NodeNext, ChainNext, HandlerNext, UserNext

\* The list is rendered entry by entry.
LEMMA RenderStep ==
  ASSUME NodeInv, [NodeNext]_worldVars PROVE RenderInOrder'
<1>0. /\ task \in Task /\ session \in Session /\ pending_broadcasts \subseteq PendingBroadcast
      /\ depth \in [ChainTx -> Nat]
      /\ TxInHand /\ SentBeforeCleared /\ StoredUntilSent /\ RenderInOrder /\ DialogForgets /\ GatesAreCurrent
  BY DEF NodeInv, NodeShape
<1>1. ASSUME NEW T \in SUBSET ChainTx, Mine(T) PROVE RenderInOrder'
  BY <1>0, <1>1 DEF Mine, vars, nodeVars, guiVars, RenderInOrder, PendingTxIDs, Task, Session
<1>2. CASE Reorg
  BY <1>0, <1>2 DEF Reorg, vars, nodeVars, guiVars, RenderInOrder, PendingTxIDs, Task, Session
<1>3. CASE Evict
  BY <1>0, <1>3 DEF Evict, vars, nodeVars, guiVars, RenderInOrder, PendingTxIDs, Task, Session
<1>4. CASE FillPool
  BY <1>0, <1>4 DEF FillPool, GenerateAddress, vars, nodeVars, guiVars, RenderInOrder, PendingTxIDs, Task, Session
<1>5. CASE ScanSpent
  BY <1>0, <1>5 DEF ScanSpent, ToConfirm, Idle, At, vars, nodeVars, guiVars, RenderInOrder, PendingTxIDs, Task, Session
<1>6. CASE StartConfirm
  BY <1>0, <1>6 DEF StartConfirm, ToConfirm, Idle, At, vars, nodeVars, guiVars, RenderInOrder, PendingTxIDs, Task, Session
<1>7. CASE EndRefresh
  BY <1>0, <1>7 DEF EndRefresh, StartRender, Idle, At, vars, nodeVars, guiVars, RenderInOrder, PendingTxIDs, Task, Session
<1>8. ASSUME NEW a \in Addr, ObserveFundingWithHistory(a) PROVE RenderInOrder'
  BY <1>0, <1>8 DEF ObserveFundingWithHistory, MarkFundedAndRecordIncoming, At, vars, nodeVars, guiVars, RenderInOrder, PendingTxIDs, Task, Session
<1>9. ASSUME NEW a \in Addr, ObserveRecoverableBalance(a) PROVE RenderInOrder'
  BY <1>0, <1>9 DEF ObserveRecoverableBalance, ObserveRecoverableOutpoints, At, vars, nodeVars, guiVars, RenderInOrder, PendingTxIDs, Task, Session
<1>10. ASSUME NEW a \in Addr, ObserveSpendConfirmation(a) PROVE RenderInOrder'
  BY <1>0, <1>10 DEF ObserveSpendConfirmation, MarkSpent, At, vars, nodeVars, guiVars, RenderInOrder, PendingTxIDs, Task, Session
<1>11. ASSUME NEW a \in Addr, SkipSpendConfirmation(a) PROVE RenderInOrder'
  BY <1>0, <1>11 DEF SkipSpendConfirmation, At, vars, nodeVars, guiVars, RenderInOrder, PendingTxIDs, Task, Session
<1>12. ASSUME NEW t \in TxID, RowUnknown(t) PROVE RenderInOrder'
  BY <1>0, <1>12 DEF RowUnknown, NextRow, At, vars, nodeVars, guiVars, RenderInOrder, PendingTxIDs, Task, Session
<1>13. ASSUME NEW t \in TxID, RowWaits(t) PROVE RenderInOrder'
  BY <1>0, <1>13 DEF RowWaits, NextRow, At, vars, nodeVars, guiVars, RenderInOrder, PendingTxIDs, Task, Session
<1>14. ASSUME NEW t \in TxID, RowConfirmed(t) PROVE RenderInOrder'
  BY <1>0, <1>14 DEF RowConfirmed, NextRow, Confirmed, At, vars, nodeVars, guiVars, RenderInOrder, PendingTxIDs, Task, Session
<1>15. CASE ReconcileSpend
  BY <1>0, <1>15 DEF ReconcileSpend, MarkSpent, At, vars, nodeVars, guiVars, RenderInOrder, PendingTxIDs, Task, Session
<1>16. CASE ReconcileRecovery
  BY <1>0, <1>16 DEF ReconcileRecovery, ObserveRecoverableOutpoints, At, vars, nodeVars, guiVars, RenderInOrder, PendingTxIDs, Task, Session
<1>17. CASE ReconcileFails \/ ObserveFails
  BY <1>0, <1>17 DEF ReconcileFails, ObserveFails, At, vars, nodeVars, guiVars, RenderInOrder, PendingTxIDs, Task, Session
<1>18. CASE ClearEntry
  BY <1>0, <1>18 DEF ClearEntry, DeletePendingBroadcast, At, vars, nodeVars, guiVars, RenderInOrder, PendingTxIDs, Task, Session
<1>19. CASE EndRender
  BY <1>0, <1>19 DEF EndRender, Finish, Idle, At, vars, nodeVars, guiVars, RenderInOrder, PendingTxIDs, Task, Session
<1>20. CASE SignAndStore
  BY <1>0, <1>20 DEF SignAndStore, MarkSpendPendingAndReserveChange, MarkRecoveryPendingAndReserveChange, putPending, Finish, Idle, At, vars, nodeVars, guiVars, RenderInOrder, PendingTxIDs, Task, Session
<1>21. CASE NotSigned
  BY <1>0, <1>21 DEF NotSigned, Finish, Idle, At, vars, nodeVars, guiVars, RenderInOrder, PendingTxIDs, Task, Session
<1>22. CASE SendRawTransaction
  BY <1>0, <1>22 DEF SendRawTransaction, Finish, Idle, At, vars, nodeVars, guiVars, RenderInOrder, PendingTxIDs, Task, Session
<1>23. CASE SettlePending
  <2>1. task'.pc = "render" /\ session'.rows = {} /\ task'.list \subseteq PendingTxIDs'
    <3>1. CASE DeletePendingBroadcast(task.tx) /\ task' = [Idle EXCEPT !.pc = "render", !.list = PendingTxIDs \ {task.tx}]
      BY <1>0, <1>23, <3>1 DEF SettlePending, Gate, DeletePendingBroadcast, Idle, PendingTxIDs, Session
    <3>2. CASE UNCHANGED vars /\ task' = [Idle EXCEPT !.pc = "render", !.list = PendingTxIDs]
      BY <1>0, <1>23, <3>2 DEF SettlePending, Gate, Idle, PendingTxIDs, Session, vars
    <3> QED BY <1>23, <3>1, <3>2 DEF SettlePending
  <2> QED BY <2>1 DEF RenderInOrder
<1>24. ASSUME NEW at \in Stamp, RecordOutgoing(at) PROVE RenderInOrder'
  BY <1>0, <1>24 DEF RecordOutgoing, PutTransaction, At, vars, nodeVars, guiVars, RenderInOrder, PendingTxIDs, Task, Session
<1>25. CASE StartRefresh
  BY <1>0, <1>25 DEF StartRefresh, Idle, At, vars, nodeVars, guiVars, RenderInOrder, PendingTxIDs, Task, Session
<1>26. CASE RefreshPending
  BY <1>0, <1>26 DEF RefreshPending, StartRender, Idle, At, vars, nodeVars, guiVars, RenderInOrder, PendingTxIDs, Task, Session
<1>27. CASE RefreshSendAddresses
  BY <1>0, <1>27 DEF RefreshSendAddresses, Repopulated, At, vars, nodeVars, guiVars, RenderInOrder, PendingTxIDs, Task, Session
<1>28. ASSUME NEW a \in Addr, ChooseTo(a) PROVE RenderInOrder'
  BY <1>0, <1>28 DEF ChooseTo, At, vars, nodeVars, guiVars, RenderInOrder, PendingTxIDs, Task, Session
<1>29. ASSUME NEW a \in Addr, DemoConfirmation(a) PROVE RenderInOrder'
  BY <1>0, <1>29 DEF DemoConfirmation, CommandLine, MarkSpent, Idle, At, vars, nodeVars, guiVars, RenderInOrder, PendingTxIDs, Task, Session
<1>30. ASSUME NEW a \in Addr, DemoPurge(a) PROVE RenderInOrder'
  BY <1>0, <1>30 DEF DemoPurge, CommandLine, Retire, Idle, At, vars, nodeVars, guiVars, RenderInOrder, PendingTxIDs, Task, Session
<1>31. ASSUME NEW t \in TxID, PreviewSend(t) PROVE RenderInOrder'
  BY <1>0, <1>31 DEF PreviewSend, OpenDialog, Repopulated, Forget, Idle, At, vars, nodeVars, guiVars, RenderInOrder, PendingTxIDs, Task, Session
<1>32. ASSUME NEW t \in TxID, PreviewRecovery(t) PROVE RenderInOrder'
  BY <1>0, <1>32 DEF PreviewRecovery, OpenDialog, Forget, Idle, At, vars, nodeVars, guiVars, RenderInOrder, PendingTxIDs, Task, Session
<1>33. ASSUME NEW panel \in Panel, PreviewFails(panel) PROVE RenderInOrder'
  BY <1>0, <1>33 DEF PreviewFails, Repopulated, Forget, At, vars, nodeVars, guiVars, RenderInOrder, PendingTxIDs, Task, Session
<1>34. ASSUME NEW panel \in Panel, NEW t \in TxID, TestTransaction(panel, t) PROVE RenderInOrder'
  BY <1>0, <1>34 DEF TestTransaction, Gate, At, vars, nodeVars, guiVars, RenderInOrder, PendingTxIDs, Task, Session
<1>35. ASSUME NEW panel \in Panel, NEW t \in TxID, Broadcast(panel, t) PROVE RenderInOrder'
  BY <1>0, <1>35 DEF Broadcast, Gate, Idle, At, vars, nodeVars, guiVars, RenderInOrder, PendingTxIDs, Task, Session
<1>36. CASE Restart
  BY <1>0, <1>36 DEF Restart, NoSession, Idle, vars, nodeVars, guiVars, RenderInOrder, PendingTxIDs, Task, Session
<1>37. CASE UNCHANGED worldVars
  BY <1>0, <1>37 DEF worldVars, vars, nodeVars, guiVars, RenderInOrder, PendingTxIDs, Task, Session
<1> QED BY <1>1, <1>2, <1>3, <1>4, <1>5, <1>6, <1>7, <1>8, <1>9, <1>10, <1>11, <1>12, <1>13, <1>14, <1>15, <1>16, <1>17, <1>18, <1>19, <1>20, <1>21, <1>22, <1>23, <1>24, <1>25, <1>26, <1>27, <1>28, <1>29, <1>30, <1>31, <1>32, <1>33, <1>34, <1>35, <1>36, <1>37
        DEF NodeNext, ChainNext, HandlerNext, UserNext

\* A page whose dialog is open has no approval.
LEMMA DialogStep ==
  ASSUME NodeInv, [NodeNext]_worldVars PROVE DialogForgets'
<1>0. /\ task \in Task /\ session \in Session /\ pending_broadcasts \subseteq PendingBroadcast
      /\ depth \in [ChainTx -> Nat]
      /\ TxInHand /\ SentBeforeCleared /\ StoredUntilSent /\ RenderInOrder /\ DialogForgets /\ GatesAreCurrent
  BY DEF NodeInv, NodeShape
<1>1. ASSUME NEW T \in SUBSET ChainTx, Mine(T) PROVE DialogForgets'
  BY <1>0, <1>1 DEF Mine, vars, nodeVars, guiVars, DialogForgets, Task, Session
<1>2. CASE Reorg
  BY <1>0, <1>2 DEF Reorg, vars, nodeVars, guiVars, DialogForgets, Task, Session
<1>3. CASE Evict
  BY <1>0, <1>3 DEF Evict, vars, nodeVars, guiVars, DialogForgets, Task, Session
<1>4. CASE FillPool
  BY <1>0, <1>4 DEF FillPool, GenerateAddress, vars, nodeVars, guiVars, DialogForgets, Task, Session
<1>5. CASE ScanSpent
  BY <1>0, <1>5 DEF ScanSpent, ToConfirm, Idle, At, vars, nodeVars, guiVars, DialogForgets, Task, Session
<1>6. CASE StartConfirm
  BY <1>0, <1>6 DEF StartConfirm, ToConfirm, Idle, At, vars, nodeVars, guiVars, DialogForgets, Task, Session
<1>7. CASE EndRefresh
  BY <1>0, <1>7 DEF EndRefresh, StartRender, Idle, At, vars, nodeVars, guiVars, DialogForgets, Task, Session
<1>8. ASSUME NEW a \in Addr, ObserveFundingWithHistory(a) PROVE DialogForgets'
  BY <1>0, <1>8 DEF ObserveFundingWithHistory, MarkFundedAndRecordIncoming, At, vars, nodeVars, guiVars, DialogForgets, Task, Session
<1>9. ASSUME NEW a \in Addr, ObserveRecoverableBalance(a) PROVE DialogForgets'
  BY <1>0, <1>9 DEF ObserveRecoverableBalance, ObserveRecoverableOutpoints, At, vars, nodeVars, guiVars, DialogForgets, Task, Session
<1>10. ASSUME NEW a \in Addr, ObserveSpendConfirmation(a) PROVE DialogForgets'
  BY <1>0, <1>10 DEF ObserveSpendConfirmation, MarkSpent, At, vars, nodeVars, guiVars, DialogForgets, Task, Session
<1>11. ASSUME NEW a \in Addr, SkipSpendConfirmation(a) PROVE DialogForgets'
  BY <1>0, <1>11 DEF SkipSpendConfirmation, At, vars, nodeVars, guiVars, DialogForgets, Task, Session
<1>12. ASSUME NEW t \in TxID, RowUnknown(t) PROVE DialogForgets'
  BY <1>0, <1>12 DEF RowUnknown, NextRow, At, vars, nodeVars, guiVars, DialogForgets, Task, Session
<1>13. ASSUME NEW t \in TxID, RowWaits(t) PROVE DialogForgets'
  BY <1>0, <1>13 DEF RowWaits, NextRow, At, vars, nodeVars, guiVars, DialogForgets, Task, Session
<1>14. ASSUME NEW t \in TxID, RowConfirmed(t) PROVE DialogForgets'
  BY <1>0, <1>14 DEF RowConfirmed, NextRow, Confirmed, At, vars, nodeVars, guiVars, DialogForgets, Task, Session
<1>15. CASE ReconcileSpend
  BY <1>0, <1>15 DEF ReconcileSpend, MarkSpent, At, vars, nodeVars, guiVars, DialogForgets, Task, Session
<1>16. CASE ReconcileRecovery
  BY <1>0, <1>16 DEF ReconcileRecovery, ObserveRecoverableOutpoints, At, vars, nodeVars, guiVars, DialogForgets, Task, Session
<1>17. CASE ReconcileFails \/ ObserveFails
  BY <1>0, <1>17 DEF ReconcileFails, ObserveFails, At, vars, nodeVars, guiVars, DialogForgets, Task, Session
<1>18. CASE ClearEntry
  BY <1>0, <1>18 DEF ClearEntry, DeletePendingBroadcast, At, vars, nodeVars, guiVars, DialogForgets, Task, Session
<1>19. CASE EndRender
  BY <1>0, <1>19 DEF EndRender, Finish, Idle, At, vars, nodeVars, guiVars, DialogForgets, Task, Session
<1>20. CASE SignAndStore
  BY <1>0, <1>20 DEF SignAndStore, MarkSpendPendingAndReserveChange, MarkRecoveryPendingAndReserveChange, putPending, Finish, Idle, At, vars, nodeVars, guiVars, DialogForgets, Task, Session
<1>21. CASE NotSigned
  BY <1>0, <1>21 DEF NotSigned, Finish, Idle, At, vars, nodeVars, guiVars, DialogForgets, Task, Session
<1>22. CASE SendRawTransaction
  BY <1>0, <1>22 DEF SendRawTransaction, Finish, Idle, At, vars, nodeVars, guiVars, DialogForgets, Task, Session
<1>23. CASE SettlePending
  BY <1>0, <1>23 DEF SettlePending, Gate, DeletePendingBroadcast, Idle, At, vars, nodeVars, guiVars, DialogForgets, Task, Session
<1>24. ASSUME NEW at \in Stamp, RecordOutgoing(at) PROVE DialogForgets'
  BY <1>0, <1>24 DEF RecordOutgoing, PutTransaction, At, vars, nodeVars, guiVars, DialogForgets, Task, Session
<1>25. CASE StartRefresh
  BY <1>0, <1>25 DEF StartRefresh, Idle, At, vars, nodeVars, guiVars, DialogForgets, Task, Session
<1>26. CASE RefreshPending
  BY <1>0, <1>26 DEF RefreshPending, StartRender, Idle, At, vars, nodeVars, guiVars, DialogForgets, Task, Session
<1>27. CASE RefreshSendAddresses
  BY <1>0, <1>27 DEF RefreshSendAddresses, Repopulated, At, vars, nodeVars, guiVars, DialogForgets, Task, Session
<1>28. ASSUME NEW a \in Addr, ChooseTo(a) PROVE DialogForgets'
  BY <1>0, <1>28 DEF ChooseTo, At, vars, nodeVars, guiVars, DialogForgets, Task, Session
<1>29. ASSUME NEW a \in Addr, DemoConfirmation(a) PROVE DialogForgets'
  BY <1>0, <1>29 DEF DemoConfirmation, CommandLine, MarkSpent, Idle, At, vars, nodeVars, guiVars, DialogForgets, Task, Session
<1>30. ASSUME NEW a \in Addr, DemoPurge(a) PROVE DialogForgets'
  BY <1>0, <1>30 DEF DemoPurge, CommandLine, Retire, Idle, At, vars, nodeVars, guiVars, DialogForgets, Task, Session
<1>31. ASSUME NEW t \in TxID, PreviewSend(t) PROVE DialogForgets'
  <2>1. task'.panel = "send" /\ session'.approved = [session.approved EXCEPT !["send"] = {}]
    BY <1>0, <1>31 DEF PreviewSend, OpenDialog, Repopulated, Forget, Idle, Session
  <2>2. session'.approved["send"] = {}
    BY <1>0, <2>1 DEF Session, Panel
  <2> QED BY <2>1, <2>2 DEF DialogForgets
<1>32. ASSUME NEW t \in TxID, PreviewRecovery(t) PROVE DialogForgets'
  <2>1. task'.panel = "recovery" /\ session'.approved = [session.approved EXCEPT !["recovery"] = {}]
    BY <1>0, <1>32 DEF PreviewRecovery, OpenDialog, Repopulated, Forget, Idle, Session
  <2>2. session'.approved["recovery"] = {}
    BY <1>0, <2>1 DEF Session, Panel
  <2> QED BY <2>1, <2>2 DEF DialogForgets
<1>33. ASSUME NEW panel \in Panel, PreviewFails(panel) PROVE DialogForgets'
  BY <1>0, <1>33 DEF PreviewFails, Repopulated, Forget, At, vars, nodeVars, guiVars, DialogForgets, Task, Session
<1>34. ASSUME NEW panel \in Panel, NEW t \in TxID, TestTransaction(panel, t) PROVE DialogForgets'
  BY <1>0, <1>34 DEF TestTransaction, Gate, At, vars, nodeVars, guiVars, DialogForgets, Task, Session
<1>35. ASSUME NEW panel \in Panel, NEW t \in TxID, Broadcast(panel, t) PROVE DialogForgets'
  BY <1>0, <1>35 DEF Broadcast, Gate, Idle, At, vars, nodeVars, guiVars, DialogForgets, Task, Session
<1>36. CASE Restart
  BY <1>0, <1>36 DEF Restart, NoSession, Idle, vars, nodeVars, guiVars, DialogForgets, Task, Session
<1>37. CASE UNCHANGED worldVars
  BY <1>0, <1>37 DEF worldVars, vars, nodeVars, guiVars, DialogForgets, Task, Session
<1> QED BY <1>1, <1>2, <1>3, <1>4, <1>5, <1>6, <1>7, <1>8, <1>9, <1>10, <1>11, <1>12, <1>13, <1>14, <1>15, <1>16, <1>17, <1>18, <1>19, <1>20, <1>21, <1>22, <1>23, <1>24, <1>25, <1>26, <1>27, <1>28, <1>29, <1>30, <1>31, <1>32, <1>33, <1>34, <1>35, <1>36, <1>37
        DEF NodeNext, ChainNext, HandlerNext, UserNext

\* Rows are stored, and approvals are current.
LEMMA GatesStep ==
  ASSUME NodeInv, [NodeNext]_worldVars PROVE GatesAreCurrent'
<1>0. /\ task \in Task /\ session \in Session /\ pending_broadcasts \subseteq PendingBroadcast
      /\ depth \in [ChainTx -> Nat]
      /\ TxInHand /\ SentBeforeCleared /\ StoredUntilSent /\ RenderInOrder /\ DialogForgets /\ GatesAreCurrent
  BY DEF NodeInv, NodeShape
<1>1. ASSUME NEW T \in SUBSET ChainTx, Mine(T) PROVE GatesAreCurrent'
  BY <1>0, <1>1 DEF Mine, vars, nodeVars, guiVars, GatesAreCurrent, Current, PendingTxIDs, Session, Panel, Task
<1>2. CASE Reorg
  BY <1>0, <1>2 DEF Reorg, vars, nodeVars, guiVars, GatesAreCurrent, Current, PendingTxIDs, Session, Panel, Task
<1>3. CASE Evict
  BY <1>0, <1>3 DEF Evict, vars, nodeVars, guiVars, GatesAreCurrent, Current, PendingTxIDs, Session, Panel, Task
<1>4. CASE FillPool
  BY <1>0, <1>4 DEF FillPool, GenerateAddress, vars, nodeVars, guiVars, GatesAreCurrent, Current, PendingTxIDs, Session, Panel, Task
<1>5. CASE ScanSpent
  BY <1>0, <1>5 DEF ScanSpent, ToConfirm, Idle, At, vars, nodeVars, guiVars, GatesAreCurrent, Current, PendingTxIDs, Session, Panel, Task
<1>6. CASE StartConfirm
  BY <1>0, <1>6 DEF StartConfirm, ToConfirm, Idle, At, vars, nodeVars, guiVars, GatesAreCurrent, Current, PendingTxIDs, Session, Panel, Task
<1>7. CASE EndRefresh
  BY <1>0, <1>7 DEF EndRefresh, StartRender, Idle, At, vars, nodeVars, guiVars, GatesAreCurrent, Current, PendingTxIDs, Session, Panel, Task
<1>8. ASSUME NEW a \in Addr, ObserveFundingWithHistory(a) PROVE GatesAreCurrent'
  BY <1>0, <1>8 DEF ObserveFundingWithHistory, MarkFundedAndRecordIncoming, At, vars, nodeVars, guiVars, GatesAreCurrent, Current, PendingTxIDs, Session, Panel, Task
<1>9. ASSUME NEW a \in Addr, ObserveRecoverableBalance(a) PROVE GatesAreCurrent'
  BY <1>0, <1>9 DEF ObserveRecoverableBalance, ObserveRecoverableOutpoints, At, vars, nodeVars, guiVars, GatesAreCurrent, Current, PendingTxIDs, Session, Panel, Task
<1>10. ASSUME NEW a \in Addr, ObserveSpendConfirmation(a) PROVE GatesAreCurrent'
  BY <1>0, <1>10 DEF ObserveSpendConfirmation, MarkSpent, At, vars, nodeVars, guiVars, GatesAreCurrent, Current, PendingTxIDs, Session, Panel, Task
<1>11. ASSUME NEW a \in Addr, SkipSpendConfirmation(a) PROVE GatesAreCurrent'
  BY <1>0, <1>11 DEF SkipSpendConfirmation, At, vars, nodeVars, guiVars, GatesAreCurrent, Current, PendingTxIDs, Session, Panel, Task
<1>12. ASSUME NEW t \in TxID, RowUnknown(t) PROVE GatesAreCurrent'
  <2>1. t \in PendingTxIDs /\ PendingTxIDs' = PendingTxIDs
    BY <1>0, <1>12 DEF RowUnknown, NextRow, At, RenderInOrder, PendingTxIDs, vars
  <2>2. /\ session'.rows = session.rows \cup {t} /\ session'.approved = session.approved
        /\ session'.send = session.send /\ session'.recovery = session.recovery
    BY <1>0, <1>12 DEF RowUnknown, Session
  <2>3. \A panel \in Panel : Current(panel) \subseteq Current(panel)'
    BY <1>0, <1>12, <2>2 DEF Current, RowUnknown, Session, Panel
  <2> QED BY <1>0, <2>1, <2>2, <2>3 DEF GatesAreCurrent
<1>13. ASSUME NEW t \in TxID, RowWaits(t) PROVE GatesAreCurrent'
  BY <1>0, <1>13 DEF RowWaits, NextRow, At, vars, nodeVars, guiVars, GatesAreCurrent, Current, PendingTxIDs, Session, Panel, Task
<1>14. ASSUME NEW t \in TxID, RowConfirmed(t) PROVE GatesAreCurrent'
  BY <1>0, <1>14 DEF RowConfirmed, NextRow, Confirmed, At, vars, nodeVars, guiVars, GatesAreCurrent, Current, PendingTxIDs, Session, Panel, Task
<1>15. CASE ReconcileSpend
  BY <1>0, <1>15 DEF ReconcileSpend, MarkSpent, At, vars, nodeVars, guiVars, GatesAreCurrent, Current, PendingTxIDs, Session, Panel, Task
<1>16. CASE ReconcileRecovery
  BY <1>0, <1>16 DEF ReconcileRecovery, ObserveRecoverableOutpoints, At, vars, nodeVars, guiVars, GatesAreCurrent, Current, PendingTxIDs, Session, Panel, Task
<1>17. CASE ReconcileFails \/ ObserveFails
  BY <1>0, <1>17 DEF ReconcileFails, ObserveFails, At, vars, nodeVars, guiVars, GatesAreCurrent, Current, PendingTxIDs, Session, Panel, Task
<1>18. CASE ClearEntry
  <2>1. session' = session /\ task.tx \notin session.rows
    BY <1>0, <1>18 DEF ClearEntry, At, RenderInOrder
  <2>2. PendingTxIDs \ {task.tx} \subseteq PendingTxIDs'
    BY <1>18 DEF ClearEntry, DeletePendingBroadcast, PendingTxIDs
  <2>3. \A panel \in Panel : Current(panel)' = Current(panel)
    BY <2>1 DEF Current
  <2> QED BY <1>0, <2>1, <2>2, <2>3 DEF GatesAreCurrent
<1>19. CASE EndRender
  BY <1>0, <1>19 DEF EndRender, Finish, Idle, At, vars, nodeVars, guiVars, GatesAreCurrent, Current, PendingTxIDs, Session, Panel, Task
<1>20. CASE SignAndStore
  <2>1. /\ task.panel \in {"send", "recovery"} /\ session.approved[task.panel] = {}
        /\ session' = [session EXCEPT ![task.panel] = task.tx]
    BY <1>0, <1>20 DEF SignAndStore, At, DialogForgets
  <2>2. PendingTxIDs \subseteq PendingTxIDs'
    BY <1>20 DEF SignAndStore, MarkSpendPendingAndReserveChange, MarkRecoveryPendingAndReserveChange, putPending, PendingTxIDs
  <2>3. /\ session'.rows = session.rows /\ session'.approved = session.approved
        /\ \A panel \in {"send", "recovery"} \ {task.panel} : session'[panel] = session[panel]
    BY <1>0, <2>1 DEF Session
  <2>4. \A panel \in Panel \ {task.panel} : Current(panel)' = Current(panel)
    BY <2>1, <2>3 DEF Current, Panel
  <2>5. session'.approved[task.panel] = {}
    BY <2>1, <2>3
  <2> QED BY <1>0, <2>2, <2>3, <2>4, <2>5 DEF GatesAreCurrent
<1>21. CASE NotSigned
  BY <1>0, <1>21 DEF NotSigned, Finish, Idle, At, vars, nodeVars, guiVars, GatesAreCurrent, Current, PendingTxIDs, Session, Panel, Task
<1>22. CASE SendRawTransaction
  BY <1>0, <1>22 DEF SendRawTransaction, Finish, Idle, At, vars, nodeVars, guiVars, GatesAreCurrent, Current, PendingTxIDs, Session, Panel, Task
<1>23. CASE SettlePending
  BY <1>0, <1>23 DEF SettlePending, Gate, DeletePendingBroadcast, Idle, At, vars, nodeVars, guiVars, GatesAreCurrent, Current, PendingTxIDs, Session, Panel, Task
<1>24. ASSUME NEW at \in Stamp, RecordOutgoing(at) PROVE GatesAreCurrent'
  BY <1>0, <1>24 DEF RecordOutgoing, PutTransaction, At, vars, nodeVars, guiVars, GatesAreCurrent, Current, PendingTxIDs, Session, Panel, Task
<1>25. CASE StartRefresh
  BY <1>0, <1>25 DEF StartRefresh, Idle, At, vars, nodeVars, guiVars, GatesAreCurrent, Current, PendingTxIDs, Session, Panel, Task
<1>26. CASE RefreshPending
  BY <1>0, <1>26 DEF RefreshPending, StartRender, Idle, At, vars, nodeVars, guiVars, GatesAreCurrent, Current, PendingTxIDs, Session, Panel, Task
<1>27. CASE RefreshSendAddresses
  BY <1>0, <1>27 DEF RefreshSendAddresses, Repopulated, At, vars, nodeVars, guiVars, GatesAreCurrent, Current, PendingTxIDs, Session, Panel, Task
<1>28. ASSUME NEW a \in Addr, ChooseTo(a) PROVE GatesAreCurrent'
  BY <1>0, <1>28 DEF ChooseTo, At, vars, nodeVars, guiVars, GatesAreCurrent, Current, PendingTxIDs, Session, Panel, Task
<1>29. ASSUME NEW a \in Addr, DemoConfirmation(a) PROVE GatesAreCurrent'
  BY <1>0, <1>29 DEF DemoConfirmation, CommandLine, MarkSpent, Idle, At, vars, nodeVars, guiVars, GatesAreCurrent, Current, PendingTxIDs, Session, Panel, Task
<1>30. ASSUME NEW a \in Addr, DemoPurge(a) PROVE GatesAreCurrent'
  BY <1>0, <1>30 DEF DemoPurge, CommandLine, Retire, Idle, At, vars, nodeVars, guiVars, GatesAreCurrent, Current, PendingTxIDs, Session, Panel, Task
<1>31. ASSUME NEW t \in TxID, PreviewSend(t) PROVE GatesAreCurrent'
  BY <1>0, <1>31 DEF PreviewSend, OpenDialog, Repopulated, Forget, Idle, At, vars, nodeVars, guiVars, GatesAreCurrent, Current, PendingTxIDs, Session, Panel, Task
<1>32. ASSUME NEW t \in TxID, PreviewRecovery(t) PROVE GatesAreCurrent'
  BY <1>0, <1>32 DEF PreviewRecovery, OpenDialog, Forget, Idle, At, vars, nodeVars, guiVars, GatesAreCurrent, Current, PendingTxIDs, Session, Panel, Task
<1>33. ASSUME NEW panel \in Panel, PreviewFails(panel) PROVE GatesAreCurrent'
  <2>1. panel \in {"send", "recovery"} /\ PendingTxIDs' = PendingTxIDs
    BY <1>33 DEF PreviewFails, Panel, PendingTxIDs, vars
  <2>2. /\ session'.rows = session.rows
        /\ session'.approved = [session.approved EXCEPT ![panel] = {}]
        /\ session'.send = session.send
        /\ panel # "recovery" => session'.recovery = session.recovery
    BY <1>0, <1>33, <2>1 DEF PreviewFails, Forget, Repopulated, Session
  <2>3. session'.approved[panel] = {} /\ \A q \in Panel \ {panel} : session'.approved[q] = session.approved[q]
    BY <1>0, <2>2 DEF Session
  <2>4. \A q \in Panel \ {panel} : Current(q)' = Current(q)
    BY <2>1, <2>2 DEF Current, Panel
  <2> QED BY <1>0, <2>1, <2>2, <2>3, <2>4 DEF GatesAreCurrent
<1>34. ASSUME NEW panel \in Panel, NEW t \in TxID, TestTransaction(panel, t) PROVE GatesAreCurrent'
  BY <1>0, <1>34 DEF TestTransaction, Gate, At, vars, nodeVars, guiVars, GatesAreCurrent, Current, PendingTxIDs, Session, Panel, Task
<1>35. ASSUME NEW panel \in Panel, NEW t \in TxID, Broadcast(panel, t) PROVE GatesAreCurrent'
  BY <1>0, <1>35 DEF Broadcast, Gate, Idle, At, vars, nodeVars, guiVars, GatesAreCurrent, Current, PendingTxIDs, Session, Panel, Task
<1>36. CASE Restart
  BY <1>0, <1>36 DEF Restart, NoSession, Idle, vars, nodeVars, guiVars, GatesAreCurrent, Current, PendingTxIDs, Session, Panel, Task
<1>37. CASE UNCHANGED worldVars
  BY <1>0, <1>37 DEF worldVars, vars, nodeVars, guiVars, GatesAreCurrent, Current, PendingTxIDs, Session, Panel, Task
<1> QED BY <1>1, <1>2, <1>3, <1>4, <1>5, <1>6, <1>7, <1>8, <1>9, <1>10, <1>11, <1>12, <1>13, <1>14, <1>15, <1>16, <1>17, <1>18, <1>19, <1>20, <1>21, <1>22, <1>23, <1>24, <1>25, <1>26, <1>27, <1>28, <1>29, <1>30, <1>31, <1>32, <1>33, <1>34, <1>35, <1>36, <1>37
        DEF NodeNext, ChainNext, HandlerNext, UserNext

\* A new wallet satisfies the invariant.
LEMMA NodeInvInit == NodeInit => NodeInv
<1> SUFFICES ASSUME NodeInit PROVE NodeInv
  OBVIOUS
<1>1. NodeShape
  <2>1. task \in Task
    BY DEF NodeInit, Idle, Task, Pc, Panel
  <2>2. session \in Session
    BY DEF NodeInit, NoSession, Session, Panel
  <2> QED BY <2>1, <2>2 DEF NodeInit, Init, NodeShape
<1>2. task.pc = "idle"
  BY DEF NodeInit, Idle
<1>3. TxInHand /\ SentBeforeCleared /\ RenderInOrder /\ DialogForgets
  BY <1>2 DEF NodeInit, TxInHand, SentBeforeCleared, RenderInOrder, DialogForgets, ChainTx
<1>4. StoredUntilSent
  BY DEF NodeInit, Init, StoredUntilSent, SignedTxIDs
<1>5. GatesAreCurrent
  BY DEF NodeInit, NoSession, GatesAreCurrent, Panel
<1> QED BY <1>1, <1>3, <1>4, <1>5 DEF NodeInv

\* Every step keeps it.
LEMMA NodeInvStep == NodeInv /\ [NodeNext]_worldVars => NodeInv'
BY ShapeStep, InHandStep, SentStep, StoredStep, RenderStep, DialogStep, GatesStep DEF NodeInv

\* The inductive invariant holds of every reachable state.
THEOREM NodeSafe == NodeSpec => []NodeInv
BY NodeInvInit, NodeInvStep, PTL DEF NodeSpec

\* A signed transaction is stored until a node has accepted it, for any run of
\* the user, the node, the chain and crashes.
THEOREM StoredSafe == NodeSpec => []StoredUntilSent
<1>1. NodeInv => StoredUntilSent
  BY DEF NodeInv
<1> QED BY <1>1, NodeSafe, PTL

\* Every row with a test button is stored, and every approval is of the
\* transaction its button would send.
THEOREM GatesSafe == NodeSpec => []GatesAreCurrent
<1>1. NodeInv => GatesAreCurrent
  BY DEF NodeInv
<1> QED BY <1>1, NodeSafe, PTL

-----------------------------------------------------------------------------
(* The GUI calls the index as KeyIndex allows *)

\* What the GUI may send was signed, and so was everything a node has seen.
SignedInHand ==
  /\ mempool \subseteq sent
  /\ sent \subseteq SignedTxIDs
  /\ {session.send, session.recovery} \subseteq SignedTxIDs \cup {NoTx}
  /\ task.pc = "send" => task.tx \in SignedTxIDs

\* An output that the funding scan showed was created by a stranger or by a
\* transaction that a node has accepted.
SeenIsSent ==
  task.pc = "fund" => \A o \in task.seen : Creator[o] \in TxID => Creator[o] \in sent

IndexInv == TypeOK /\ IInv /\ NodeInv /\ SignedInHand /\ SeenIsSent

\* What is stored, on a row or behind a button was signed.
LEMMA StoredIsSigned ==
  ASSUME IndexInv
  PROVE  /\ PendingTxIDs \subseteq SignedTxIDs
         /\ \A panel \in Panel : Current(panel) \subseteq SignedTxIDs
         /\ SignedTxIDs \subseteq TxID
<1>1. PendingTxIDs \subseteq SignedTxIDs
  <2>1. \A p \in pending_broadcasts : [TxID |-> p.TxID, Kind |-> p.Kind] \in signed
    BY DEF IndexInv, IInv, PendingIsTracked, Signed
  <2>2. \A t, kind : [TxID |-> t, Kind |-> kind] \in signed => t \in SignedTxIDs
    BY DEF SignedTxIDs
  <2> QED BY <2>1, <2>2 DEF PendingTxIDs
<1>2. SignedTxIDs \subseteq TxID
  BY DEF IndexInv, TypeOK, SignedTx, SignedTxIDs
<1>3. session.rows \subseteq SignedTxIDs
  BY <1>1 DEF IndexInv, NodeInv, GatesAreCurrent
<1>4. \A panel \in Panel : Current(panel) \subseteq SignedTxIDs
  BY <1>3 DEF IndexInv, SignedInHand, Current, Panel
<1> QED BY <1>1, <1>2, <1>4

\* A credit is a call of KeyIndex: for change no history is written, and for
\* any other address the records are of deposits.
LEMMA FundingUsesIndex ==
  ASSUME IndexInv, NEW a \in Addr, ObserveFundingWithHistory(a)
  PROVE  Next
<1> DEFINE paid == task.seen \cap OutpointsOf(a)
           D    == {Creator[o] : o \in paid}
           sats == [d \in D |-> Sats({o \in paid : Creator[o] = d})]
<1>1. MarkFundedAndRecordIncoming(a, Sats(paid), IncomingFor(a, sats)) /\ task.pc = "fund"
  BY DEF ObserveFundingWithHistory, At
<1>2. paid \subseteq OutpointsOf(a) /\ \A o \in paid : o \in Outpoint /\ Owner[o] = a
  BY DEF OutpointsOf
<1>3. CASE addresses[a].Reserved
  BY <1>1, <1>3 DEF MarkFundedAndRecordIncoming, MarkFunded, Next
<1>4. CASE ~addresses[a].Reserved
  <2>1. D # {}
    BY <1>1, <1>4 DEF MarkFundedAndRecordIncoming, IncomingFor
  <2>2. D \subseteq DepositTx
    <3> SUFFICES ASSUME NEW o \in paid PROVE Creator[o] \in DepositTx
      OBVIOUS
    <3>1. o \in Outpoint /\ Owner[o] = a
      BY <1>2
    <3>2. CASE Creator[o] \in TxID
      <4>1. Creator[o] \in SignedTxIDs
        BY <1>1, <3>2 DEF IndexInv, SeenIsSent, SignedInHand
      <4>2. addresses[a].State = "FRESH"
        BY <1>1 DEF MarkFundedAndRecordIncoming
      <4>3. TxChange[Creator[o]] # a
        BY <1>4, <4>1, <4>2, TxAssumption DEF IndexInv, IInv, ChangeInv, ChangeHeld
      <4> QED BY <3>1, <3>2, <4>3, NodeAssumption
    <3>3. CASE Creator[o] \notin TxID
      BY <3>1, <3>3, NodeAssumption DEF ChainTx
    <3> QED BY <3>2, <3>3
  <2>3. paid # {} /\ Sats(paid) \in 1 .. MaxBalance
    BY <1>2, <2>1, AmountsFit
  <2>4. ASSUME NEW d \in D PROVE Sats({o \in paid : Creator[o] = d}) \in 0 .. MaxSats
    <3>1. /\ {o \in paid : Creator[o] = d} \in SUBSET OutpointsOf(a)
          /\ {o \in paid : Creator[o] = d} # {}
      BY <1>2
    <3>2. Sats({o \in paid : Creator[o] = d}) \in 1 .. MaxSats
      BY <3>1, AmountsFit
    <3> QED BY <3>2, SatsAssumption
  <2>5. sats \in [D -> 0 .. MaxSats]
    BY <2>4
  <2> HIDE DEF paid, D, sats
  <2> QED BY <1>1, <2>2, <2>3, <2>5 DEF Next
<1> QED BY <1>3, <1>4

\* Every step of the GUI, the node, the chain or a crash is one call of the
\* index or does not touch it.
LEMMA IndexCall ==
  ASSUME IndexInv, [NodeNext]_worldVars PROVE [Next]_vars
<1>0. /\ task.pc \in {"reconcile", "clear", "sign", "send", "record", "settle"} => task.tx \in TxID
      /\ task.pc \in {"reconcile", "clear", "record", "settle"} => task.tx \in SignedTxIDs
      /\ task \in Task
      /\ \A t \in TxID : TxFrom[t] \in Addr
  BY TxAssumption DEF IndexInv, NodeInv, NodeShape, TxInHand, SentBeforeCleared, SignedInHand
<1>1. CASE FillPool
  BY <1>1 DEF FillPool, Next
<1>2. ASSUME NEW a \in Addr, ObserveFundingWithHistory(a) PROVE Next
  BY <1>2, FundingUsesIndex
<1>3. ASSUME NEW a \in Addr, ObserveRecoverableBalance(a) PROVE Next
  <2>1. ObserveRecoverableOutpoints(a, task.seen \cap OutpointsOf(a), a \in task.mature)
    BY <1>3 DEF ObserveRecoverableBalance
  <2>2. task.seen \cap OutpointsOf(a) \in SUBSET OutpointsOf(a) /\ (a \in task.mature) \in BOOLEAN
    OBVIOUS
  <2> QED BY <2>1, <2>2 DEF Next
<1>4. ASSUME NEW a \in Addr, ObserveSpendConfirmation(a) PROVE Next
  BY <1>4 DEF ObserveSpendConfirmation, Next
<1>5. CASE ReconcileSpend
  BY <1>0, <1>5 DEF ReconcileSpend, At, Next
<1>6. CASE ReconcileRecovery
  <2>0. SUFFICES ASSUME ~UNCHANGED vars PROVE Next
    OBVIOUS
  <2>1. TxFrom[task.tx] \in Addr /\ Mature(TxFrom[task.tx]) \in BOOLEAN
    BY <1>0, <1>6 DEF ReconcileRecovery, At, Mature
  <2>2. ObserveRecoverableOutpoints(TxFrom[task.tx], Unspent \cap OutpointsOf(TxFrom[task.tx]),
                                    Mature(TxFrom[task.tx]))
    BY <1>6, <2>0 DEF ReconcileRecovery
  <2>3. Unspent \cap OutpointsOf(TxFrom[task.tx]) \in SUBSET OutpointsOf(TxFrom[task.tx])
    OBVIOUS
  <2> QED BY <2>1, <2>2, <2>3 DEF Next
<1>7. CASE ClearEntry
  BY <1>0, <1>7 DEF ClearEntry, At, Next
<1>8. CASE SignAndStore
  BY <1>0, <1>8 DEF SignAndStore, At, Next
<1>9. CASE SettlePending
  BY <1>0, <1>9 DEF SettlePending, At, Next
<1>10. ASSUME NEW at \in Stamp, RecordOutgoing(at) PROVE [Next]_vars
  <2> DEFINE rec == [Direction |-> "outgoing", TxID |-> task.tx, RecordedAt |-> at]
  <2>1. rec.TxID \in SignedTxIDs /\ task.tx \in TxID
    BY <1>0, <1>10 DEF RecordOutgoing, At
  <2>2. rec \in OutgoingRecord
    BY <2>1 DEF OutgoingRecord
  <2>3. PutTransaction(rec) \/ UNCHANGED vars
    BY <1>10 DEF RecordOutgoing
  <2> HIDE DEF rec
  <2> QED BY <2>1, <2>2, <2>3 DEF Next
<1>11. ASSUME NEW a \in Addr, DemoConfirmation(a) \/ DemoPurge(a) PROVE Next
  BY <1>11 DEF DemoConfirmation, DemoPurge, Next
<1>12. CASE ChainNext \/ Restart
  BY <1>12 DEF ChainNext, Mine, Reorg, Evict, Restart
<1>13. CASE \/ ScanSpent \/ StartConfirm \/ EndRefresh \/ ReconcileFails \/ ObserveFails \/ EndRender
            \/ NotSigned \/ SendRawTransaction
            \/ StartRefresh \/ RefreshPending \/ RefreshSendAddresses
  BY <1>13 DEF ScanSpent, StartConfirm, EndRefresh, ReconcileFails, ObserveFails, EndRender, NotSigned,
               SendRawTransaction, StartRefresh, RefreshPending, RefreshSendAddresses
<1>14. ASSUME NEW a \in Addr, SkipSpendConfirmation(a) \/ ChooseTo(a) PROVE UNCHANGED vars
  BY <1>14 DEF SkipSpendConfirmation, ChooseTo
<1>15. ASSUME NEW t \in TxID, \/ RowUnknown(t) \/ RowWaits(t) \/ RowConfirmed(t)
                              \/ PreviewSend(t) \/ PreviewRecovery(t)
       PROVE  UNCHANGED vars
  BY <1>15 DEF RowUnknown, RowWaits, RowConfirmed, PreviewSend, PreviewRecovery
<1>16. ASSUME NEW panel \in Panel, NEW t \in TxID,
              PreviewFails(panel) \/ TestTransaction(panel, t) \/ Broadcast(panel, t)
       PROVE  UNCHANGED vars
  BY <1>16 DEF PreviewFails, TestTransaction, Broadcast
<1>17. ASSUME NEW panel \in Panel, PreviewFails(panel) PROVE UNCHANGED vars
  BY <1>17 DEF PreviewFails
<1>18. CASE UNCHANGED worldVars
  BY <1>18 DEF worldVars
<1> QED BY <1>1, <1>2, <1>3, <1>4, <1>5, <1>6, <1>7, <1>8, <1>9, <1>10, <1>11, <1>12, <1>13,
           <1>14, <1>15, <1>16, <1>17, <1>18 DEF NodeNext, ChainNext, HandlerNext, UserNext

\* Signatures are only added.
LEMMA SignedStays == ASSUME [Next]_vars PROVE SignedTxIDs \subseteq SignedTxIDs'
<1>1. signed \subseteq signed'
  BY DEF Next, vars, GenerateAddress, MarkFunded, MarkFundedAndRecordIncoming,
         MarkSpendPendingAndReserveChange, MarkRecoveryPendingAndReserveChange,
         ObserveRecoverableOutpoints, MarkSpent, Retire, PutTransaction, DeletePendingBroadcast
<1> QED BY <1>1 DEF SignedTxIDs

\* What the node has seen changes by a block, a reorganisation, an eviction or
\* a transaction that the GUI sends.
LEMMA NodeMoves ==
  ASSUME [NodeNext]_worldVars
  PROVE  \/ \E T \in SUBSET ChainTx : Mine(T)
         \/ Reorg
         \/ UNCHANGED <<depth, sent, reorgs>> /\ mempool' \subseteq mempool
         \/ /\ task.pc = "send" /\ UNCHANGED <<depth, reorgs>>
            /\ mempool' = mempool \cup {task.tx} /\ sent' = sent \cup {task.tx}
<1>1. CASE Evict
  BY <1>1 DEF Evict
<1>2. CASE SendRawTransaction
  BY <1>2 DEF SendRawTransaction, At
<1>3. ASSUME NEW a \in Addr, \/ ObserveFundingWithHistory(a) \/ ObserveRecoverableBalance(a)
                             \/ ObserveSpendConfirmation(a) \/ SkipSpendConfirmation(a)
                             \/ ChooseTo(a) \/ DemoConfirmation(a) \/ DemoPurge(a)
      PROVE  UNCHANGED nodeVars
  BY <1>3 DEF ObserveFundingWithHistory, ObserveRecoverableBalance, ObserveSpendConfirmation,
              SkipSpendConfirmation, ChooseTo, DemoConfirmation, DemoPurge, CommandLine
<1>4. ASSUME NEW t \in TxID, \/ RowUnknown(t) \/ RowWaits(t) \/ RowConfirmed(t)
                             \/ PreviewSend(t) \/ PreviewRecovery(t)
      PROVE  UNCHANGED nodeVars
  BY <1>4 DEF RowUnknown, RowWaits, RowConfirmed, PreviewSend, PreviewRecovery
<1>5. ASSUME NEW panel \in Panel, NEW t \in TxID, TestTransaction(panel, t) \/ Broadcast(panel, t)
      PROVE  UNCHANGED nodeVars
  BY <1>5 DEF TestTransaction, Broadcast
<1>6. ASSUME NEW panel \in Panel, PreviewFails(panel) PROVE UNCHANGED nodeVars
  BY <1>6 DEF PreviewFails
<1>7. ASSUME NEW at \in Stamp, RecordOutgoing(at) PROVE UNCHANGED nodeVars
  BY <1>7 DEF RecordOutgoing
<1>8. CASE \/ FillPool \/ ScanSpent \/ StartConfirm \/ EndRefresh \/ ReconcileSpend
           \/ ReconcileRecovery \/ ReconcileFails \/ ObserveFails \/ ClearEntry \/ EndRender \/ SignAndStore
           \/ NotSigned \/ SettlePending \/ StartRefresh \/ RefreshPending
           \/ RefreshSendAddresses \/ Restart \/ UNCHANGED worldVars
  <2>1. UNCHANGED nodeVars
    BY <1>8 DEF FillPool, ScanSpent, StartConfirm, EndRefresh, ReconcileSpend, ReconcileRecovery,
                ReconcileFails, ObserveFails, ClearEntry, EndRender, SignAndStore, NotSigned, SettlePending,
                StartRefresh, RefreshPending, RefreshSendAddresses, Restart, worldVars
  <2> QED BY <2>1 DEF nodeVars
<1> QED BY <1>1, <1>2, <1>3, <1>4, <1>5, <1>6, <1>7, <1>8
        DEF NodeNext, ChainNext, HandlerNext, UserNext, nodeVars

\* The GUI forgets what it signed, or remembers what it signs now.
LEMMA MemoryMoves ==
  ASSUME session \in Session, [NodeNext]_worldVars
  PROVE  \/ SignAndStore
         \/ /\ session'.send \in {session.send, NoTx}
            /\ session'.recovery \in {session.recovery, NoTx}
<1>1. CASE Restart
  BY <1>1 DEF Restart, NoSession
<1>2. ASSUME NEW a \in Addr, \/ ObserveFundingWithHistory(a) \/ ObserveRecoverableBalance(a)
                             \/ ObserveSpendConfirmation(a) \/ SkipSpendConfirmation(a)
                             \/ DemoConfirmation(a) \/ DemoPurge(a)
      PROVE  UNCHANGED session
  BY <1>2 DEF ObserveFundingWithHistory, ObserveRecoverableBalance, ObserveSpendConfirmation,
              SkipSpendConfirmation, DemoConfirmation, DemoPurge, CommandLine
<1>3. ASSUME NEW a \in Addr, ChooseTo(a)
      PROVE  session'.send = session.send /\ session'.recovery = session.recovery
  BY <1>3 DEF ChooseTo, Session
<1>4. ASSUME NEW t \in TxID, RowUnknown(t)
      PROVE  session'.send = session.send /\ session'.recovery = session.recovery
  BY <1>4 DEF RowUnknown, Session
<1>5. ASSUME NEW t \in TxID, RowWaits(t) \/ RowConfirmed(t) PROVE UNCHANGED session
  BY <1>5 DEF RowWaits, RowConfirmed
<1>6. ASSUME NEW panel \in Panel \ {"pending"}
      PROVE  /\ Forget(panel).send = session.send
             /\ Forget(panel).recovery \in {session.recovery, NoTx}
  BY DEF Forget, Session, Panel
<1>7. \A s \in Session : Repopulated(s).send = s.send /\ Repopulated(s).recovery = s.recovery
  BY DEF Repopulated, Session
<1>f. \A panel \in Panel \ {"pending"} : Forget(panel) \in Session
  BY DEF Forget, Session, Panel
<1>8. ASSUME NEW t \in TxID, PreviewSend(t) \/ PreviewRecovery(t)
      PROVE  /\ session'.send = session.send
             /\ session'.recovery \in {session.recovery, NoTx}
  BY <1>6, <1>7, <1>8, <1>f DEF PreviewSend, PreviewRecovery, OpenDialog, Panel
<1>9. ASSUME NEW panel \in Panel, PreviewFails(panel)
      PROVE  /\ session'.send = session.send
             /\ session'.recovery \in {session.recovery, NoTx}
  BY <1>6, <1>7, <1>9, <1>f DEF PreviewFails
<1>10. ASSUME NEW panel \in Panel, NEW t \in TxID, TestTransaction(panel, t)
       PROVE  session'.send = session.send /\ session'.recovery = session.recovery
  BY <1>10 DEF TestTransaction, Gate, Session
<1>11. ASSUME NEW panel \in Panel, NEW t \in TxID, Broadcast(panel, t)
       PROVE  session'.send = session.send /\ session'.recovery = session.recovery
  BY <1>11 DEF Broadcast, Gate, Session
<1>12. CASE SettlePending
  BY <1>12 DEF SettlePending, Gate, Session
<1>13. CASE RefreshSendAddresses
  BY <1>7, <1>13 DEF RefreshSendAddresses
<1>14. CASE EndRefresh \/ RefreshPending
  BY <1>14 DEF EndRefresh, RefreshPending, StartRender, Session
<1>15. ASSUME NEW at \in Stamp, RecordOutgoing(at) PROVE UNCHANGED session
  BY <1>15 DEF RecordOutgoing
<1>16. CASE \/ FillPool \/ ScanSpent \/ StartConfirm \/ ReconcileSpend
            \/ ReconcileRecovery \/ ReconcileFails \/ ObserveFails \/ ClearEntry \/ EndRender
            \/ NotSigned \/ SendRawTransaction \/ StartRefresh \/ ChainNext \/ UNCHANGED worldVars
  <2>1. UNCHANGED session
    BY <1>16 DEF FillPool, ScanSpent, StartConfirm, ReconcileSpend, ReconcileRecovery,
                 ReconcileFails, ObserveFails, ClearEntry, EndRender, NotSigned, SendRawTransaction,
                 StartRefresh, ChainNext, Mine, Reorg, Evict, guiVars, worldVars
  <2> QED BY <2>1
<1> QED BY <1>1, <1>2, <1>3, <1>4, <1>5, <1>8, <1>9, <1>10, <1>11, <1>12, <1>13, <1>14, <1>15, <1>16
        DEF NodeNext, HandlerNext, UserNext

\* A handler keeps what a scan has shown it and what it has in hand; only the
\* start of a refresh, its second scan, a mined row and a broadcast give it
\* something new.
HandKept ==
  task'.pc \in {"fund", "recover", "reconcile", "send"} =>
    /\ task'.pc = task.pc /\ task'.seen = task.seen /\ task'.tx = task.tx
    /\ task'.addrs \subseteq task.addrs

\* There are four places where a handler starts on something new.
LEMMA HandMoves ==
  ASSUME task \in Task, [NodeNext]_worldVars
  PROVE  \/ HandKept \/ StartRefresh \/ ScanSpent
         \/ \E t \in TxID : RowConfirmed(t)
         \/ \E panel \in Panel, t \in TxID : Broadcast(panel, t)
<1>1. ASSUME NEW a \in Addr, ObserveFundingWithHistory(a) PROVE HandKept
  BY <1>1 DEF ObserveFundingWithHistory, HandKept, Task
<1>2. ASSUME NEW a \in Addr, ObserveRecoverableBalance(a) PROVE HandKept
  BY <1>2 DEF ObserveRecoverableBalance, HandKept, Task
<1>3. ASSUME NEW a \in Addr, ObserveSpendConfirmation(a) \/ SkipSpendConfirmation(a) PROVE HandKept
  BY <1>3 DEF ObserveSpendConfirmation, SkipSpendConfirmation, At, HandKept, Task
<1>4. ASSUME NEW a \in Addr, DemoConfirmation(a) \/ DemoPurge(a) PROVE HandKept
  BY <1>4 DEF DemoConfirmation, DemoPurge, CommandLine, Idle, HandKept
<1>5. ASSUME NEW t \in TxID, RowUnknown(t) \/ RowWaits(t) PROVE HandKept
  BY <1>5 DEF RowUnknown, RowWaits, NextRow, At, HandKept, Task
<1>6. ASSUME NEW t \in TxID, PreviewSend(t) \/ PreviewRecovery(t) PROVE HandKept
  BY <1>6 DEF PreviewSend, PreviewRecovery, OpenDialog, Idle, HandKept
<1>7. ASSUME NEW at \in Stamp, RecordOutgoing(at) PROVE HandKept
  BY <1>7 DEF RecordOutgoing, HandKept, Task
<1>8. CASE FillPool
  BY <1>8 DEF FillPool, HandKept, Task
<1>9. CASE StartConfirm \/ EndRefresh \/ RefreshPending \/ SettlePending \/ Restart
  BY <1>9 DEF StartConfirm, ToConfirm, EndRefresh, RefreshPending, StartRender, SettlePending,
               Restart, Idle, HandKept
<1>10. CASE ReconcileSpend \/ ReconcileRecovery \/ ReconcileFails \/ ObserveFails \/ ClearEntry
  BY <1>10 DEF ReconcileSpend, ReconcileRecovery, ReconcileFails, ObserveFails, ClearEntry, HandKept, Task
<1>11. CASE EndRender \/ SignAndStore \/ NotSigned \/ SendRawTransaction
  BY <1>11 DEF EndRender, SignAndStore, NotSigned, SendRawTransaction, Finish, Idle, HandKept, Task
<1>12. CASE ChainNext \/ RefreshSendAddresses \/ UNCHANGED worldVars
  BY <1>12 DEF ChainNext, Mine, Reorg, Evict, RefreshSendAddresses, guiVars, worldVars, HandKept
<1>13. ASSUME NEW a \in Addr, ChooseTo(a) PROVE HandKept
  BY <1>13 DEF ChooseTo, HandKept
<1>14. ASSUME NEW panel \in Panel, NEW t \in TxID, TestTransaction(panel, t) PROVE HandKept
  BY <1>14 DEF TestTransaction, HandKept
<1>15. ASSUME NEW panel \in Panel, PreviewFails(panel) PROVE HandKept
  BY <1>15 DEF PreviewFails, HandKept
<1> QED BY <1>1, <1>2, <1>3, <1>4, <1>5, <1>6, <1>7, <1>8, <1>9, <1>10, <1>11, <1>12,
           <1>13, <1>14, <1>15 DEF NodeNext, HandlerNext, UserNext

\* What the GUI may send was signed, and so was everything a node has seen.
LEMMA SignedInHandStep ==
  ASSUME IndexInv, [NodeNext]_worldVars PROVE SignedInHand'
<1>0. /\ SignedInHand /\ session \in Session /\ task \in Task
      /\ SignedTxIDs \subseteq SignedTxIDs'
      /\ \A panel \in Panel : Current(panel) \subseteq SignedTxIDs
      /\ \A t \in TxID : depth[t] > 0 => t \in sent
  BY IndexCall, SignedStays, StoredIsSigned DEF IndexInv, NodeInv, NodeShape, SentBeforeCleared
<1>1. mempool' \subseteq sent' /\ sent' \subseteq SignedTxIDs'
  <2>1. CASE \E T \in SUBSET ChainTx : Mine(T)
    BY <1>0, <2>1 DEF Mine, SignedInHand
  <2>2. CASE Reorg
    <3>1. {t \in ChainTx : depth[t] = 1} \cap TxID \subseteq sent
      BY <1>0
    <3> QED BY <1>0, <2>2, <3>1 DEF Reorg, SignedInHand
  <2>3. CASE UNCHANGED <<depth, sent, reorgs>> /\ mempool' \subseteq mempool
    BY <1>0, <2>3 DEF SignedInHand
  <2>4. CASE /\ task.pc = "send"
             /\ mempool' = mempool \cup {task.tx} /\ sent' = sent \cup {task.tx}
    BY <1>0, <2>4 DEF SignedInHand
  <2> QED BY <2>1, <2>2, <2>3, <2>4, NodeMoves
<1>2. {session'.send, session'.recovery} \subseteq SignedTxIDs' \cup {NoTx}
  <2>1. CASE SignAndStore
    <3>1. task.tx \in SignedTxIDs'
      BY <2>1, SignedGrows DEF SignAndStore, MarkSpendPendingAndReserveChange,
                               MarkRecoveryPendingAndReserveChange
    <3>2. session'.send \in {session.send, task.tx} /\ session'.recovery \in {session.recovery, task.tx}
      BY <1>0, <2>1 DEF SignAndStore, Session
    <3> QED BY <1>0, <3>1, <3>2 DEF SignedInHand
  <2>2. CASE session'.send \in {session.send, NoTx} /\ session'.recovery \in {session.recovery, NoTx}
    BY <1>0, <2>2 DEF SignedInHand
  <2> QED BY <1>0, <2>1, <2>2, MemoryMoves
<1>3. task'.pc = "send" => task'.tx \in SignedTxIDs'
  <2>1. ASSUME NEW panel \in Panel, NEW t \in TxID, Broadcast(panel, t), task'.pc = "send"
        PROVE  task'.tx = t /\ t \in SignedTxIDs
    BY <1>0, <2>1 DEF Broadcast, At, Idle
  <2>2. CASE HandKept
    BY <1>0, <2>2 DEF HandKept, SignedInHand
  <2>3. ASSUME StartRefresh \/ ScanSpent \/ \E t \in TxID : RowConfirmed(t)
        PROVE  task'.pc # "send"
    BY <1>0, <2>3 DEF StartRefresh, ScanSpent, RowConfirmed, ToConfirm, Idle, Task
  <2> QED BY <1>0, <2>1, <2>2, <2>3, HandMoves
<1> QED BY <1>1, <1>2, <1>3 DEF SignedInHand

\* A scan shows outputs of transactions that are on the chain.
LEMMA SeenIsSentStep ==
  ASSUME IndexInv, [NodeNext]_worldVars PROVE SeenIsSent'
<1>0. /\ SeenIsSent /\ task \in Task
      /\ \A t \in TxID : depth[t] > 0 => t \in sent
  BY DEF IndexInv, NodeInv, NodeShape, SentBeforeCleared
<1>1. sent \subseteq sent'
  BY NodeMoves DEF Mine, Reorg
<1>2. CASE HandKept
  BY <1>0, <1>1, <1>2 DEF HandKept, SeenIsSent
<1>3. CASE StartRefresh
  <2>1. \A o \in task'.seen : o \in Unspent
    BY <1>3 DEF StartRefresh, SeenOn, Idle
  <2> QED BY <1>0, <1>1, <2>1 DEF Unspent, SeenIsSent
<1>4. CASE ScanSpent \/ (\E t \in TxID : RowConfirmed(t))
           \/ \E panel \in Panel, t \in TxID : Broadcast(panel, t)
  BY <1>0, <1>4 DEF ScanSpent, ToConfirm, RowConfirmed, NextRow, Broadcast, At, Idle, SeenIsSent, Task
<1> QED BY <1>0, <1>2, <1>3, <1>4, HandMoves

\* The invariant that ties the GUI's memory to the index is inductive.
LEMMA IndexInvStep == IndexInv /\ [NodeNext]_worldVars => IndexInv'
<1> SUFFICES ASSUME IndexInv, [NodeNext]_worldVars PROVE IndexInv'
  OBVIOUS
<1>1. NodeInv'
  BY NodeInvStep DEF IndexInv
<1>2. TypeOK' /\ IInv'
  BY IndexCall, IndexStep DEF IndexInv
<1> QED BY <1>1, <1>2, SignedInHandStep, SeenIsSentStep DEF IndexInv

\* It holds of a new wallet.
LEMMA IndexInvInit == NodeInit => IndexInv
<1> SUFFICES ASSUME NodeInit PROVE IndexInv
  OBVIOUS
<1>1. NodeInv
  BY NodeInvInit
<1>2. TypeOK /\ IInv
  BY IndexInit DEF NodeInit
<1>3. SignedInHand /\ SeenIsSent
  BY DEF NodeInit, NoSession, Idle, SignedInHand, SeenIsSent
<1> QED BY <1>1, <1>2, <1>3 DEF IndexInv

\* The GUI, its node, the chain and crashes drive the index only through its
\* methods, with arguments that KeyIndex allows: what is proved of the index
\* by itself holds of the whole.
THEOREM NodeUsesIndex == NodeSpec => UsesIndex
<1>1. NodeInit => Init
  BY DEF NodeInit
<1>2. IndexInv /\ [NodeNext]_worldVars => [Next]_vars
  BY IndexCall
<1> QED BY <1>1, <1>2, IndexInvInit, IndexInvStep, PTL DEF NodeSpec, UsesIndex, Spec

\* Every key signs one spend, change is promised once, keys are kept while they
\* are needed, and the recovery locks match, while the GUI runs, blocks come
\* and go and the process dies.
THEOREM NodeIsSingleUse ==
  NodeSpec => [](OneSpendPerKey /\ ChangePromisedOnce /\ KeyKeptWhileNeeded /\ RecoveryLockMatches)
BY NodeUsesIndex, IndexIsSingleUse, KeysAreKept, PTL DEF UsesIndex

\* The whole keeps the promises of SingleUse, and its history is write-once.
THEOREM NodeKeepsPromises == NodeSpec => KeepsPromises /\ HistoryWriteOnce
BY NodeUsesIndex, IndexKeepsPromises, HistoryKept, PTL DEF UsesIndex

-----------------------------------------------------------------------------
(* What the wallet writes down is true of the chain *)

\* The chain and the command line stay within the bounds of the model.
NodeBounds ==
  /\ depth \in [ChainTx -> 0 .. MaxDepth]
  /\ reorgs \in 0 .. MaxReorgs
  /\ demos \in 0 .. MaxDemos

\* The database changes by the methods that these handlers call.
LEMMA DataMoves ==
  ASSUME [NodeNext]_worldVars
  PROVE  \/ UNCHANGED <<addresses, transactions, signed, demos>>
         \/ GenerateAddress /\ UNCHANGED demos
         \/ \E a \in Addr : \/ ObserveFundingWithHistory(a) \/ ObserveRecoverableBalance(a)
                            \/ ObserveSpendConfirmation(a)
         \/ ReconcileSpend \/ ReconcileRecovery \/ SignAndStore
         \/ \E at \in Stamp : RecordOutgoing(at)
         \/ \E a \in Addr : DemoConfirmation(a) \/ DemoPurge(a)
<1> DEFINE Kept == UNCHANGED <<addresses, transactions, signed, demos>>
<1>1. CASE ChainNext \/ Restart \/ UNCHANGED worldVars
  BY <1>1 DEF ChainNext, Mine, Reorg, Evict, Restart, worldVars, vars
<1>2. CASE FillPool
  BY <1>2 DEF FillPool, vars
<1>3. CASE \/ ScanSpent \/ StartConfirm \/ EndRefresh \/ ReconcileFails \/ ObserveFails \/ EndRender
           \/ NotSigned \/ SendRawTransaction
           \/ StartRefresh \/ RefreshPending \/ RefreshSendAddresses
  BY <1>3 DEF ScanSpent, StartConfirm, EndRefresh, ReconcileFails, ObserveFails, EndRender, NotSigned, vars,
              SendRawTransaction, StartRefresh, RefreshPending, RefreshSendAddresses
<1>4. CASE ClearEntry \/ SettlePending
  BY <1>4 DEF ClearEntry, SettlePending, DeletePendingBroadcast, vars
<1>5. ASSUME NEW a \in Addr, SkipSpendConfirmation(a) \/ ChooseTo(a) PROVE Kept
  BY <1>5 DEF SkipSpendConfirmation, ChooseTo, vars
<1>6. ASSUME NEW t \in TxID, \/ RowUnknown(t) \/ RowWaits(t) \/ RowConfirmed(t)
                             \/ PreviewSend(t) \/ PreviewRecovery(t)
      PROVE  Kept
  BY <1>6 DEF RowUnknown, RowWaits, RowConfirmed, PreviewSend, PreviewRecovery, vars
<1>7. ASSUME NEW panel \in Panel, NEW t \in TxID, TestTransaction(panel, t) \/ Broadcast(panel, t)
      PROVE  Kept
  BY <1>7 DEF TestTransaction, Broadcast, vars
<1>8. ASSUME NEW panel \in Panel, PreviewFails(panel) PROVE Kept
  BY <1>8 DEF PreviewFails, vars
<1> HIDE DEF Kept
<1> QED BY <1>1, <1>2, <1>3, <1>4, <1>5, <1>6, <1>7, <1>8
        DEF NodeNext, HandlerNext, UserNext, Kept

\* The bounds are kept.
LEMMA BoundsStep ==
  ASSUME NodeBounds, [NodeNext]_worldVars PROVE NodeBounds'
<1>0. MaxDepth \in Nat /\ MaxReorgs \in Nat /\ MaxDemos \in Nat /\ 1 \in 0 .. MaxDepth
  BY NodeAssumption
<1>1. depth' \in [ChainTx -> 0 .. MaxDepth] /\ reorgs' \in 0 .. MaxReorgs
  <2>1. ASSUME NEW T \in SUBSET ChainTx, Mine(T)
        PROVE  depth' \in [ChainTx -> 0 .. MaxDepth] /\ reorgs' = reorgs
    BY <1>0, <2>1 DEF Mine, NodeBounds
  <2>2. CASE Reorg
    BY <1>0, <2>2 DEF Reorg, NodeBounds
  <2> QED BY <2>1, <2>2, NodeMoves DEF NodeBounds
<1>2. demos' \in 0 .. MaxDemos
  <2>1. ASSUME NEW a \in Addr, DemoConfirmation(a) \/ DemoPurge(a)
        PROVE  demos < MaxDemos /\ demos' = demos + 1
    BY <2>1 DEF DemoConfirmation, DemoPurge, CommandLine
  <2>2. demos' = demos \/ \E a \in Addr : DemoConfirmation(a) \/ DemoPurge(a)
    BY DataMoves DEF ObserveFundingWithHistory, ObserveRecoverableBalance,
       ObserveSpendConfirmation, ReconcileSpend, ReconcileRecovery, SignAndStore, RecordOutgoing
  <2> QED BY <1>0, <2>1, <2>2 DEF NodeBounds
<1> QED BY <1>1, <1>2 DEF NodeBounds

\* The chain, the GUI's memory and the running handler have their types, and
\* every transaction that a node has was signed.
THEOREM NodeTypeCorrect == NodeSpec => []NodeTypeOK
<1>1. NodeInit => NodeBounds
  BY NodeAssumption DEF NodeInit, NodeBounds
<1>2. IndexInv /\ NodeBounds => NodeTypeOK
  BY DEF IndexInv, SignedInHand, NodeInv, NodeShape, NodeBounds, NodeTypeOK
<1> QED BY <1>1, <1>2, BoundsStep, IndexInvInit, IndexInvStep, PTL DEF NodeSpec

\* However many blocks may still be disconnected, the transaction stays mined.
Deep(d) == depth[d] + reorgs >= FundingMinConfirmations

\* What the funding scan is about to credit has been paid, deeply.
SeenDeep ==
  task.pc = "fund" =>
    /\ \A o \in task.seen : Deep(Creator[o])
    /\ \A a \in task.addrs : task.seen \cap OutpointsOf(a) # {}

\* So has every address that was credited and every deposit in the history.
CreditDeep ==
  /\ \A a \in InState("FUNDED") : \E o \in OutpointsOf(a) : Deep(Creator[o])
  /\ \A r \in transactions : r.Direction = "incoming" => r.TxID \in ChainTx /\ Deep(r.TxID)

\* History lists a payment only if a node has accepted it.
OutgoingIsSent == \A r \in transactions : r.Direction = "outgoing" => r.TxID \in sent

\* Only a spent address has signed a recovery.
RecoveredIsSpent ==
  \A t \in TxID : Signed(t, "recovery") => addresses[TxFrom[t]].State \in {"SPENT", "RETIRED"}

BackedInv == NodeBounds /\ SeenDeep /\ CreditDeep /\ OutgoingIsSent

\* A block that is disconnected costs one confirmation and counts one
\* reorganisation; nothing else takes a confirmation away.
LEMMA DeepStays ==
  ASSUME NodeBounds, [NodeNext]_worldVars, NEW d \in ChainTx, Deep(d) PROVE Deep(d)'
<1>0. /\ depth \in [ChainTx -> 0 .. MaxDepth] /\ reorgs \in Nat /\ MaxDepth \in Nat
      /\ FundingMinConfirmations \in Nat
  BY NodeAssumption DEF NodeBounds
<1>1. ASSUME NEW T \in SUBSET ChainTx, Mine(T) PROVE depth'[d] >= depth[d] /\ reorgs' = reorgs
  BY <1>0, <1>1 DEF Mine
<1>2. CASE Reorg
  <2>1. depth[d] \in Nat /\ depth'[d] = (IF depth[d] = 0 THEN 0 ELSE depth[d] - 1) /\ reorgs' = reorgs + 1
    BY <1>0, <1>2 DEF Reorg
  <2> QED BY <1>0, <2>1 DEF Deep
<1>3. ASSUME NEW T \in SUBSET ChainTx, Mine(T) PROVE Deep(d)'
  <2>1. depth'[d] \in Nat /\ depth[d] \in Nat
    BY <1>0, <1>3 DEF Mine
  <2> QED BY <1>0, <1>1, <1>3, <2>1 DEF Deep
<1> QED BY <1>2, <1>3, NodeMoves DEF Deep

\* A scan that credits an address has seen every one of its outputs deep in
\* the chain.
LEMMA SeenDeepStep ==
  ASSUME IndexInv, BackedInv, [NodeNext]_worldVars PROVE SeenDeep'
<1>0. /\ NodeBounds /\ SeenDeep /\ task \in Task
      /\ \A d \in ChainTx : Deep(d) => Deep(d)'
      /\ Creator \in [Outpoint -> ChainTx]
      /\ \A o \in task.seen : o \in Outpoint
  BY DeepStays, NodeAssumption DEF IndexInv, NodeInv, NodeShape, BackedInv, Task
<1>1. CASE HandKept
  BY <1>0, <1>1 DEF HandKept, SeenDeep
<1>2. CASE StartRefresh
  <2> DEFINE credited == InState("FRESH") \cap MatureAddrs
  <2>1. \A o \in SeenOn(credited) : o \in Outpoint /\ Deep(Creator[o])
    <3> SUFFICES ASSUME NEW o \in SeenOn(credited) PROVE o \in Outpoint /\ Deep(Creator[o])
      OBVIOUS
    <3>1. o \in Outpoint /\ o \in Unspent /\ Owner[o] \in MatureAddrs
      BY DEF SeenOn, Unspent
    <3>2. Mature(Owner[o]) /\ o \in OutpointsOf(Owner[o])
      BY <3>1 DEF MatureAddrs, OutpointsOf
    <3>3. depth[Creator[o]] >= FundingMinConfirmations
      BY <3>1, <3>2 DEF Mature
    <3>4. depth[Creator[o]] \in Nat /\ reorgs \in Nat /\ FundingMinConfirmations \in Nat
      BY <1>0, <3>1, NodeAssumption DEF NodeBounds
    <3> QED BY <3>1, <3>3, <3>4 DEF Deep
  <2>2. \A a \in credited : SeenOn(credited) \cap OutpointsOf(a) # {}
    BY DEF SeenOn, MatureAddrs, Mature, OutpointsOf
  <2>3. \/ task' = [Idle EXCEPT !.pc = "fund", !.addrs = credited, !.seen = SeenOn(credited)]
        \/ task' = [Idle EXCEPT !.pc = "fund"]
    BY <1>2 DEF StartRefresh
  <2> HIDE DEF credited
  <2>4. \/ task'.addrs = credited /\ task'.seen = SeenOn(credited)
        \/ task'.addrs = {} /\ task'.seen = {}
    BY <2>3 DEF Idle
  <2> QED BY <1>0, <2>1, <2>2, <2>4 DEF SeenDeep
<1>3. CASE ScanSpent \/ (\E t \in TxID : RowConfirmed(t))
           \/ \E panel \in Panel, t \in TxID : Broadcast(panel, t)
  <2>1. task'.pc # "fund" \/ HandKept
    BY <1>0, <1>3 DEF ScanSpent, ToConfirm, RowConfirmed, NextRow, Broadcast, At, Idle, Task, HandKept
  <2> QED BY <1>1, <2>1 DEF SeenDeep
<1> QED BY <1>0, <1>1, <1>2, <1>3, HandMoves

\* The life of an address runs one way, one state at a time.
Later(s, u) ==
  \/ u = s
  \/ <<s, u>> \in {<<"NONE", "FRESH">>, <<"FRESH", "FUNDED">>, <<"FUNDED", "SPEND_PENDING">>,
                   <<"SPEND_PENDING", "SPENT">>, <<"SPENT", "RETIRED">>}

\* What committing a spend changes.
LEMMA SpendFrame ==
  ASSUME addresses \in [Addr -> AddressRecord], NEW t \in TxID,
         MarkSpendPendingAndReserveChange(TxFrom[t], TxChange[t], t)
  PROVE  \A x \in Addr :
           /\ addresses'[x].State = IF x = TxFrom[t] THEN "SPEND_PENDING" ELSE addresses[x].State
           /\ addresses'[x].RecoverableOutpoints = addresses[x].RecoverableOutpoints
           /\ addresses'[x].RecoveryPendingOutpoints = addresses[x].RecoveryPendingOutpoints
           /\ addresses'[x].RecoverySpendTxID = addresses[x].RecoverySpendTxID
BY TxAssumption DEF MarkSpendPendingAndReserveChange, putRecord, ReserveChange, AddressRecord

\* No method takes an address back or lets it jump.
LEMMA StatesMove ==
  ASSUME TypeOK, IndexIsMonotonic, [Next]_vars
  PROVE  \A a \in Addr : Later(addresses[a].State, addresses'[a].State)
<1>0. addresses \in [Addr -> AddressRecord]
  BY DEF TypeOK
<1>1. CASE GenerateAddress
  <2>1. next_index \in Addr /\ addresses[next_index].State = "NONE"
    BY <1>1, MaxIndexAssumption DEF TypeOK, GenerateAddress, IndexIsMonotonic, Addr
  <2> QED BY <1>0, <1>1, <2>1 DEF GenerateAddress, putRecord, FreshRecord, BlankRecord, Later
<1>2. ASSUME NEW a \in Addr, addresses[a].State = "FRESH", addresses' = putRecord(a, Funded(addresses[a]))
      PROVE  \A x \in Addr : Later(addresses[x].State, addresses'[x].State)
  BY <1>0, <1>2 DEF putRecord, Funded, AddressRecord, Later
<1>3. ASSUME NEW t \in TxID, MarkSpendPendingAndReserveChange(TxFrom[t], TxChange[t], t)
      PROVE  \A x \in Addr : Later(addresses[x].State, addresses'[x].State)
  BY <1>0, <1>3, SpendFrame DEF MarkSpendPendingAndReserveChange, Later
<1>4. ASSUME NEW t \in TxID,
             MarkRecoveryPendingAndReserveChange(TxFrom[t], TxChange[t], t, TxInputs[t])
      PROVE  \A x \in Addr : Later(addresses[x].State, addresses'[x].State)
  BY <1>0, <1>4, RecoveryFrame DEF Later
<1>5. ASSUME NEW a \in Addr, NEW mature \in BOOLEAN, NEW current \in SUBSET OutpointsOf(a),
             ObserveRecoverableOutpoints(a, current, mature)
      PROVE  \A x \in Addr : Later(addresses[x].State, addresses'[x].State)
  BY <1>0, <1>5, ObserveFrame DEF Later
<1>6. ASSUME NEW a \in Addr, MarkSpent(a) \/ Retire(a)
      PROVE  \A x \in Addr : Later(addresses[x].State, addresses'[x].State)
  BY <1>0, <1>6 DEF MarkSpent, Retire, putRecord, AddressRecord, Later
<1>7. ASSUME addresses' = addresses
      PROVE  \A x \in Addr : Later(addresses[x].State, addresses'[x].State)
  BY <1>7 DEF Later
<1> QED BY <1>1, <1>2, <1>3, <1>4, <1>5, <1>6, <1>7
        DEF Next, vars, MarkFunded, MarkFundedAndRecordIncoming, PutTransaction, DeletePendingBroadcast

\* Signing a recovery finds its source SPENT, and nothing takes that back.
LEMMA RecoveredStep ==
  ASSUME TypeOK, IndexIsMonotonic, RecoveredIsSpent, [Next]_vars PROVE RecoveredIsSpent'
<1> SUFFICES ASSUME NEW t \in TxID, Signed(t, "recovery")'
             PROVE  addresses'[TxFrom[t]].State \in {"SPENT", "RETIRED"}
  BY DEF RecoveredIsSpent
<1>1. TxFrom[t] \in Addr
  BY TxAssumption
<1>2. CASE Signed(t, "recovery")
  BY <1>1, <1>2, StatesMove DEF RecoveredIsSpent, Later
<1>3. CASE ~Signed(t, "recovery")
  <2>1. signed' # signed
    BY <1>3 DEF Signed
  <2>2. ASSUME NEW u \in TxID, MarkSpendPendingAndReserveChange(TxFrom[u], TxChange[u], u)
        PROVE  FALSE
    <3>1. [TxID |-> t, Kind |-> "recovery"] = [TxID |-> u, Kind |-> "spend"]
      BY <1>3, <2>2 DEF MarkSpendPendingAndReserveChange, Signed
    <3>2. [TxID |-> t, Kind |-> "recovery"].Kind = [TxID |-> u, Kind |-> "spend"].Kind
      BY <3>1
    <3> QED BY <3>2
  <2>3. ASSUME NEW u \in TxID,
               MarkRecoveryPendingAndReserveChange(TxFrom[u], TxChange[u], u, TxInputs[u])
        PROVE  addresses[TxFrom[t]].State = "SPENT"
    <3>1. [TxID |-> t, Kind |-> "recovery"] = [TxID |-> u, Kind |-> "recovery"]
      BY <1>3, <2>3 DEF MarkRecoveryPendingAndReserveChange, Signed
    <3>2. [TxID |-> t, Kind |-> "recovery"].TxID = [TxID |-> u, Kind |-> "recovery"].TxID
      BY <3>1
    <3> QED BY <2>3, <3>2 DEF MarkRecoveryPendingAndReserveChange
  <2>4. addresses[TxFrom[t]].State = "SPENT"
    BY <2>1, <2>2, <2>3 DEF Next, vars, GenerateAddress, MarkFunded, MarkFundedAndRecordIncoming,
         ObserveRecoverableOutpoints, MarkSpent, Retire, PutTransaction, DeletePendingBroadcast
  <2> QED BY <1>1, <2>4, StatesMove DEF Later
<1> QED BY <1>2, <1>3

\* Only a credit makes an address FUNDED or adds an incoming record, and only
\* the answer to a broadcast adds an outgoing one.
LEMMA CreditMoves ==
  ASSUME IndexInv, [NodeNext]_worldVars
  PROVE  \/ \E a \in Addr : ObserveFundingWithHistory(a)
         \/ /\ \A x \in Addr : addresses'[x].State = "FUNDED" => addresses[x].State = "FUNDED"
            /\ \/ transactions' = transactions
               \/ \E at \in Stamp : RecordOutgoing(at)
<1> DEFINE NoneFunded == \A x \in Addr : addresses'[x].State = "FUNDED" => addresses[x].State = "FUNDED"
<1>0. /\ addresses \in [Addr -> AddressRecord] /\ IndexIsMonotonic /\ TypeOK
      /\ task.pc \in {"reconcile", "sign"} => task.tx \in TxID
      /\ \A t \in TxID : TxFrom[t] \in Addr
  BY TxAssumption DEF IndexInv, TypeOK, IInv, ChangeInv, NodeInv, TxInHand
<1>1. CASE GenerateAddress
  <2>1. next_index \in Addr
    BY <1>1, MaxIndexAssumption DEF TypeOK, IndexInv, GenerateAddress, Addr
  <2> QED BY <1>0, <1>1, <2>1 DEF GenerateAddress, putRecord, FreshRecord, BlankRecord
<1>2. ASSUME NEW a \in Addr, MarkSpent(a) \/ Retire(a) PROVE NoneFunded /\ transactions' = transactions
  BY <1>0, <1>2 DEF MarkSpent, Retire, putRecord, AddressRecord
<1>3. ASSUME NEW a \in Addr, NEW current \in SUBSET OutpointsOf(a), NEW mature \in BOOLEAN,
             ObserveRecoverableOutpoints(a, current, mature)
      PROVE  NoneFunded /\ transactions' = transactions
  BY <1>0, <1>3, ObserveFrame DEF ObserveRecoverableOutpoints
<1>4. CASE SignAndStore
  <2>1. task.tx \in TxID
    BY <1>0, <1>4 DEF SignAndStore, At
  <2>2. CASE MarkSpendPendingAndReserveChange(TxFrom[task.tx], TxChange[task.tx], task.tx)
    BY <1>0, <2>1, <2>2, SpendFrame DEF MarkSpendPendingAndReserveChange
  <2>3. CASE MarkRecoveryPendingAndReserveChange(TxFrom[task.tx], TxChange[task.tx], task.tx, TxInputs[task.tx])
    BY <1>0, <2>1, <2>3, RecoveryFrame DEF MarkRecoveryPendingAndReserveChange
  <2> QED BY <1>4, <2>2, <2>3 DEF SignAndStore
<1>5. CASE ReconcileSpend
  BY <1>0, <1>2, <1>5 DEF ReconcileSpend, At, vars
<1>6. CASE ReconcileRecovery
  <2> DEFINE b == TxFrom[task.tx]
  <2>1. b \in Addr
    BY <1>0, <1>6 DEF ReconcileRecovery, At
  <2>3. Unspent \cap OutpointsOf(b) \in SUBSET OutpointsOf(b) /\ Mature(b) \in BOOLEAN
    BY DEF Mature
  <2>4. \/ ObserveRecoverableOutpoints(b, Unspent \cap OutpointsOf(b), Mature(b))
        \/ UNCHANGED vars
    BY <1>6 DEF ReconcileRecovery
  <2>5. CASE UNCHANGED vars
    BY <2>5 DEF vars
  <2> HIDE DEF b
  <2> QED BY <1>3, <2>1, <2>3, <2>4, <2>5
<1>7. ASSUME NEW a \in Addr, ObserveRecoverableBalance(a) PROVE NoneFunded /\ transactions' = transactions
  <2>1. ObserveRecoverableOutpoints(a, task.seen \cap OutpointsOf(a), a \in task.mature)
    BY <1>7 DEF ObserveRecoverableBalance
  <2>2. task.seen \cap OutpointsOf(a) \in SUBSET OutpointsOf(a) /\ (a \in task.mature) \in BOOLEAN
    OBVIOUS
  <2> QED BY <1>3, <2>1, <2>2
<1>8. ASSUME NEW at \in Stamp, RecordOutgoing(at) PROVE NoneFunded
  BY <1>8 DEF RecordOutgoing, PutTransaction, vars
<1>9. ASSUME NEW a \in Addr, ObserveSpendConfirmation(a) \/ DemoConfirmation(a) \/ DemoPurge(a)
      PROVE  NoneFunded /\ transactions' = transactions
  BY <1>2, <1>9 DEF ObserveSpendConfirmation, DemoConfirmation, DemoPurge
<1>10. CASE UNCHANGED <<addresses, transactions, signed, demos>>
  BY <1>10
<1> HIDE DEF NoneFunded
<1> QED BY <1>1, <1>4, <1>5, <1>6, <1>7, <1>8, <1>9, <1>10, DataMoves DEF NoneFunded

\* A credit is of deep outputs, and its records are of their transactions.
LEMMA CreditDeepStep ==
  ASSUME IndexInv, BackedInv, [NodeNext]_worldVars PROVE CreditDeep' /\ OutgoingIsSent'
<1>0. /\ CreditDeep /\ SeenDeep /\ OutgoingIsSent
      /\ addresses \in [Addr -> AddressRecord]
      /\ \A d \in ChainTx : Deep(d) => Deep(d)'
      /\ \A o \in Outpoint : Creator[o] \in ChainTx
      /\ task.pc = "record" => task.tx \in sent
      /\ sent \subseteq sent'
  BY DeepStays, NodeAssumption, NodeMoves
     DEF IndexInv, TypeOK, NodeInv, SentBeforeCleared, BackedInv, Mine, Reorg
<1>1. ASSUME NEW x \in Addr, \E o \in OutpointsOf(x) : Deep(Creator[o])
      PROVE  \E o \in OutpointsOf(x) : Deep(Creator[o])'
  BY <1>0, <1>1 DEF OutpointsOf
<1>2. ASSUME NEW a \in Addr, ObserveFundingWithHistory(a)
      PROVE  CreditDeep' /\ OutgoingIsSent'
  <2> DEFINE paid == task.seen \cap OutpointsOf(a)
             sats == [d \in {Creator[o] : o \in paid} |-> Sats({o \in paid : Creator[o] = d})]
             recs == IncomingFor(a, sats)
  <2>1. /\ \A o \in paid : o \in Outpoint /\ Deep(Creator[o])
        /\ paid # {}
    BY <1>0, <1>2 DEF ObserveFundingWithHistory, At, SeenDeep, OutpointsOf
  <2>2. \A x \in Addr : addresses'[x].State = "FUNDED" => x = a \/ addresses[x].State = "FUNDED"
    BY <1>0, <1>2 DEF ObserveFundingWithHistory, MarkFundedAndRecordIncoming, putRecord
  <2>3. \A r \in recs : r.Direction = "incoming" /\ r.TxID \in {Creator[o] : o \in paid}
    <3>1. \A d \in DOMAIN sats :
             LET r == [Direction |-> "incoming", TxID |-> d, Destination |-> a, AmountSats |-> sats[d]]
             IN  r.Direction = "incoming" /\ r.TxID = d
      OBVIOUS
    <3>2. DOMAIN sats = {Creator[o] : o \in paid}
      OBVIOUS
    <3> HIDE DEF sats, paid
    <3> QED BY <3>1, <3>2 DEF IncomingFor
  <2>4. \A r \in transactions' : r \in transactions \/ r \in recs
    BY <1>2 DEF ObserveFundingWithHistory, MarkFundedAndRecordIncoming, putHistoryRecords
  <2>5. \E o \in OutpointsOf(a) : Deep(Creator[o])
    BY <2>1
  <2>6. \A r \in recs : r.TxID \in ChainTx /\ Deep(r.TxID)'
    BY <1>0, <2>1, <2>3
  <2> HIDE DEF recs, sats, paid
  <2>7. \A x \in InState("FUNDED")' : \E o \in OutpointsOf(x) : Deep(Creator[o])'
    BY <1>0, <1>1, <2>2, <2>5 DEF CreditDeep, InState
  <2>8. \A r \in transactions' : r.Direction = "incoming" => r.TxID \in ChainTx /\ Deep(r.TxID)'
    BY <1>0, <2>4, <2>6 DEF CreditDeep
  <2>9. \A r \in transactions' : r.Direction = "outgoing" => r.TxID \in sent'
    BY <1>0, <2>3, <2>4 DEF OutgoingIsSent
  <2> QED BY <2>7, <2>8, <2>9 DEF CreditDeep, OutgoingIsSent
<1>3. ASSUME /\ \A x \in Addr : addresses'[x].State = "FUNDED" => addresses[x].State = "FUNDED"
             /\ \/ transactions' = transactions
                \/ \E at \in Stamp : RecordOutgoing(at)
      PROVE  CreditDeep' /\ OutgoingIsSent'
  <2>1. \A x \in InState("FUNDED")' : \E o \in OutpointsOf(x) : Deep(Creator[o])'
    BY <1>0, <1>1, <1>3 DEF CreditDeep, InState
  <2>2. \A r \in transactions' : \/ r \in transactions
                                 \/ r.Direction = "outgoing" /\ r.TxID = task.tx /\ task.pc = "record"
    <3>1. CASE transactions' = transactions
      BY <3>1
    <3>2. ASSUME NEW at \in Stamp, RecordOutgoing(at)
          PROVE  \A r \in transactions' :
                   \/ r \in transactions
                   \/ r.Direction = "outgoing" /\ r.TxID = task.tx /\ task.pc = "record"
      <4> DEFINE rec == [Direction |-> "outgoing", TxID |-> task.tx, RecordedAt |-> at]
      <4>1. rec.Direction = "outgoing" /\ rec.TxID = task.tx
        OBVIOUS
      <4> HIDE DEF rec
      <4>2. task.pc = "record" /\ (PutTransaction(rec) \/ UNCHANGED vars)
        BY <3>2 DEF RecordOutgoing, At, rec
      <4> QED BY <4>1, <4>2 DEF PutTransaction, putHistoryRecords, vars
    <3> QED BY <1>3, <3>1, <3>2
  <2> QED BY <1>0, <2>1, <2>2 DEF CreditDeep, OutgoingIsSent
<1> QED BY <1>2, <1>3, CreditMoves

\* The source of a signed transaction waits or is spent, and waits only for
\* the spend it names.
LEMMA SignedSource ==
  ASSUME IndexInv, RecoveredIsSpent, NEW t \in SignedTxIDs
  PROVE  /\ t \in TxID /\ TxFrom[t] \in Addr
         /\ addresses[TxFrom[t]].State \in {"SPEND_PENDING", "SPENT", "RETIRED"}
         /\ addresses[TxFrom[t]].State = "SPEND_PENDING" => addresses[TxFrom[t]].SpendTxID = t
<1>1. PICK s \in signed : s.TxID = t
  BY DEF SignedTxIDs
<1>2. s \in SignedTx
  BY DEF IndexInv, TypeOK
<1>3. t \in TxID /\ TxFrom[t] \in Addr /\ t # NoTx
  BY <1>1, <1>2, TxAssumption DEF SignedTx
<1>4. Signed(t, "spend") \/ Signed(t, "recovery")
  BY <1>1, <1>2 DEF SignedTx, Kind, Signed
<1>5. CASE Signed(t, "spend")
  BY <1>3, <1>5 DEF IndexInv, IInv, SpendInv, SpendRecorded
<1>6. CASE Signed(t, "recovery")
  BY <1>3, <1>6 DEF RecoveredIsSpent
<1> QED BY <1>3, <1>4, <1>5, <1>6

\* A credited address keeps an output that no transaction in a block spends: an
\* address whose key has signed is not FUNDED.
LEMMA FundedUnspent ==
  ASSUME IndexInv, RecoveredIsSpent, NEW a \in InState("FUNDED"), NEW o \in OutpointsOf(a),
         depth[Creator[o]] > 0
  PROVE  o \in Unspent
<1>1. a \in Addr /\ addresses[a].State = "FUNDED" /\ o \in Outpoint /\ Owner[o] = a
  BY DEF InState, OutpointsOf
<1>2. ASSUME NEW t \in TxID, depth[t] > 0, o \in TxInputs[t] PROVE FALSE
  <2>1. t \in SignedTxIDs /\ TxFrom[t] = a
    BY <1>1, <1>2, TxAssumption DEF IndexInv, NodeInv, SentBeforeCleared, SignedInHand, OutpointsOf
  <2> QED BY <1>1, <2>1, SignedSource
<1> QED BY <1>1, <1>2 DEF Unspent

\* What was written down of the chain is inductive.
LEMMA BackedStep ==
  IndexInv /\ RecoveredIsSpent /\ BackedInv /\ [NodeNext]_worldVars => RecoveredIsSpent' /\ BackedInv'
<1> SUFFICES ASSUME IndexInv, RecoveredIsSpent, BackedInv, [NodeNext]_worldVars
             PROVE  RecoveredIsSpent' /\ BackedInv'
  OBVIOUS
<1>1. RecoveredIsSpent'
  BY IndexCall, RecoveredStep DEF IndexInv, IInv, ChangeInv
<1> QED BY <1>1, BoundsStep, SeenDeepStep, CreditDeepStep DEF BackedInv

\* If fewer blocks are disconnected than a credit asks for, an address that is
\* offered for spending holds money that no block has spent, and the history
\* lists no payment that a node has not accepted and no deposit that is not on
\* the chain, whatever was read of the node and has changed since.
THEOREM ChainIsTrue ==
  ASSUME MaxReorgs < FundingMinConfirmations
  PROVE  NodeSpec => [](FundedIsBacked /\ HistoryIsTrue)
<1>1. NodeInit => RecoveredIsSpent /\ BackedInv
  <2> SUFFICES ASSUME NodeInit PROVE RecoveredIsSpent /\ BackedInv
    OBVIOUS
  <2>1. NodeBounds
    BY NodeAssumption DEF NodeInit, NodeBounds
  <2>2. task.pc = "idle" /\ transactions = {} /\ signed = {} /\ InState("FUNDED") = {}
    BY DEF NodeInit, Init, Idle, InState, BlankRecord
  <2> QED BY <2>1, <2>2 DEF BackedInv, SeenDeep, CreditDeep, OutgoingIsSent, RecoveredIsSpent, Signed
<1>2. IndexInv /\ RecoveredIsSpent /\ BackedInv => FundedIsBacked /\ HistoryIsTrue
  <2> SUFFICES ASSUME IndexInv, RecoveredIsSpent, BackedInv PROVE FundedIsBacked /\ HistoryIsTrue
    OBVIOUS
  <2>1. \A d \in ChainTx : Deep(d) => depth[d] > 0
    <3>1. /\ reorgs \in 0 .. MaxReorgs /\ depth \in [ChainTx -> 0 .. MaxDepth]
          /\ MaxReorgs \in Nat /\ MaxDepth \in Nat /\ FundingMinConfirmations \in Nat
      BY NodeAssumption DEF BackedInv, NodeBounds
    <3> QED BY <3>1 DEF Deep
  <2>2. ASSUME NEW a \in InState("FUNDED") PROVE Unspent \cap OutpointsOf(a) # {}
    <3>1. PICK o \in OutpointsOf(a) : Deep(Creator[o])
      BY DEF BackedInv, CreditDeep
    <3>2. Creator[o] \in ChainTx
      BY NodeAssumption DEF OutpointsOf
    <3> QED BY <2>1, <3>1, <3>2, FundedUnspent
  <2>3. HistoryIsTrue
    <3>1. transactions \subseteq IncomingRecord \cup OutgoingRecord
      BY DEF IndexInv, TypeOK
    <3>2. \A r \in transactions : r.Direction \in {"incoming", "outgoing"}
      BY <3>1 DEF IncomingRecord, OutgoingRecord
    <3> QED BY <2>1, <3>2 DEF HistoryIsTrue, BackedInv, CreditDeep, OutgoingIsSent
  <2> QED BY <2>2, <2>3 DEF FundedIsBacked
<1> QED BY <1>1, <1>2, BackedStep, IndexInvInit, IndexInvStep, PTL DEF NodeSpec

-----------------------------------------------------------------------------
(* Signatures do not conflict while the chain only grows *)

\* No block was disconnected, and the command line was not believed.
Calm == reorgs = 0 /\ demos = 0

Mined(t) == depth[t] > 0

OnChain(S) == \A o \in S : depth[Creator[o]] > 0

\* What recovery offers or has locked was created in a block.
OffersOnChain ==
  \A a \in Addr : OnChain(addresses[a].RecoverableOutpoints \cup addresses[a].RecoveryPendingOutpoints)

\* A signed transaction is in a block, or its source still waits for it.
MinedOrWaiting ==
  \A t \in SignedTxIDs :
     \/ Mined(t)
     \/ addresses[TxFrom[t]].State = "SPEND_PENDING"
     \/ addresses[TxFrom[t]].RecoverySpendTxID = t

\* Recovery offers no output that a signed transaction spends.
OffersUnsigned ==
  \A t \in SignedTxIDs : addresses[TxFrom[t]].RecoverableOutpoints \cap TxInputs[t] = {}

NoConflict == \A t \in SignedTxIDs : ~Conflicts(t, SignedTxIDs)

OffersInv == OffersOnChain /\ MinedOrWaiting /\ OffersUnsigned /\ NoConflict

\* A scan that showed S of a spent address tells of each transaction its key
\* has signed whether it was mined: only the waiting recovery can be missing.
Shown(a, S) ==
  /\ addresses[a].State = "SPENT"
  /\ OnChain(S)
  /\ \A t \in SignedTxIDs : TxFrom[t] = a =>
       IF S \cap TxInputs[t] = {} THEN Mined(t) ELSE addresses[a].RecoverySpendTxID = t

\* That stays so until the handler has used the scan.
ScanHolds == task.pc = "recover" => \A a \in task.addrs : Shown(a, task.seen \cap OutpointsOf(a))

ReconcileMined == task.pc = "reconcile" => Mined(task.tx)

CalmInv == OffersInv /\ ScanHolds /\ ReconcileMined

\* A scan shows what it must: an input that is gone was spent by the one signed
\* transaction that can spend it.
LEMMA ScanShows ==
  ASSUME IndexInv, RecoveredIsSpent, OffersInv, NEW a \in Addr, addresses[a].State = "SPENT"
  PROVE  Shown(a, Unspent \cap OutpointsOf(a))
<1> DEFINE S == Unspent \cap OutpointsOf(a)
<1>1. OnChain(S)
  BY DEF OnChain, Unspent
<1>2. ASSUME NEW t \in SignedTxIDs, TxFrom[t] = a
      PROVE  IF S \cap TxInputs[t] = {} THEN Mined(t) ELSE addresses[a].RecoverySpendTxID = t
  <2>0. t \in TxID /\ (Mined(t) \/ addresses[a].RecoverySpendTxID = t)
    BY <1>2, SignedSource DEF OffersInv, MinedOrWaiting
  <2>1. ASSUME S \cap TxInputs[t] # {} PROVE ~Mined(t)
    BY <2>0, <2>1 DEF Unspent, Mined
  <2>2. ASSUME S \cap TxInputs[t] = {}, addresses[a].RecoverySpendTxID = t PROVE Mined(t)
    <3>1. addresses[a].RecoveryPendingOutpoints = TxInputs[t]
      BY <2>0, <2>2, TxAssumption DEF IndexInv, IInv, RecoveryInv, RecoveryLockMatches
    <3>2. PICK o \in TxInputs[t] : o \in OutpointsOf(a)
      BY <1>2, <2>0, TxAssumption
    <3>3. depth[Creator[o]] > 0 /\ o \notin Unspent /\ o \in Outpoint
      BY <2>2, <3>1, <3>2 DEF OffersInv, OffersOnChain, OnChain, OutpointsOf
    <3>4. PICK u \in TxID : depth[u] > 0 /\ o \in TxInputs[u]
      BY <3>3 DEF Unspent
    <3>5. u \in SignedTxIDs
      BY <3>4 DEF IndexInv, NodeInv, SentBeforeCleared, SignedInHand
    <3>6. u = t
      BY <3>2, <3>4, <3>5 DEF OffersInv, NoConflict, Conflicts
    <3> QED BY <3>4, <3>6 DEF Mined
  <2> QED BY <2>0, <2>1, <2>2
<1> QED BY <1>1, <1>2 DEF Shown

\* Using such a scan keeps the offers safe: the waiting recovery is given up
\* only when it is mined, and no output of a signed transaction is offered.
LEMMA ObserveKeeps ==
  ASSUME IndexInv, RecoveredIsSpent, OffersInv, depth' = depth,
         NEW a \in Addr, NEW S \in SUBSET OutpointsOf(a), NEW mature \in BOOLEAN, Shown(a, S),
         ObserveRecoverableOutpoints(a, S, mature)
  PROVE  OffersInv'
<1>0. /\ addresses \in [Addr -> AddressRecord] /\ SignedTxIDs' = SignedTxIDs
      /\ addresses[a].State = "SPENT"
      /\ RecoveryLockMatches
  BY DEF IndexInv, TypeOK, IInv, RecoveryInv, ObserveRecoverableOutpoints, SignedTxIDs
<1>1. /\ \A x \in Addr : addresses'[x].State = addresses[x].State
      /\ \A x \in Addr : x # a => addresses'[x] = addresses[x]
  BY <1>0, ObserveFrame
<1>2. addresses'[a].RecoverableOutpoints \in {{}, S}
  BY <1>0 DEF ObserveRecoverableOutpoints, putRecord, Reconciled, AddressRecord
<1>3. CASE LockHeld(addresses[a], S)
  <2>1. /\ addresses'[a].RecoverableOutpoints = {}
        /\ addresses'[a].RecoveryPendingOutpoints = addresses[a].RecoveryPendingOutpoints
        /\ addresses'[a].RecoverySpendTxID = addresses[a].RecoverySpendTxID
    BY <1>0, <1>3, ObserveFrame
  <2>2. OffersOnChain'
    BY <1>1, <2>1 DEF OffersInv, OffersOnChain, OnChain
  <2>3. MinedOrWaiting'
    BY <1>0, <1>1, <2>1, SignedSource DEF OffersInv, MinedOrWaiting, Mined
  <2>4. OffersUnsigned'
    BY <1>0, <1>1, <2>1, SignedSource DEF OffersInv, OffersUnsigned
  <2> QED BY <1>0, <2>2, <2>3, <2>4 DEF OffersInv, NoConflict, Conflicts
<1>4. CASE ~LockHeld(addresses[a], S)
  <2>1. addresses'[a].RecoveryPendingOutpoints = {} /\ addresses'[a].RecoverySpendTxID = NoTx
    BY <1>0, <1>4, ObserveFrame
  <2>2. ASSUME NEW t \in SignedTxIDs, TxFrom[t] = a PROVE Mined(t) /\ S \cap TxInputs[t] = {}
    <3>1. S \cap TxInputs[t] = {}
      <4>1. SUFFICES ASSUME addresses[a].RecoverySpendTxID = t PROVE S \cap TxInputs[t] = {}
        BY <2>2 DEF Shown
      <4>2. addresses[a].RecoveryPendingOutpoints = TxInputs[t]
        BY <1>0, <4>1, SignedSource, TxAssumption DEF RecoveryLockMatches
      <4> QED BY <1>4, <4>2 DEF LockHeld
    <3> QED BY <2>2, <3>1 DEF Shown
  <2>3. OffersOnChain'
    BY <1>1, <1>2, <2>1 DEF OffersInv, OffersOnChain, OnChain, Shown
  <2>4. MinedOrWaiting'
    BY <1>0, <1>1, <2>2, SignedSource DEF OffersInv, MinedOrWaiting, Mined
  <2>5. OffersUnsigned'
    BY <1>0, <1>1, <1>2, <2>2, SignedSource DEF OffersInv, OffersUnsigned
  <2> QED BY <1>0, <2>3, <2>4, <2>5 DEF OffersInv, NoConflict, Conflicts
<1> QED BY <1>3, <1>4

\* A step that signs nothing, leaves the recovery data alone, and lets a source
\* stop waiting only for a mined spend keeps the offers safe.
LEMMA OtherKeeps ==
  ASSUME IndexInv, RecoveredIsSpent, OffersInv, SignedTxIDs' = SignedTxIDs,
         \A d \in ChainTx : depth[d] > 0 => depth'[d] > 0,
         \A x \in Addr :
            /\ addresses'[x].RecoverableOutpoints = addresses[x].RecoverableOutpoints
            /\ addresses'[x].RecoveryPendingOutpoints = addresses[x].RecoveryPendingOutpoints
            /\ addresses'[x].RecoverySpendTxID = addresses[x].RecoverySpendTxID
            /\ addresses[x].State = "SPEND_PENDING" =>
                 \/ addresses'[x].State = "SPEND_PENDING"
                 \/ depth[addresses[x].SpendTxID] > 0
  PROVE  OffersInv'
<1>1. \A x \in Addr : addresses[x].RecoverableOutpoints \cup addresses[x].RecoveryPendingOutpoints
                        \subseteq Outpoint
  BY DEF IndexInv, TypeOK, AddressRecord
<1>2. OffersOnChain'
  BY <1>1, NodeAssumption DEF OffersInv, OffersOnChain, OnChain
<1>3. MinedOrWaiting'
  BY SignedSource DEF OffersInv, MinedOrWaiting, Mined, ChainTx
<1>4. OffersUnsigned'
  BY SignedSource DEF OffersInv, OffersUnsigned
<1> QED BY <1>2, <1>3, <1>4 DEF OffersInv, NoConflict, Conflicts

\* Transactions of different sources share no input.
LEMMA InputsAreOwned ==
  ASSUME NEW t \in TxID, NEW u \in TxID, TxInputs[t] \cap TxInputs[u] # {}
  PROVE  TxFrom[t] = TxFrom[u]
BY TxAssumption DEF OutpointsOf

\* The first transaction of a key conflicts with none.
LEMMA SpendKeeps ==
  ASSUME IndexInv, RecoveredIsSpent, OffersInv, depth' = depth, NEW t \in TxID,
         MarkSpendPendingAndReserveChange(TxFrom[t], TxChange[t], t)
  PROVE  OffersInv'
<1>0. /\ addresses \in [Addr -> AddressRecord]
      /\ addresses[TxFrom[t]].State = "FUNDED" /\ TxFrom[t] \in Addr
      /\ SignedTxIDs' = SignedTxIDs \cup {t}
  BY SignedGrows, TxAssumption DEF IndexInv, TypeOK, MarkSpendPendingAndReserveChange
<1>1. \A x \in Addr :
        /\ addresses'[x].State = IF x = TxFrom[t] THEN "SPEND_PENDING" ELSE addresses[x].State
        /\ addresses'[x].RecoverableOutpoints = addresses[x].RecoverableOutpoints
        /\ addresses'[x].RecoveryPendingOutpoints = addresses[x].RecoveryPendingOutpoints
        /\ addresses'[x].RecoverySpendTxID = addresses[x].RecoverySpendTxID
  BY <1>0, SpendFrame
<1>2. \A u \in SignedTxIDs : u \in TxID /\ TxFrom[u] \in Addr /\ TxFrom[u] # TxFrom[t]
  BY <1>0, SignedSource
<1>3. OffersOnChain'
  BY <1>1 DEF OffersInv, OffersOnChain, OnChain
<1>4. MinedOrWaiting'
  BY <1>0, <1>1, <1>2 DEF OffersInv, MinedOrWaiting, Mined
<1>5. OffersUnsigned'
  <2>1. addresses[TxFrom[t]].RecoverableOutpoints = {}
    BY <1>0 DEF IndexInv, IInv, RecoveryInv, RecoveryLockMatches
  <2> QED BY <1>0, <1>1, <1>2, <2>1 DEF OffersInv, OffersUnsigned
<1>6. NoConflict'
  BY <1>0, <1>2, InputsAreOwned DEF OffersInv, NoConflict, Conflicts
<1> QED BY <1>3, <1>4, <1>5, <1>6 DEF OffersInv

\* A recovery takes only outputs on offer, and those no signed one spends.
LEMMA RecoverKeeps ==
  ASSUME IndexInv, RecoveredIsSpent, OffersInv, depth' = depth, NEW t \in TxID,
         MarkRecoveryPendingAndReserveChange(TxFrom[t], TxChange[t], t, TxInputs[t])
  PROVE  OffersInv'
<1>0. /\ addresses \in [Addr -> AddressRecord] /\ TxFrom[t] \in Addr
      /\ addresses[TxFrom[t]].State = "SPENT"
      /\ addresses[TxFrom[t]].RecoveryPendingOutpoints = {}
      /\ TxInputs[t] \subseteq addresses[TxFrom[t]].RecoverableOutpoints
      /\ SignedTxIDs' = SignedTxIDs \cup {t}
  BY SignedGrows, TxAssumption DEF IndexInv, TypeOK, MarkRecoveryPendingAndReserveChange
<1>1. \A x \in Addr :
        /\ addresses'[x].State = addresses[x].State
        /\ x = TxFrom[t] =>
             /\ addresses'[x].RecoverableOutpoints = addresses[x].RecoverableOutpoints \ TxInputs[t]
             /\ addresses'[x].RecoveryPendingOutpoints = TxInputs[t]
             /\ addresses'[x].RecoverySpendTxID = t
        /\ x # TxFrom[t] =>
             /\ addresses'[x].RecoverableOutpoints = addresses[x].RecoverableOutpoints
             /\ addresses'[x].RecoveryPendingOutpoints = addresses[x].RecoveryPendingOutpoints
             /\ addresses'[x].RecoverySpendTxID = addresses[x].RecoverySpendTxID
  BY <1>0, RecoveryFrame
<1>2. \A u \in SignedTxIDs : u \in TxID /\ TxFrom[u] \in Addr
  BY SignedSource
<1>3. \A u \in SignedTxIDs : TxFrom[u] = TxFrom[t] => Mined(u)
  <2>1. addresses[TxFrom[t]].RecoverySpendTxID = NoTx
    BY <1>0 DEF IndexInv, IInv, RecoveryInv, RecoveryLockMatches
  <2> QED BY <1>0, <1>2, <2>1, TxAssumption DEF OffersInv, MinedOrWaiting
<1>4. OffersOnChain'
  BY <1>0, <1>1 DEF OffersInv, OffersOnChain, OnChain
<1>5. MinedOrWaiting'
  BY <1>0, <1>1, <1>2, <1>3 DEF OffersInv, MinedOrWaiting, Mined
<1>6. OffersUnsigned'
  BY <1>0, <1>1, <1>2 DEF OffersInv, OffersUnsigned
<1>7. NoConflict'
  <2>1. \A u \in SignedTxIDs : TxInputs[u] \cap TxInputs[t] = {}
    BY <1>0, <1>2, InputsAreOwned DEF OffersInv, OffersUnsigned
  <2> QED BY <1>0, <2>1 DEF OffersInv, NoConflict, Conflicts
<1> QED BY <1>4, <1>5, <1>6, <1>7 DEF OffersInv

\* It is calm after a step only if it was before, and then the step is neither
\* a reorganisation nor the command line's: what is mined stays mined.
LEMMA CalmMoves ==
  ASSUME NodeBounds, [NodeNext]_worldVars, Calm'
  PROVE  /\ Calm
         /\ \A d \in ChainTx : depth[d] > 0 => depth'[d] > 0
         /\ \A a \in Addr : ~DemoConfirmation(a) /\ ~DemoPurge(a)
<1>0. reorgs \in Nat /\ demos \in Nat /\ depth \in [ChainTx -> Nat]
  BY NodeAssumption DEF NodeBounds
<1>1. ~Reorg
  BY <1>0 DEF Reorg, Calm
<1>2. \A a \in Addr : ~DemoConfirmation(a) /\ ~DemoPurge(a)
  BY <1>0 DEF DemoConfirmation, DemoPurge, CommandLine, Calm
<1>3. ASSUME NEW T \in SUBSET ChainTx, Mine(T)
      PROVE  reorgs' = reorgs /\ \A d \in ChainTx : depth[d] > 0 => depth'[d] > 0
  BY <1>0, <1>3 DEF Mine
<1>4. reorgs' = reorgs /\ \A d \in ChainTx : depth[d] > 0 => depth'[d] > 0
  BY <1>1, <1>3, NodeMoves
<1>5. demos' = demos
  BY <1>2, DataMoves DEF ObserveFundingWithHistory, ObserveRecoverableBalance,
     ObserveSpendConfirmation, ReconcileSpend, ReconcileRecovery, SignAndStore, RecordOutgoing
<1> QED BY <1>2, <1>4, <1>5 DEF Calm

\* Every step of a calm run keeps the offers safe.
LEMMA OffersStep ==
  ASSUME IndexInv, NodeBounds, RecoveredIsSpent, CalmInv, [NodeNext]_worldVars, Calm'
  PROVE  OffersInv'
<1>0. /\ addresses \in [Addr -> AddressRecord]
      /\ OffersInv
      /\ \A d \in ChainTx : depth[d] > 0 => depth'[d] > 0
      /\ \A a \in Addr : ~DemoConfirmation(a) /\ ~DemoPurge(a)
      /\ task.pc \in {"reconcile", "sign"} => task.tx \in TxID /\ TxFrom[task.tx] \in Addr
  BY CalmMoves, TxAssumption DEF IndexInv, TypeOK, CalmInv, NodeInv, TxInHand
<1>1. ASSUME UNCHANGED <<addresses, signed>> PROVE OffersInv'
  BY <1>0, <1>1, OtherKeeps DEF SignedTxIDs
<1>2. CASE GenerateAddress
  <2>1. next_index \in Addr /\ addresses[next_index].State = "NONE"
    BY <1>2, MaxIndexAssumption
       DEF IndexInv, TypeOK, IInv, ChangeInv, GenerateAddress, IndexIsMonotonic, Addr
  <2>2. /\ addresses[next_index].RecoverableOutpoints = {}
        /\ addresses[next_index].RecoveryPendingOutpoints = {}
        /\ addresses[next_index].RecoverySpendTxID = NoTx
    BY <2>1 DEF IndexInv, IInv, RecoveryInv, RecoveryLockMatches
  <2>3. addresses' = [addresses EXCEPT ![next_index] = FreshRecord] /\ SignedTxIDs' = SignedTxIDs
    BY <1>2 DEF GenerateAddress, putRecord, SignedTxIDs
  <2>4. /\ FreshRecord.RecoverableOutpoints = {} /\ FreshRecord.RecoveryPendingOutpoints = {}
        /\ FreshRecord.RecoverySpendTxID = NoTx
    BY DEF FreshRecord, BlankRecord
  <2> QED BY <1>0, <2>1, <2>2, <2>3, <2>4, OtherKeeps
<1>3. ASSUME NEW a \in Addr, ObserveFundingWithHistory(a) PROVE OffersInv'
  <2>1. /\ addresses[a].State = "FRESH" /\ SignedTxIDs' = SignedTxIDs
        /\ addresses' = [addresses EXCEPT ![a] = Funded(addresses[a])]
    BY <1>3 DEF ObserveFundingWithHistory, MarkFundedAndRecordIncoming, putRecord, SignedTxIDs
  <2>2. /\ Funded(addresses[a]).RecoverableOutpoints = addresses[a].RecoverableOutpoints
        /\ Funded(addresses[a]).RecoveryPendingOutpoints = addresses[a].RecoveryPendingOutpoints
        /\ Funded(addresses[a]).RecoverySpendTxID = addresses[a].RecoverySpendTxID
    BY <1>0 DEF Funded, AddressRecord
  <2> QED BY <1>0, <2>1, <2>2, OtherKeeps
<1>4. ASSUME NEW a \in Addr, MarkSpent(a), depth[addresses[a].SpendTxID] > 0 PROVE OffersInv'
  <2>1. SignedTxIDs' = SignedTxIDs /\ addresses' = [addresses EXCEPT ![a] = [addresses[a] EXCEPT !.State = "SPENT"]]
    BY <1>4 DEF MarkSpent, putRecord, SignedTxIDs
  <2>2. \A x \in Addr :
            /\ addresses'[x].RecoverableOutpoints = addresses[x].RecoverableOutpoints
            /\ addresses'[x].RecoveryPendingOutpoints = addresses[x].RecoveryPendingOutpoints
            /\ addresses'[x].RecoverySpendTxID = addresses[x].RecoverySpendTxID
            /\ x # a => addresses'[x].State = addresses[x].State
    BY <1>0, <2>1 DEF AddressRecord
  <2> QED BY <1>0, <1>4, <2>1, <2>2, OtherKeeps
<1>5. ASSUME NEW a \in Addr, ObserveRecoverableBalance(a) PROVE OffersInv'
  <2>1. /\ ObserveRecoverableOutpoints(a, task.seen \cap OutpointsOf(a), a \in task.mature)
        /\ Shown(a, task.seen \cap OutpointsOf(a)) /\ depth' = depth
    BY <1>5 DEF ObserveRecoverableBalance, At, CalmInv, ScanHolds, nodeVars
  <2>2. task.seen \cap OutpointsOf(a) \in SUBSET OutpointsOf(a) /\ (a \in task.mature) \in BOOLEAN
    OBVIOUS
  <2> QED BY <1>0, <2>1, <2>2, ObserveKeeps
<1>6. ASSUME NEW a \in Addr, ObserveSpendConfirmation(a) PROVE OffersInv'
  <2>1. MarkSpent(a) /\ depth[addresses[a].SpendTxID] >= 1
    BY <1>6 DEF ObserveSpendConfirmation, Confirmed
  <2>2. addresses[a].SpendTxID \in ChainTx
    BY <1>0, <2>1 DEF MarkSpent, IndexInv, IInv, SpendInv, SpendRecorded, AddressRecord, ChainTx
  <2>3. depth[addresses[a].SpendTxID] > 0
    BY <2>1, <2>2, NodeAssumption DEF NodeBounds
  <2> QED BY <1>4, <2>1, <2>3
<1>7. CASE ReconcileSpend
  <2>1. \/ MarkSpent(TxFrom[task.tx]) /\ addresses[TxFrom[task.tx]].SpendTxID = task.tx
        \/ UNCHANGED vars
    BY <1>7 DEF ReconcileSpend
  <2>2. task.pc = "reconcile" /\ depth[task.tx] > 0
    BY <1>7 DEF ReconcileSpend, At, CalmInv, ReconcileMined, Mined
  <2> QED BY <1>0, <1>1, <1>4, <2>1, <2>2 DEF vars
<1>8. CASE ReconcileRecovery
  <2> DEFINE b == TxFrom[task.tx]
  <2>1. b \in Addr /\ depth' = depth
    BY <1>0, <1>8 DEF ReconcileRecovery, At, nodeVars
  <2>2. \/ ObserveRecoverableOutpoints(b, Unspent \cap OutpointsOf(b), Mature(b))
        \/ UNCHANGED vars
    BY <1>8 DEF ReconcileRecovery
  <2>3. Unspent \cap OutpointsOf(b) \in SUBSET OutpointsOf(b) /\ Mature(b) \in BOOLEAN
    BY DEF Mature
  <2>4. CASE UNCHANGED vars
    BY <1>1, <2>4 DEF vars
  <2>5. CASE ObserveRecoverableOutpoints(b, Unspent \cap OutpointsOf(b), Mature(b))
    <3>1. addresses[b].State = "SPENT"
      BY <2>5 DEF ObserveRecoverableOutpoints
    <3> HIDE DEF b
    <3>2. Shown(b, Unspent \cap OutpointsOf(b))
      BY <1>0, <2>1, <3>1, ScanShows
    <3> QED BY <1>0, <2>1, <2>3, <2>5, <3>2, ObserveKeeps
  <2> QED BY <2>2, <2>4, <2>5
<1>9. CASE SignAndStore
  <2>1. task.tx \in TxID /\ depth' = depth
    BY <1>0, <1>9 DEF SignAndStore, At, nodeVars
  <2>2. \/ MarkSpendPendingAndReserveChange(TxFrom[task.tx], TxChange[task.tx], task.tx)
        \/ MarkRecoveryPendingAndReserveChange(TxFrom[task.tx], TxChange[task.tx], task.tx, TxInputs[task.tx])
    BY <1>9 DEF SignAndStore
  <2> QED BY <1>0, <2>1, <2>2, SpendKeeps, RecoverKeeps
<1>10. ASSUME NEW at \in Stamp, RecordOutgoing(at) PROVE UNCHANGED <<addresses, signed>>
  BY <1>10 DEF RecordOutgoing, PutTransaction, vars
<1>11. CASE UNCHANGED <<addresses, transactions, signed, demos>>
  BY <1>1, <1>11
<1> QED BY <1>0, <1>1, <1>2, <1>3, <1>5, <1>6, <1>7, <1>8, <1>9, <1>10, <1>11, DataMoves

\* What the scan of the spent addresses showed holds until it is used.
LEMMA ScanHoldsStep ==
  ASSUME IndexInv, NodeBounds, RecoveredIsSpent, CalmInv, [NodeNext]_worldVars, Calm'
  PROVE  ScanHolds'
<1>0. /\ addresses \in [Addr -> AddressRecord] /\ task \in Task
      /\ ScanHolds /\ OffersInv
      /\ \A d \in ChainTx : depth[d] > 0 => depth'[d] > 0
      /\ \A a \in Addr : ~DemoConfirmation(a) /\ ~DemoPurge(a)
      /\ \A o \in Outpoint : Creator[o] \in ChainTx
  BY CalmMoves, NodeAssumption DEF IndexInv, TypeOK, CalmInv, NodeInv, NodeShape
<1>1. ASSUME NEW a \in Addr, NEW S \in SUBSET OutpointsOf(a), Shown(a, S), signed' = signed,
             addresses'[a] = addresses[a]
      PROVE  Shown(a, S)'
  <2>1. SignedTxIDs' = SignedTxIDs /\ SignedTxIDs \subseteq ChainTx
    BY <1>1, StoredIsSigned DEF SignedTxIDs, ChainTx
  <2>2. OnChain(S)'
    BY <1>0, <1>1 DEF Shown, OnChain, OutpointsOf
  <2> QED BY <1>0, <1>1, <2>1, <2>2 DEF Shown, Mined
<1>2. CASE HandKept /\ task'.pc = "recover"
  <2>1. /\ task.pc = "recover" /\ task'.seen = task.seen /\ task'.addrs \subseteq task.addrs
        /\ task.addrs \subseteq Addr
    BY <1>0, <1>2 DEF HandKept, Task
  <2>2. ASSUME NEW a \in task'.addrs PROVE signed' = signed /\ addresses'[a] = addresses[a]
    <3>1. a \in Addr /\ addresses[a].State = "SPENT"
      BY <1>0, <2>1 DEF ScanHolds, Shown
    <3>2. ASSUME GenerateAddress PROVE signed' = signed /\ addresses'[a] = addresses[a]
      <4>1. next_index \in Addr /\ addresses[next_index].State = "NONE"
        BY <3>2, MaxIndexAssumption
           DEF IndexInv, TypeOK, IInv, ChangeInv, GenerateAddress, IndexIsMonotonic, Addr
      <4> QED BY <1>0, <3>1, <3>2, <4>1 DEF GenerateAddress, putRecord
    <3>3. ASSUME NEW b \in Addr, ObserveRecoverableBalance(b)
          PROVE  signed' = signed /\ addresses'[a] = addresses[a]
      <4>1. task'.addrs = task.addrs \ {b}
        BY <1>0, <3>3 DEF ObserveRecoverableBalance, Task
      <4> QED BY <1>0, <2>2, <3>1, <3>3, <4>1
              DEF ObserveRecoverableBalance, ObserveRecoverableOutpoints, putRecord
    <3>4. /\ \A b \in Addr : ~ObserveFundingWithHistory(b) /\ ~ObserveSpendConfirmation(b)
          /\ ~ReconcileSpend /\ ~ReconcileRecovery /\ ~SignAndStore
          /\ \A at \in Stamp : ~RecordOutgoing(at)
      BY <2>1 DEF ObserveFundingWithHistory, ObserveSpendConfirmation, ReconcileSpend,
                  ReconcileRecovery, SignAndStore, RecordOutgoing, At
    <3> QED BY <1>0, <3>2, <3>3, <3>4, DataMoves
  <2>3. ASSUME NEW a \in task'.addrs PROVE Shown(a, task.seen \cap OutpointsOf(a))'
    <3>1. PICK S \in SUBSET OutpointsOf(a) : S = task.seen \cap OutpointsOf(a)
      OBVIOUS
    <3>2. a \in Addr /\ Shown(a, S)
      BY <1>0, <2>1, <3>1 DEF ScanHolds
    <3>3. Shown(a, S)'
      BY <1>1, <2>2, <3>2
    <3> QED BY <2>1, <3>1, <3>3 DEF Shown, OnChain
  <2> QED BY <2>3 DEF ScanHolds
<1>3. CASE ScanSpent
  <2>1. CASE task' = [Idle EXCEPT !.pc = "recover", !.addrs = InState("SPENT"),
                                  !.seen = SeenOn(InState("SPENT")),
                                  !.mature = InState("SPENT") \cap MatureAddrs]
    <3>1. task'.addrs = InState("SPENT") /\ task'.seen = SeenOn(InState("SPENT"))
      BY <2>1 DEF Idle
    <3>2. addresses' = addresses /\ signed' = signed
      BY <1>3 DEF ScanSpent, vars
    <3>3. ASSUME NEW a \in InState("SPENT") PROVE Shown(a, task.seen \cap OutpointsOf(a))'
      <4>1. PICK S \in SUBSET OutpointsOf(a) : S = Unspent \cap OutpointsOf(a)
        OBVIOUS
      <4>2. a \in Addr /\ Shown(a, S)
        BY <1>0, <4>1, ScanShows DEF InState
      <4>3. Shown(a, S)'
        BY <1>1, <3>2, <4>2
      <4>4. task'.seen \cap OutpointsOf(a) = S
        BY <3>1, <4>1 DEF SeenOn, OutpointsOf
      <4> QED BY <4>3, <4>4 DEF Shown, OnChain
    <3> QED BY <3>1, <3>3 DEF ScanHolds
  <2>2. CASE task' = ToConfirm
    BY <2>2 DEF ToConfirm, Idle, ScanHolds
  <2> QED BY <1>3, <2>1, <2>2 DEF ScanSpent
<1>4. CASE StartRefresh \/ (\E t \in TxID : RowConfirmed(t))
           \/ \E panel \in Panel, t \in TxID : Broadcast(panel, t)
  <2>1. task'.pc # "recover" \/ HandKept
    BY <1>0, <1>4 DEF StartRefresh, RowConfirmed, NextRow, Broadcast, At, Idle, Task, HandKept
  <2> QED BY <1>2, <2>1 DEF ScanHolds
<1>5. CASE task'.pc # "recover"
  BY <1>5 DEF ScanHolds
<1> QED BY <1>0, <1>2, <1>3, <1>4, <1>5, HandMoves

\* The transaction whose entry is being cleared was found in a block.
LEMMA ReconcileStep ==
  ASSUME IndexInv, NodeBounds, CalmInv, [NodeNext]_worldVars, Calm'
  PROVE  ReconcileMined'
<1>0. /\ task \in Task /\ ReconcileMined
      /\ \A d \in ChainTx : depth[d] > 0 => depth'[d] > 0
      /\ depth \in [ChainTx -> Nat]
      /\ task.pc = "reconcile" => task.tx \in ChainTx
  BY CalmMoves DEF IndexInv, CalmInv, NodeInv, NodeShape, TxInHand, ChainTx
<1>1. CASE HandKept
  BY <1>0, <1>1 DEF HandKept, ReconcileMined, Mined
<1>2. ASSUME NEW t \in TxID, RowConfirmed(t) PROVE ReconcileMined'
  <2>1. task'.tx = t /\ depth'[t] >= 1 /\ depth'[t] \in Nat
    BY <1>0, <1>2 DEF RowConfirmed, Confirmed, nodeVars, Task, ChainTx
  <2> QED BY <2>1 DEF ReconcileMined, Mined
<1>3. CASE StartRefresh \/ ScanSpent \/ \E panel \in Panel, t \in TxID : Broadcast(panel, t)
  <2>1. task'.pc # "reconcile" \/ HandKept
    BY <1>0, <1>3 DEF StartRefresh, ScanSpent, ToConfirm, Broadcast, At, Idle, Task, HandKept
  <2> QED BY <1>1, <2>1 DEF ReconcileMined
<1> QED BY <1>0, <1>1, <1>2, <1>3, HandMoves

\* Unless a block was disconnected or the command line believed, no two
\* transactions that the wallet has signed spend the same output, whatever the
\* handlers read before the chain moved on, and through every crash.
THEOREM SignaturesSafe == NodeSpec => []SignaturesNeverConflict
<1> DEFINE Inv == RecoveredIsSpent /\ NodeBounds /\ (Calm => CalmInv)
<1>1. NodeInit => Inv
  <2> SUFFICES ASSUME NodeInit PROVE Inv
    OBVIOUS
  <2>1. NodeBounds
    BY NodeAssumption DEF NodeInit, NodeBounds
  <2>2. task.pc = "idle" /\ signed = {} /\ SignedTxIDs = {} /\ \A a \in Addr : addresses[a] = BlankRecord
    BY DEF NodeInit, Init, Idle, SignedTxIDs
  <2>3. OffersInv
    BY <2>2 DEF OffersInv, OffersOnChain, OnChain, MinedOrWaiting, OffersUnsigned, NoConflict, BlankRecord
  <2> QED BY <2>1, <2>2, <2>3 DEF RecoveredIsSpent, Signed, CalmInv, ScanHolds, ReconcileMined
<1>2. IndexInv /\ Inv /\ [NodeNext]_worldVars => Inv'
  <2> SUFFICES ASSUME IndexInv, Inv, [NodeNext]_worldVars PROVE Inv'
    OBVIOUS
  <2>1. RecoveredIsSpent'
    BY IndexCall, RecoveredStep DEF IndexInv, IInv, ChangeInv
  <2>2. ASSUME Calm' PROVE CalmInv'
    BY <2>2, CalmMoves, OffersStep, ScanHoldsStep, ReconcileStep DEF CalmInv
  <2> QED BY <2>1, <2>2, BoundsStep
<1>3. Inv => SignaturesNeverConflict
  BY DEF SignaturesNeverConflict, Calm, CalmInv, OffersInv, NoConflict
<1> HIDE DEF Inv
<1> QED BY <1>1, <1>2, <1>3, IndexInvInit, IndexInvStep, PTL DEF NodeSpec
=============================================================================
