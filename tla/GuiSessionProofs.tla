-------------------------- MODULE GuiSessionProofs --------------------------
(* Theorems about the GUI's memory between its handlers, for any number of    *)
(* wallets, transactions, clients and lookups.                                *)
EXTENDS GuiSession, TLAPS

\* The values of a fresh window have their types.
LEMMA FreshValues ==
  /\ 0 \in 0 .. MaxClients /\ 0 \in 0 .. MaxSeq /\ 0 \in 0 .. 0
  /\ "wallet" \in Page
  /\ [p \in SigningPage |-> NoTx] \in [SigningPage -> TxID \cup {NoTx}]
  /\ [p \in Panel |-> {}] \in [Panel -> SUBSET TxID]
  /\ ForNobody \in [wallet : Wallet \cup {NoWallet}, client : 0 .. MaxClients]
  /\ [m \in Metric |-> 0] \in [Metric -> 0 .. MaxSeq]
  /\ [m \in Metric |-> Says("blank")] \in [Metric -> Text]
<1>1. 0 \in 0 .. MaxClients /\ 0 \in 0 .. MaxSeq /\ 0 \in 0 .. 0
  BY GuiAssumption
<1>2. "wallet" \in Page
  BY DEF Page
<1>3. [p \in SigningPage |-> NoTx] \in [SigningPage -> TxID \cup {NoTx}]
  OBVIOUS
<1>4. [p \in Panel |-> {}] \in [Panel -> SUBSET TxID]
  OBVIOUS
<1>5. ForNobody \in [wallet : Wallet \cup {NoWallet}, client : 0 .. MaxClients]
  BY <1>1 DEF ForNobody
<1>6. [m \in Metric |-> 0] \in [Metric -> 0 .. MaxSeq]
  BY <1>1
<1>7. Says("blank") \in Text
  BY <1>1 DEF Says, Text
<1>8. [m \in Metric |-> Says("blank")] \in [Metric -> Text]
  BY <1>7
<1> QED BY <1>1, <1>2, <1>3, <1>4, <1>5, <1>6, <1>8

\* What is rendered has the types of the list.
LEMMA RenderTypes ==
  ASSUME GuiTypeOK, NEW entries \in SUBSET TxID, RenderPending(entries)
  PROVE  /\ rows' \subseteq TxID
         /\ for' \in [wallet : Wallet \cup {NoWallet}, client : 0 .. MaxClients]
         /\ pending' \in [Wallet -> SUBSET TxID]
<1>1. wlt \in Wallet \cup {NoWallet} /\ rpc \in 0 .. MaxClients
  BY GuiAssumption DEF GuiTypeOK
<1>2. \A kept \in SUBSET TxID : Store(kept) => pending' \in [Wallet -> SUBSET TxID]
  BY DEF Store, GuiTypeOK
<1> QED BY <1>1, <1>2 DEF RenderPending

\* Rows are rendered for the open wallet, the client and stored entries, or not
\* at all.
LEMMA RenderRows ==
  ASSUME GuiTypeOK, NEW entries \in SUBSET Stored, RenderPending(entries)
  PROVE  /\ rows' # {} => wlt # NoWallet /\ rpc # 0 /\ rows' \subseteq pending'[wlt]
         /\ for' = [wallet |-> wlt, client |-> rpc]
<1>1. wlt = NoWallet => rows' = {}
  BY DEF RenderPending, Stored
<1>2. ASSUME wlt \in Wallet, NEW kept, Store(kept) PROVE pending'[wlt] = kept
  BY <1>2 DEF Store
<1> QED BY <1>1, <1>2 DEF RenderPending, GuiTypeOK

\* What is stored are transactions.
LEMMA StoredTypes == ASSUME GuiTypeOK PROVE Stored \in SUBSET TxID
BY DEF GuiTypeOK, Stored

\* The footer's reset keeps the types of its fields and says nothing.
LEMMA ResetTypes ==
  ASSUME GuiTypeOK, CanReset, ResetNetworkMetrics
  PROVE  /\ seq' \in [Metric -> 0 .. MaxSeq]
         /\ label' \in [Metric -> Text]
         /\ \A m \in Metric : label'[m].kind = "blank"
<1>1. \A m \in Metric : seq[m] + 1 \in 0 .. MaxSeq
  BY GuiAssumption DEF GuiTypeOK, CanReset
<1>2. Says("blank") \in Text
  BY GuiAssumption DEF Says, Text
<1> QED BY <1>1, <1>2 DEF ResetNetworkMetrics, Says

\* A client is made and used.
LEMMA NewClientTypes ==
  ASSUME GuiTypeOK, NewClient
  PROVE  clients' \in 0 .. MaxClients /\ rpc' \in 0 .. clients'
BY GuiAssumption DEF GuiTypeOK, NewClient

-----------------------------------------------------------------------------

\* The GUI's fields keep their types, and no wallet's database holds anything
\* but transactions.
LEMMA TypeStep == ASSUME GuiTypeOK, [GuiNext]_guiVars PROVE GuiTypeOK'
<1>0. /\ wlt \in Wallet \cup {NoWallet}
      /\ clients \in 0 .. MaxClients /\ rpc \in 0 .. clients /\ rpc \in 0 .. MaxClients
      /\ MaxClients \in Nat /\ MaxSeq \in Nat
      /\ \A x \in Wallet : pending[x] \subseteq TxID
  BY GuiAssumption DEF GuiTypeOK
<1>1. CASE Connect
  <2>1. clients' \in 0 .. MaxClients /\ rpc' \in 0 .. clients'
    BY <1>0, <1>1, NewClientTypes DEF Connect
  <2> QED BY <1>1, <2>1, ResetTypes DEF Connect, GuiTypeOK, ResetNetworkMetrics, pageVars, dbVars
<1>2. ASSUME NEW m \in Metric, PressMetric(m) PROVE GuiTypeOK'
  <2>1. CASE rpc = 0 /\ label' = [label EXCEPT ![m] = Says("not connected")]
             /\ UNCHANGED <<seq, lookups>>
    <3>1. Says("not connected") \in Text
      BY <1>0 DEF Says, Text
    <3> QED BY <1>2, <2>1, <3>1 DEF PressMetric, GuiTypeOK, pageVars, dbVars
  <2>2. CASE /\ rpc # 0 /\ seq[m] < MaxSeq
             /\ seq' = [seq EXCEPT ![m] = @ + 1]
             /\ lookups' = lookups \cup {[metric |-> m, client |-> rpc, seq |-> seq[m] + 1]}
             /\ label' = [label EXCEPT ![m] = Says("checking")]
    <3>1. Says("checking") \in Text
      BY <1>0 DEF Says, Text
    <3>2. seq[m] \in 0 .. MaxSeq
      BY DEF GuiTypeOK
    <3>3. seq[m] + 1 \in 1 .. MaxSeq
      BY <1>0, <2>2, <3>2
    <3>4. [metric |-> m, client |-> rpc, seq |-> seq[m] + 1] \in Lookup
      BY <1>0, <2>2, <3>3 DEF Lookup, Client
    <3>5. lookups' \subseteq Lookup
      BY <2>2, <3>4 DEF GuiTypeOK
    <3>6. seq[m] + 1 \in 0 .. MaxSeq
      BY <1>0, <3>3
    <3>7. seq' \in [Metric -> 0 .. MaxSeq] /\ label' \in [Metric -> Text]
      BY <2>2, <3>1, <3>6 DEF GuiTypeOK
    <3> QED BY <1>2, <3>5, <3>7 DEF PressMetric, GuiTypeOK, pageVars, dbVars
  <2> QED BY <1>2, <2>1, <2>2 DEF PressMetric
<1>3. ASSUME NEW k \in lookups, ShowMetric(k) PROVE GuiTypeOK'
  <2>1. k \in Lookup
    BY DEF GuiTypeOK
  <2>2. Answer(k.client, k.seq) \in Text
    BY <1>0, <2>1 DEF Answer, Text, Lookup, Client
  <2>3. label' \in [Metric -> Text]
    BY <1>3, <2>1, <2>2 DEF ShowMetric, GuiTypeOK, Lookup
  <2> QED BY <1>3, <2>3 DEF ShowMetric, GuiTypeOK, pageVars, dbVars
<1>4. ASSUME NEW p \in Page, SelectPage(p) PROVE GuiTypeOK'
  <2>1. CASE p = "pending"
    <3>2. /\ rows' \subseteq TxID
          /\ for' \in [wallet : Wallet \cup {NoWallet}, client : 0 .. MaxClients]
          /\ pending' \in [Wallet -> SUBSET TxID]
      BY <1>4, <2>1, StoredTypes, RenderTypes DEF SelectPage
    <3> QED BY <1>4, <2>1, <3>2 DEF SelectPage, GuiTypeOK, metricVars
  <2> QED BY <1>4, <2>1 DEF SelectPage, GuiTypeOK, metricVars
<1>5. CASE Refresh
  <2>1. /\ rows' \subseteq TxID
        /\ for' \in [wallet : Wallet \cup {NoWallet}, client : 0 .. MaxClients]
        /\ pending' \in [Wallet -> SUBSET TxID]
    BY <1>5, StoredTypes, RenderTypes DEF Refresh
  <2> QED BY <1>5, <2>1 DEF Refresh, GuiTypeOK, metricVars
<1>6. ASSUME NEW x \in Wallet \cup {NoWallet}, LoadWallet(x) PROVE GuiTypeOK'
  <2>1. CASE NewClient /\ CanReset /\ ResetNetworkMetrics
    BY <1>0, <1>6, <2>1, NewClientTypes, ResetTypes
       DEF LoadWallet, GuiTypeOK, ResetNetworkMetrics, dbVars
  <2>2. CASE UNCHANGED <<rpc, clients, metricVars>>
    BY <1>0, <1>6, <2>2 DEF LoadWallet, GuiTypeOK, metricVars, dbVars
  <2> QED BY <1>6, <2>1, <2>2 DEF LoadWallet, metricVars
<1>7. ASSUME NEW p \in SigningPage, Preview(p) PROVE GuiTypeOK'
  BY <1>0, <1>7, SMTT(30) DEF Preview, Forgotten, GuiTypeOK, metricVars, Panel
<1>8. ASSUME NEW p \in Panel, NEW t \in TxID, TestTransaction(p, t) PROVE GuiTypeOK'
  BY <1>0, <1>8 DEF TestTransaction, GuiTypeOK, dbVars, metricVars
<1>9. ASSUME NEW p \in Panel, NEW t \in TxID, PressBroadcast(p, t) PROVE GuiTypeOK'
  BY <1>0, <1>9 DEF PressBroadcast, GuiTypeOK, dbVars, metricVars
<1>10. CASE BroadcastFails
  BY <1>0, <1>10 DEF BroadcastFails, GuiTypeOK, dbVars, metricVars
<1>11. CASE BroadcastSucceeds
  <2>1. confirm.tx \in TxID /\ confirm.panel \in Panel /\ wlt \in Wallet
    BY <1>0, <1>11 DEF BroadcastSucceeds, Free, GuiTypeOK
  <2>2. Stored \ {confirm.tx} \in SUBSET TxID
    BY StoredTypes
  <2>3. /\ rows' \subseteq TxID
        /\ for' \in [wallet : Wallet \cup {NoWallet}, client : 0 .. MaxClients]
        /\ pending' \in [Wallet -> SUBSET TxID]
    BY <1>11, <2>2, RenderTypes DEF BroadcastSucceeds
  <2>4. /\ approved' \in [Panel -> SUBSET TxID] /\ confirm' = NoConfirm
        /\ outgoing' \in [Wallet -> SUBSET TxID] /\ sent' \subseteq TxID
    BY <1>0, <1>11, <2>1 DEF BroadcastSucceeds, GuiTypeOK
  <2> QED BY <1>11, <2>3, <2>4 DEF BroadcastSucceeds, GuiTypeOK, metricVars
<1>12. ASSUME CloseWindow PROVE FreshWindow'
  BY <1>12 DEF CloseWindow, FreshWindow
<1>13. CASE BroadcastPanics
  <2>1. sent' \subseteq TxID
    BY <1>13 DEF BroadcastPanics, Free, GuiTypeOK
  <2>2. FreshWindow' /\ pending' = pending /\ outgoing' = outgoing
    BY <1>12, <1>13 DEF BroadcastPanics
  <2> QED BY <2>1, <2>2, FreshValues DEF FreshWindow, GuiTypeOK
<1>14. CASE Restart
  <2>1. FreshWindow' /\ UNCHANGED dbVars
    BY <1>12, <1>14 DEF Restart
  <2> QED BY <2>1, FreshValues DEF FreshWindow, GuiTypeOK, dbVars
<1>15. CASE UNCHANGED guiVars
  BY <1>15 DEF guiVars, pageVars, dbVars, metricVars, GuiTypeOK
<1> QED BY <1>1, <1>2, <1>3, <1>4, <1>5, <1>6, <1>7, <1>8, <1>9, <1>10, <1>11, <1>13, <1>14, <1>15
        DEF GuiNext

\* The GUI's memory has its types in every window, whatever is opened, pressed
\* or answered.
THEOREM GuiTypeCorrect == GuiSpec => []GuiTypeOK
<1>1. ASSUME GuiInit PROVE GuiTypeOK
  <2>1. /\ pending \in [Wallet -> SUBSET TxID] /\ outgoing \in [Wallet -> SUBSET TxID]
        /\ sent \subseteq TxID
    BY <1>1 DEF GuiInit
  <2> QED BY <1>1, <2>1, FreshValues DEF GuiInit, FreshWindow, GuiTypeOK
<1> QED BY <1>1, TypeStep, PTL DEF GuiSpec
-----------------------------------------------------------------------------

\* No step leaves, on the page of pending broadcasts, a row that was rendered
\* for another wallet or client, or that is not stored any more.
LEMMA RowsStep ==
  ASSUME GuiTypeOK, RowsAreCurrent, [GuiNext]_guiVars PROVE RowsAreCurrent'
<1>0. \A p \in SigningPage : p # "pending"
  BY DEF SigningPage
<1>1. CASE Connect
  BY <1>1 DEF Connect, pageVars, RowsAreCurrent
<1>2. ASSUME NEW m \in Metric, PressMetric(m) PROVE RowsAreCurrent'
  BY <1>2 DEF PressMetric, pageVars, dbVars, RowsAreCurrent
<1>3. ASSUME NEW k \in lookups, ShowMetric(k) PROVE RowsAreCurrent'
  BY <1>3 DEF ShowMetric, pageVars, dbVars, RowsAreCurrent
<1>4. ASSUME NEW p \in Page, SelectPage(p) PROVE RowsAreCurrent'
  BY <1>4, RenderRows DEF SelectPage, RowsAreCurrent
<1>5. CASE Refresh
  BY <1>5, RenderRows DEF Refresh, RowsAreCurrent
<1>6. ASSUME NEW x \in Wallet \cup {NoWallet}, LoadWallet(x) PROVE RowsAreCurrent'
  BY <1>6 DEF LoadWallet, RowsAreCurrent
<1>7. ASSUME NEW p \in SigningPage, Preview(p) PROVE RowsAreCurrent'
  BY <1>0, <1>7 DEF Preview, RowsAreCurrent
<1>8. ASSUME NEW p \in Panel, NEW t \in TxID, TestTransaction(p, t) PROVE RowsAreCurrent'
  BY <1>8 DEF TestTransaction, dbVars, RowsAreCurrent
<1>9. ASSUME NEW p \in Panel, NEW t \in TxID, PressBroadcast(p, t) PROVE RowsAreCurrent'
  BY <1>9 DEF PressBroadcast, dbVars, RowsAreCurrent
<1>10. CASE BroadcastFails
  BY <1>10 DEF BroadcastFails, dbVars, RowsAreCurrent
<1>11. CASE BroadcastSucceeds
  <2>1. Stored \ {confirm.tx} \in SUBSET Stored
    OBVIOUS
  <2>2. RenderPending(Stored \ {confirm.tx}) /\ wlt' = wlt /\ rpc' = rpc
    BY <1>11 DEF BroadcastSucceeds
  <2> QED BY <2>1, <2>2, RenderRows DEF RowsAreCurrent
<1>12. CASE BroadcastPanics
  BY <1>12 DEF BroadcastPanics, CloseWindow, RowsAreCurrent
<1>13. CASE Restart
  BY <1>13 DEF Restart, CloseWindow, RowsAreCurrent
<1>14. CASE UNCHANGED guiVars
  BY <1>14 DEF guiVars, pageVars, dbVars, RowsAreCurrent
<1> QED BY <1>1, <1>2, <1>3, <1>4, <1>5, <1>6, <1>7, <1>8, <1>9, <1>10, <1>11, <1>12, <1>13, <1>14
        DEF GuiNext

\* A row that can be pressed belongs to the wallet that is open and was
\* rendered for it and for the client in use.
THEOREM RowsSafe == GuiSpec => []RowsAreCurrent
<1>1. GuiInit => RowsAreCurrent
  BY DEF GuiInit, FreshWindow, RowsAreCurrent
<1> QED BY <1>1, GuiTypeCorrect, RowsStep, PTL DEF GuiSpec

\* Answers of replaced clients and of superseded lookups are dropped, and a
\* lookup the footer waits for has not returned.
LEMMA MetricsStep ==
  ASSUME GuiTypeOK, MetricsAreCurrent, [GuiNext]_guiVars PROVE MetricsAreCurrent'
<1>0. seq \in [Metric -> 0 .. MaxSeq] /\ label \in [Metric -> Text]
  BY DEF GuiTypeOK
<1>1. ASSUME ResetNetworkMetrics, CanReset PROVE MetricsAreCurrent'
  BY <1>1, ResetTypes DEF MetricsAreCurrent
<1>2. ASSUME UNCHANGED <<rpc, metricVars>> PROVE MetricsAreCurrent'
  BY <1>2 DEF metricVars, MetricsAreCurrent
<1>3. ASSUME NEW m \in Metric, PressMetric(m) PROVE MetricsAreCurrent'
  <2>1. rpc' = rpc /\ \A n \in Metric \ {m} : label'[n] = label[n] /\ seq'[n] = seq[n]
    BY <1>0, <1>3 DEF PressMetric
  <2>2. lookups \subseteq lookups'
    BY <1>3 DEF PressMetric
  <2>3. CASE rpc = 0 /\ label' = [label EXCEPT ![m] = Says("not connected")]
    <3>1. label'[m].kind = "not connected"
      BY <1>0, <2>3 DEF Says
    <3> QED BY <2>1, <2>2, <3>1 DEF MetricsAreCurrent
  <2>4. CASE /\ seq' = [seq EXCEPT ![m] = @ + 1]
             /\ lookups' = lookups \cup {[metric |-> m, client |-> rpc, seq |-> seq[m] + 1]}
             /\ label' = [label EXCEPT ![m] = Says("checking")]
    <3>1. label'[m].kind = "checking"
      BY <1>0, <2>4 DEF Says
    <3>2. seq'[m] = seq[m] + 1
      BY <1>0, <2>4
    <3>3. [metric |-> m, client |-> rpc', seq |-> seq'[m]] \in lookups'
      BY <2>1, <2>4, <3>2
    <3> QED BY <2>1, <2>2, <3>1, <3>3 DEF MetricsAreCurrent
  <2> QED BY <1>3, <2>3, <2>4 DEF PressMetric
<1>4. ASSUME NEW k \in lookups, ShowMetric(k) PROVE MetricsAreCurrent'
  <2>1. k \in Lookup /\ k.metric \in Metric
    BY DEF GuiTypeOK, Lookup
  <2>2. rpc' = rpc /\ seq' = seq /\ lookups' = lookups \ {k}
    BY <1>4 DEF ShowMetric
  <2>3. ASSUME NEW m \in Metric, Current(k), m = k.metric
        PROVE  label'[m] = Answer(rpc, seq[m])
    BY <1>0, <1>4, <2>3 DEF ShowMetric, Current
  <2>4. ASSUME NEW m \in Metric, ~(Current(k) /\ m = k.metric)
        PROVE  /\ label'[m] = label[m]
               /\ k # [metric |-> m, client |-> rpc, seq |-> seq[m]]
    BY <1>0, <1>4, <2>4 DEF ShowMetric, Current
  <2> QED BY <2>2, <2>3, <2>4 DEF MetricsAreCurrent, Answer
<1>5. CASE Connect
  BY <1>1, <1>5 DEF Connect
<1>6. ASSUME NEW x \in Wallet \cup {NoWallet}, LoadWallet(x) PROVE MetricsAreCurrent'
  BY <1>1, <1>2, <1>6 DEF LoadWallet
<1>7. ASSUME CloseWindow PROVE MetricsAreCurrent'
  BY <1>7 DEF CloseWindow, Says, MetricsAreCurrent
<1>8. ASSUME NEW p \in Page, SelectPage(p) PROVE UNCHANGED <<rpc, metricVars>>
  BY <1>8 DEF SelectPage
<1>9. ASSUME \/ Refresh \/ BroadcastFails \/ BroadcastSucceeds
             \/ \E p \in SigningPage : Preview(p)
             \/ \E p \in Panel, t \in TxID : TestTransaction(p, t) \/ PressBroadcast(p, t)
      PROVE  UNCHANGED <<rpc, metricVars>>
  BY <1>9 DEF Refresh, BroadcastFails, BroadcastSucceeds, Preview, TestTransaction, PressBroadcast
<1> QED BY <1>2, <1>3, <1>4, <1>5, <1>6, <1>7, <1>8, <1>9 DEF GuiNext, BroadcastPanics, Restart, guiVars

\* The footer shows the last lookup's answer, of the client in use, or waits
\* for it.
THEOREM MetricsSafe == GuiSpec => []MetricsAreCurrent
<1>1. GuiInit => MetricsAreCurrent
  BY DEF GuiInit, FreshWindow, Says, MetricsAreCurrent
<1> QED BY <1>1, GuiTypeCorrect, MetricsStep, PTL DEF GuiSpec
=============================================================================
