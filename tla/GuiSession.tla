----------------------------- MODULE GuiSession -----------------------------
(***************************************************************************)
(* What the GUI of cmd/gui keeps between its handlers: the wallet that is  *)
(* open, the client of the node, the page that is shown, what the pages    *)
(* hold on to, and the lookups of the footer that run in goroutines.       *)
(*                                                                         *)
(* A handler runs on the UI thread to its end, and a dialog is modal: the  *)
(* only thing that happens meanwhile is that a goroutine's answer waits    *)
(* for its turn.  A wallet opens or does not (WalletFile); what a handler  *)
(* does with an open wallet and a node is in WalletNode, whose wallet is   *)
(* always open: here it can be closed, or be another one.                  *)
(***************************************************************************)
EXTENDS Naturals

CONSTANTS
  Wallet,      \* the wallets (a file and its seed) a user may open
  NoWallet,    \* wlt is nil
  TxID,        \* transactions the wallets may sign
  Signer,      \* TxID -> Wallet, whose address a transaction spends
  NoTx,
  Metric,      \* the numbers in the footer: peers and blocks
  MaxClients,  \* bound: node clients that are ever made
  MaxSeq       \* bound: lookups of one metric, and resets

ASSUME GuiAssumption ==
  /\ NoWallet \notin Wallet
  /\ Signer \in [TxID -> Wallet]
  /\ NoTx \notin TxID
  /\ MaxClients \in Nat /\ MaxSeq \in Nat

VARIABLES
  wlt,      \* the open wallet, or NoWallet
  rpc,      \* the client in use, 0 for nil; clients are numbered as made
  clients,  \* how many have been made
  enabled,  \* the pages of an open wallet can be selected
  page,     \* the page that is shown
  signed,   \* per signing page: signedTxHex, recoverySignedHex
  approved, \* per panel: what its gates have approved
  rows,     \* rows of the pending list with a test button
  for,      \* history: the wallet and the client the rows were made for
  confirm,  \* the broadcast whose dialog is open
  pending,  \* per wallet: the entries of its pending_broadcasts bucket
  outgoing, \* per wallet: its outgoing history
  sent,     \* history: transactions whose broadcast the node confirmed
  seq,      \* per metric: peerLookupSeq, blockLookupSeq
  label,    \* per metric: the text next to its button
  lookups   \* goroutines that wait for the node

pageVars   == <<enabled, page, signed, approved, rows, for, confirm>>
dbVars     == <<pending, outgoing, sent>>
metricVars == <<seq, label, lookups>>
guiVars    == <<wlt, rpc, clients, pageVars, dbVars, metricVars>>

-----------------------------------------------------------------------------

SigningPage == {"send", "recovery"}
Panel == SigningPage \cup {"pending"}
Page == Panel \cup {"wallet", "addresses", "network"}

Client == 1 .. MaxClients
Lookup == [metric : Metric, client : Client, seq : 1 .. MaxSeq]

\* "blank" is a dash.  An answer, or that there is none ("Unavailable"), is
\* known by the lookup it came from.
Text == [kind : {"blank", "checking", "not connected", "answer"},
         client : 0 .. MaxClients, seq : 0 .. MaxSeq]

Says(kind) == [kind |-> kind, client |-> 0, seq |-> 0]
Answer(c, n) == [kind |-> "answer", client |-> c, seq |-> n]

NoConfirm == [panel |-> "pending", tx |-> NoTx]
ForNobody == [wallet |-> NoWallet, client |-> 0]

\* The fields have their types, and the database holds what its wallet signed.
GuiTypeOK ==
  /\ wlt \in Wallet \cup {NoWallet}
  /\ clients \in 0 .. MaxClients /\ rpc \in 0 .. clients
  /\ enabled \in BOOLEAN /\ page \in Page
  /\ signed \in [SigningPage -> TxID \cup {NoTx}]
  /\ approved \in [Panel -> SUBSET TxID]
  /\ rows \subseteq TxID
  /\ for \in [wallet : Wallet \cup {NoWallet}, client : 0 .. MaxClients]
  /\ confirm \in [panel : Panel, tx : TxID] \cup {NoConfirm}
  /\ pending \in [Wallet -> SUBSET TxID] /\ outgoing \in [Wallet -> SUBSET TxID]
  /\ sent \subseteq TxID
  /\ seq \in [Metric -> 0 .. MaxSeq]
  /\ label \in [Metric -> Text]
  /\ lookups \subseteq Lookup

FreshWindow ==
  /\ wlt = NoWallet /\ rpc = 0 /\ clients = 0
  /\ enabled = FALSE /\ page = "wallet"
  /\ signed = [p \in SigningPage |-> NoTx]
  /\ approved = [p \in Panel |-> {}]
  /\ rows = {} /\ for = ForNobody /\ confirm = NoConfirm
  /\ seq = [m \in Metric |-> 0]
  /\ label = [m \in Metric |-> Says("blank")]
  /\ lookups = {}

GuiInit ==
  /\ FreshWindow
  /\ pending = [x \in Wallet |-> {}]
  /\ outgoing = [x \in Wallet |-> {}]
  /\ sent = {}

\* No dialog is open: the window takes clicks.
Free == confirm = NoConfirm

-----------------------------------------------------------------------------
(* The node's client, and the footer's lookups *)

CanReset == \A m \in Metric : seq[m] < MaxSeq

ResetNetworkMetrics ==
  /\ seq' = [m \in Metric |-> seq[m] + 1]
  /\ label' = [m \in Metric |-> Says("blank")]
  /\ UNCHANGED lookups

NewClient == /\ clients < MaxClients
             /\ clients' = clients + 1
             /\ rpc' = clients + 1

\* An empty endpoint or an unreachable node leaves no client.
Connect ==
  /\ Free /\ page = "network"
  /\ CanReset
  /\ NewClient \/ (rpc' = 0 /\ UNCHANGED clients)
  /\ ResetNetworkMetrics
  /\ UNCHANGED <<wlt, pageVars, dbVars>>

\* The Peers and the Blocks button.
PressMetric(m) ==
  /\ Free
  /\ \/ /\ rpc = 0
        /\ label' = [label EXCEPT ![m] = Says("not connected")]
        /\ UNCHANGED <<seq, lookups>>
     \/ /\ rpc # 0
        /\ seq[m] < MaxSeq
        /\ seq' = [seq EXCEPT ![m] = @ + 1]
        /\ lookups' = lookups \cup {[metric |-> m, client |-> rpc, seq |-> seq[m] + 1]}
        /\ label' = [label EXCEPT ![m] = Says("checking")]
  /\ UNCHANGED <<wlt, rpc, clients, pageVars, dbVars>>

\* Mutant: an answer from the client in use is shown, however old.
Current_AnyLookup(k) == rpc = k.client

Current(k) == rpc = k.client /\ seq[k.metric] = k.seq

\* A goroutine's callback: the node answered, or the lookup's time is up.
ShowMetric(k) ==
  /\ k \in lookups
  /\ lookups' = lookups \ {k}
  /\ label' = IF Current(k)
              THEN [label EXCEPT ![k.metric] = Answer(k.client, k.seq)]
              ELSE label
  /\ UNCHANGED <<wlt, rpc, clients, pageVars, dbVars, seq>>

-----------------------------------------------------------------------------
(* Pages *)

\* ListPendingBroadcasts of the open wallet.
Stored == IF wlt = NoWallet THEN {} ELSE pending[wlt]
Store(entries) == pending' = [x \in Wallet |-> IF x = wlt THEN entries ELSE pending[x]]

\* renderPending: what the node has confirmed is deleted, and a row that it does
\* not know gets a test button with a new gate; without a client none has one.
RenderPending(entries) ==
  /\ for' = [wallet |-> wlt, client |-> rpc]
  /\ \/ /\ rpc = 0
        /\ rows' = {} /\ Store(entries)
     \/ /\ rpc # 0
        /\ \E gone \in SUBSET (entries \cap sent) :
              /\ Store(entries \ gone)
              /\ rows' \in SUBSET (entries \ gone)

\* Mutant: selecting the page does not render its list.
SelectPage_OldList(p) ==
  /\ Free
  /\ p \in Panel \cup {"addresses"} => enabled
  /\ page' = p
  /\ UNCHANGED <<wlt, rpc, clients, enabled, signed, approved, rows, for, confirm, dbVars,
                 metricVars>>

\* The navigation; Pending Broadcasts is rendered each time it is selected.
SelectPage(p) ==
  /\ Free
  /\ p \in Panel \cup {"addresses"} => enabled
  /\ page' = p
  /\ IF p = "pending"
     THEN /\ RenderPending(Stored)
          /\ approved' = [approved EXCEPT !["pending"] = {}]
     ELSE UNCHANGED <<rows, for, approved, pending>>
  /\ UNCHANGED <<wlt, rpc, clients, enabled, signed, confirm, outgoing, sent, metricVars>>

\* Refresh, on this page or on My Addresses, renders it too.
Refresh ==
  /\ Free /\ page \in {"addresses", "pending"}
  /\ wlt # NoWallet
  /\ RenderPending(Stored)
  /\ approved' = [approved EXCEPT !["pending"] = {}]
  /\ UNCHANGED <<wlt, rpc, clients, enabled, page, signed, confirm, outgoing, sent, metricVars>>

\* Open Existing and Create New: the old wallet is closed first.  Once the new
\* one is open its pages are enabled and a node on this host is tried.
LoadWallet(x) ==
  /\ Free /\ page = "wallet"
  /\ wlt' = x
  /\ \/ /\ x = NoWallet
        /\ UNCHANGED <<rpc, clients, enabled, metricVars>>
     \/ /\ x # NoWallet
        /\ enabled' = TRUE
        /\ \/ NewClient /\ CanReset /\ ResetNetworkMetrics
           \/ UNCHANGED <<rpc, clients, metricVars>>
  /\ UNCHANGED <<page, signed, approved, rows, for, confirm, dbVars>>

-----------------------------------------------------------------------------
(* Signing, testing and broadcasting *)

\* The preview resets the gate; that of a recovery forgets what was signed.
Forgotten(p) == IF p = "recovery" THEN NoTx ELSE signed[p]

Preview(p) ==
  /\ Free /\ page = p
  /\ approved' = [approved EXCEPT ![p] = {}]
  /\ \/ /\ signed' = [signed EXCEPT ![p] = Forgotten(p)]
        /\ UNCHANGED pending
     \/ /\ wlt # NoWallet /\ rpc # 0
        /\ \E t \in TxID :
              /\ Signer[t] = wlt
              /\ t \notin pending[wlt] \cup sent
              /\ signed' = [signed EXCEPT ![p] = t]
              /\ pending' = [pending EXCEPT ![wlt] = @ \cup {t}]
  /\ UNCHANGED <<wlt, rpc, clients, enabled, page, rows, for, confirm, outgoing, sent, metricVars>>

OnPanel(p) == IF p = "pending" THEN rows ELSE {signed[p]} \ {NoTx}

\* Test Transaction resets the gate and opens it if the node allows.  A signing
\* page checks for a node and for nothing else, a row does not: without one it
\* would panic (see RowsAreCurrent).
TestTransaction(p, t) ==
  /\ Free /\ page = p
  /\ t \in OnPanel(p)
  /\ \E passed \in SUBSET {t} :
        /\ rpc = 0 => passed = {}
        /\ approved' = [approved EXCEPT ![p] = (IF p = "pending" THEN @ \ {t} ELSE {}) \cup passed]
  /\ UNCHANGED <<wlt, rpc, clients, enabled, page, signed, rows, for, confirm, dbVars, metricVars>>

PressBroadcast(p, t) ==
  /\ Free /\ page = p
  /\ t \in OnPanel(p) \cap approved[p]
  /\ \/ /\ rpc # 0
        /\ confirm' = [panel |-> p, tx |-> t]
        /\ UNCHANGED approved
     \/ /\ rpc = 0 /\ p = "recovery"
        /\ approved' = [approved EXCEPT ![p] = {}]
        /\ UNCHANGED confirm
  /\ UNCHANGED <<wlt, rpc, clients, enabled, page, signed, rows, for, dbVars, metricVars>>

\* The user cancels, or the node refuses or is not reached.  A row first asks
\* the node for its transaction; what it knows closes the gate.
BroadcastFails ==
  /\ ~Free
  /\ confirm' = NoConfirm
  /\ \E closed \in SUBSET {confirm.tx} :
        /\ confirm.panel # "pending" => closed = {}
        /\ approved' = [approved EXCEPT ![confirm.panel] = @ \ closed]
  /\ UNCHANGED <<wlt, rpc, clients, enabled, page, signed, rows, for, dbVars, metricVars>>

\* The node accepts.  The history and the pending entry of the wallet that is
\* open now are written, and the list is rendered.
BroadcastSucceeds ==
  LET t == confirm.tx
  IN  /\ ~Free
      /\ wlt # NoWallet
      /\ sent' = sent \cup {t}
      /\ outgoing' = [outgoing EXCEPT ![wlt] = @ \cup {t}]
      /\ approved' = [approved EXCEPT ![confirm.panel] = {}, !["pending"] = {}]
      /\ RenderPending(Stored \ {t})
      /\ confirm' = NoConfirm
      /\ UNCHANGED <<wlt, rpc, clients, enabled, page, signed, metricVars>>

CloseWindow ==
  /\ wlt' = NoWallet /\ rpc' = 0 /\ clients' = 0
  /\ enabled' = FALSE /\ page' = "wallet"
  /\ signed' = [p \in SigningPage |-> NoTx]
  /\ approved' = [p \in Panel |-> {}]
  /\ rows' = {} /\ for' = ForNobody /\ confirm' = NoConfirm
  /\ seq' = [m \in Metric |-> 0]
  /\ label' = [m \in Metric |-> Says("blank")]
  /\ lookups' = {}

\* The node accepts, and RecordOutgoingTransaction is called on a nil *Wallet:
\* the program panics.
BroadcastPanics ==
  /\ ~Free
  /\ wlt = NoWallet
  /\ sent' = sent \cup {confirm.tx}
  /\ CloseWindow
  /\ UNCHANGED <<pending, outgoing>>

\* The window is closed, or the process dies; the GUI is started again.
Restart == CloseWindow /\ UNCHANGED dbVars

GuiNext ==
  \/ Connect \/ Refresh \/ BroadcastFails \/ BroadcastSucceeds \/ BroadcastPanics \/ Restart
  \/ \E m \in Metric : PressMetric(m)
  \/ \E k \in lookups : ShowMetric(k)
  \/ \E p \in Page : SelectPage(p)
  \/ \E x \in Wallet \cup {NoWallet} : LoadWallet(x)
  \/ \E p \in SigningPage : Preview(p)
  \/ \E p \in Panel, t \in TxID : TestTransaction(p, t) \/ PressBroadcast(p, t)

GuiSpec == GuiInit /\ [][GuiNext]_guiVars

-----------------------------------------------------------------------------
(* Properties *)

\* Whatever was opened, closed or connected since, a row of the pending list
\* that can be pressed is stored in the wallet that is open, and was rendered
\* for it and for the client in use: its handlers, which check neither wlt nor
\* rpc, do not meet a nil pointer.
RowsAreCurrent ==
  page = "pending" /\ rows # {} =>
    /\ wlt # NoWallet /\ rpc # 0
    /\ for = [wallet |-> wlt, client |-> rpc]
    /\ rows \subseteq pending[wlt]

\* The footer shows the answer to the last lookup of the client in use, or has
\* one on its way: an answer that comes late changes nothing, and "Checking"
\* is not left standing.
MetricsAreCurrent ==
  \A m \in Metric :
    /\ label[m].kind = "answer" => label[m] = Answer(rpc, seq[m])
    /\ label[m].kind = "checking" => [metric |-> m, client |-> rpc, seq |-> seq[m]] \in lookups

-----------------------------------------------------------------------------
(* What a comment says, and the code does not do *)

\* "broadcastAndSettlePending treats a successful RPC send as irreversible:
\* local history and pending-entry cleanup are independent best-effort writes":
\* a transaction that was sent is recorded, by whichever wallet is open.
SentIsRecorded == \A t \in sent : \E x \in Wallet : t \in outgoing[x]
=============================================================================
