# Symbiont wallet: TLA+ models and proofs

Symbiont is a wallet for QOGE whose addresses are single-use: the key of an
address signs one spending transaction (SLH-DSA, 17,088 bytes a signature). This
directory models the parts of it that keep that promise, checks them with TLC on
small instances, and proves the most important properties with TLAPS for every
value of the constants.

## 1. Inventory

| Part (source) | State it keeps | Operations | Hard behaviour | What makes it correct |
|---|---|---|---|---|
| Address index (`keystore/keystore.go`) | bbolt buckets `meta`, `addresses`: next index; per address a state FRESH → FUNDED → SPEND_PENDING → SPENT → RETIRED, a reservation, a spend txid, recoverable and locked outpoints, an encrypted key | `GenerateAddress`, `PreGenerate`, `MarkFunded`, `MarkSpendPendingAndReserveChange`, `MarkRecoveryPendingAndReserveChange`, `ObserveRecoverableOutpoints`, `MarkSpent`, `Retire`, queries | long legal call sequences; scans that are older than the signature they meet | one spend per key, change promised once, one outstanding recovery per output, keys kept while needed |
| History (`keystore/history.go`, `wallet/history.go`) | bucket `transactions` | `PutTransaction`, `MarkFundedAndRecordIncoming` | a broadcast recorded twice | write-once; change is not income |
| Pending broadcasts (`keystore/pending.go`) | bucket `pending_broadcasts` | stored with the signature, `DeletePendingBroadcast`, `ListPendingBroadcasts` | crash between signing and broadcast | what left the wallet is stored |
| Wallet (`wallet/wallet.go`) | `signMu`, the seed, an index | open and close, `SignP2QPKInputs` and its five variants, `SignMessage`, `SignTransaction`, the observers, `PurgeSpentKey`, `fillPool`, listings | concurrent callers; a check in one transaction and its use in another; crash | what a signer read still holds when it signs; calls return |
| Wallet file (`wallet/wallet.go`, `keystore.Open`, `ValidateExisting`) | the database file, its lock | `CreateNew`, `OpenExisting`, `Close` | two programs at one path; a crash or a failing write in the middle of creation; a wrong seed; a file that is moved; waiting for a lock without a timeout | a created wallet stays, holds addresses of one seed and can be opened again; nobody waits for ever |
| Fees and selection (`internal/txbuilder`) | none | size, fee, change, selection, parsing of amounts | rounding, dust, the input limit, 64-bit limits | what is paid, and that money is not stranded |
| Encoding (`internal/txbuilder`, `wallet/wallet.go`) | none | `SerializeBIP144`, `TxIDFromBIP144`, `p2qpkTxID`, `computeP2QPKSighash`, sizes | the same bytes are described in four places; stored bytes are read again later | the node reads and verifies what was confirmed |
| Signer (`signer/slhdsa.go`) | liboqs's process-global random generator, `rngMu` | `NewSigner`, `NewSignerFromSeed`, `Sign`, `Verify` | concurrent use of one generator, error paths that must restore it | a key comes from its seed, a signature from the system's randomness |
| Node client (`internal/rpcclient`) | none | `ScanTxOutSet`, `TransactionConfirmations`, `TestMempoolAccept`, `SendRawTransaction`, `AnalyzeFunding`, `AnalyzeDeposits` | lost answers, timeouts, reorganisations | maturity is that of the shallowest output |
| Address codec (`address`) | none | bech32(m) encoding, two decoders | checksum arithmetic; combinations of version, constant, length and prefix | a mistake is refused, the payee is paid |
| GUI (`cmd/gui/main.go`) | the open wallet, the node's client, the last signed transactions, gates, rows, sequence numbers of lookups | open, connect, refresh (funding, recovery, confirmation), preview and sign, test, broadcast, pending list, footer | decisions on states and scans that are no longer current; a wallet or a node that changes under the pages; late answers | a signed transaction is broadcast, confirmed, cleared; what is shown belongs to the wallet and node in use |
| Theme (`cmd/gui/theme.go`) | — | colours and fonts | — | — |
| CLI (`cmd/main.go`) | the open wallet | a demonstration menu | confirmations that no node reported | — |

Interaction: the GUI and the CLI call the wallet; the wallet calls the index
(one bbolt transaction per method, under `ki.mu`) and the signer; the GUI alone
talks to the node and hands what it sees to the wallet's observers. The wallet is
documented and tested for concurrent callers (`wallet_test.go:461, 1256, 2182`,
`README.md:136`); the GUI itself uses one thread.

`PROJECT.json` lists the components again with what is modelled of each, and
every hazard at its line.

## 2. Modules

| Module | Models | Checked in | Proved in |
|---|---|---|---|
| `SingleUse` | what the index promises, in six variables and no records | by refinement | `KeyIndexProofs` |
| `KeyIndex` | index, history and pending broadcasts | `MCKeyIndex`, `KeyIndex.cfg` | `KeyIndexProofs` |
| `WalletSigning` | wallet methods on top of `KeyIndex`: concurrent callers, crash | `MCWalletSigning`, `WalletSigning.cfg` | `WalletSigningProofs` |
| `RngSlot` | the signer and the random slot | `MCRngSlot`, `RngSlot.cfg` | `RngSlotProofs` |
| `CoinSelection` | sizes, fees, selection, and the passes that empty an address | `MCCoinSelection`, `CoinSelection.cfg`, `CoinRefusal.cfg` | `CoinSelectionProofs` |
| `WalletNode` | the GUI, the node, the chain and the CLI around `KeyIndex` | `MCWalletNode`, `WalletNode.cfg` and `Node*.cfg` | `WalletNodeProofs` |
| `WalletFile` | creating, opening and closing a wallet, by several programs | `MCWalletFile`, `WalletFile.cfg` | `WalletFileProofs` |
| `GuiSession` | the session around the handlers: wallets, nodes, pages, footer | `MCGuiSession`, `GuiSession.cfg`, `GuiSend.cfg` | `GuiSessionProofs` |
| `AddressCodec` | bech32 and bech32m, addresses and destinations | with `Payment` | `PaymentProofs` |
| `TxEncoding` | serialization, identifier, digest, size, and the walk over stored bytes | with `Payment` | `PaymentProofs` |
| `Payment` | a payment from the text of an address to the stored bytes | `MCPayment`, `Payment.cfg` | `PaymentProofs` |

How they fit together: `WalletSigning` and `WalletNode` extend `KeyIndex` with, in turn,
callers inside one process and the world around it. `WalletFile` is what happens
before a database can be used, `GuiSession` is what happens when the wallet or the node in
use changes, and takes from the other two only that a wallet opens or does not and that
a handler stores what it signs. `Payment` extends `AddressCodec` and `TxEncoding`
and follows the data that the others treat as values.

Operators whose name has an underscore and a suffix (`Retire_StateOnly`) stand
before the definition they are a faulty version of: each property of a run fails
when its definition is replaced by one of them.

### KeyIndex

One action per writing method. Every method holds `ki.mu` and runs one bbolt
transaction, which either commits as a whole or changes nothing, so a method is
one atomic step and an error is a stuttering step. An address is its derivation
index; a txid determines its source, inputs and change (it is a hash of them),
so these are constant functions. `signed` and `released` are history variables:
what has been signed, and which recovery locks a scan has cleared. The raw bytes,
the public key and the ciphertext are left out; of the encrypted key only whether
the record holds it. Incoming history records have no time of their own here,
because an address is credited once; outgoing ones have a time, because a
broadcast can be recorded again later, which the code rejects as a conflict.

### WalletSigning

EXTENDS `KeyIndex` and gives each caller a program counter. A signing method is
lock, read and check the source, read and check the change address, sign and
commit, return, unlock: every read and the commit are separate index
transactions. `SignTransaction` checks its change first. `signP2QPKInputs` signs
and commits in one step here since signing changes no state. `ObserveFunding` and
`OnConfirmation` are followed by the refill, a count and then one generation at
a time; `ObserveSpendConfirmation` is a read and then `MarkSpent`.
Every step of a call may fail, since reading, deriving, encrypting and committing
may. A refill that fails (`RefillFails`) keeps what it has generated and is
only a warning to its callers, so the pool is then short and nobody is filling it:
`refillFailed` is a history variable that remembers this until the next refill counts,
and `PoolRefilled` promises a full pool only without it.
`CrashAndOpen` forgets every call and the mutex, and keeps the database.
`DeletePendingBroadcast`, `PutTransaction` and `ObserveFundingWithHistory` are
not actions of this module: they take no part in signing. `ReturnedIsStored`
therefore says that nothing but an explicit delete loses a returned transaction.

### RngSlot

The slot holds the system's generator or a caller's callback. The callback
accepts one draw of the right size and otherwise writes zeros and notes an error.
How liboqs draws is not assumed: any number up to a bound, of any size, and a key
generation or signature can fail at any point.

### CoinSelection

Coins are numbered by outpoint and have amounts. A pass (`SendAmount`,
`SendMaximum`, `RecoverMaximum`) is scan, plan, sign and confirm; what happens in
between is in `KeyIndex`. Sizes and fees are the code's formulas with its real
constants (41 bytes of input, a witness of 17,125).

### WalletNode

EXTENDS `KeyIndex` with four things, each in variables of its own.

- *The chain and the node* (`depth`, `mempool`, `sent`): external. A block may hold
  any of our transactions that a node has ever accepted and any deposit to an
  address that exists; the last block may be disconnected; the mempool may drop a
  transaction; a call may fail, and the answer of `sendrawtransaction` may be lost
  after the node accepted. Which outputs are unspent is computed, not stored.
- *The GUI's memory* (`session`): the last signed transactions, the gates, the rows
  of the list that have buttons, the chosen destination. A restart forgets it.
- *The handler that is running* (`task`). The GUI has one thread and its dialogs are
  modal, so at most one handler is under way and `task` is its program counter
  with what it has read. A handler is cut into one action per call of the node or
  write of the database, because the chain moves and the process dies in between.
  What a scan returned is kept in `seen` and `mature` and used later, as in the code.
- *The CLI* (`DemoConfirmation`, `DemoPurge`), which confirms and purges with
  constants. bbolt's file lock keeps it and the GUI apart, hence `session = NoSession`.

Refresh is `StartRefresh` (scan), `ObserveFundingWithHistory` for each address, `ScanSpent`,
`ObserveRecoverableBalance` for each, `StartConfirm`, `ObserveSpendConfirmation` or
`SkipSpendConfirmation` for each, `EndRefresh`, then the list. The list is `RowUnknown`,
`RowWaits` or `RowConfirmed` for each entry, the last followed by `ReconcileSpend` or
`ReconcileRecovery` and `ClearEntry`. Sending is preview, sign, test, broadcast, record,
settle. Every transition that the code follows with `fillPool` sets `task.fill`. That
refill may stop at any point, which its callers only warn about; the one at opening may
not, because `openWallet` fails then.

Every call may fail. The first two stages of Refresh end at the first call that fails
(`ObserveFails`), the third goes on with the next address (`SkipSpendConfirmation`); a
lookup of a row that fails leaves the row without a button (`RowWaits`), a
reconciliation or a deletion that fails leaves the entry (`ReconcileFails`); after a
broadcast, recording and deleting may each fail on its own (`RecordOutgoing`,
`SettlePending`).

A test (`TestTransaction`) and a broadcast take a panel: the Send page, the Recover page
or the list, whose handlers differ only in what they test first. A cancelled broadcast
changes nothing and is left out; a cancelled signature is `NotSigned`. The addresses of
a scan are visited in index order. What a payment to somebody else is worth, and its
fee, is not modelled; recovery has no change, as the page plans it. `Payments` bounds the
transactions that the Send page composes; the Recover page may compose any without change.

### WalletFile

Programs share one path; a file is what the path named when it was created, so
a file that is moved aside keeps its content and its lock. A record of a file is
the seed that encrypted it. `CreateNew` is the claim (`O_EXCL`), the closing of the
claim, and the open; `OpenExisting` is the check of the file, a read-only open that
waits for a shared lock (`OpenReadOnly`, `LockShared`, `ValidateExisting`), and the
open. The open proper is `OpenDatabase` (which binds the file, and creates one if the
path is free), `LockDatabase` (which waits), `InitBuckets` and `FillPool`, one
address at a time. Every one of them may fail, a program may die after any, and
`RemoveCreated` removes what the path then names. A wallet that is open is used in two
steps: an address is credited (`UseAddress`), and the pool is refilled one address at a
time (`RefillPool`), which may stop at any point with a warning. So a wallet may be
open with a short pool, and no property says that its pool is full. The user moves a file only
while no call is under way, as the message of `CreateNew` says ("back up and remove
the existing file first"); a wallet may be open.

`late` records that a creation failed after it had stored an address: it then unlinks
a file that another program has just validated, and the open that follows there
creates a file of its own, or takes one that was created since, under another
seed. `OneSeedPerFile` and `OpenIsReopenable` except that case, which takes a failing
write and two programs; `CreatedStays` does not.

### GuiSession

A handler is one action here; what one does against a chain is in `WalletNode`, whose
wallet is always open. `wlt` and `rpc` are the two pointers that every handler
uses and few check. `rows` and `for` are the buttons of the pending list and what
they were made for, `signed` and `approved` the pages' transactions and gates. The
footer's lookups are goroutines whose answers come at any time and in any order,
as `fyne.Do` runs them between handlers. Clients are numbered as they are made, as
the code compares pointers.

Two things that the code does and that no property calls wrong: after another
wallet is opened, a transaction that the first one signed can still be sent from the Send
page, is then recorded in the second one's history, and its entry stays in the first
one's list until that list is shown again; and My Addresses shows the first one's
snapshot until Refresh.

### AddressCodec, TxEncoding and Payment

`AddressCodec` has the real alphabet, generators and constants; a checksum is the set of
its bits. `TxEncoding` has the real layout with a shorter signature. A hash is the
bytes it is taken of: two hashes are equal exactly if those are, which is what
SHA-256 is used for. `Payment` strings them together: a text is copied with mistakes
and entered, an amount is parsed, a transaction is signed, serialized, stored, perhaps
damaged on disk, and read back. The node is external: `NodeReads` is BIP144's grammar and
`NodeVSize` is BIP141's, neither written from this repository's code.

The parser of amounts is modelled with the width of its integers: the check before the
multiplication looks at the whole part only, and the comment at `txbuilder.go:619`
that the sum "cannot overflow" is wrong: 92233720368.99999999 wraps to a negative number,
which the caller's `<= 0` refuses. `NodeReadsWhatWasSigned` holds because of that check.
(`parseQOGEDecimal` of `rpcclient/balance.go` adds in the same way, but the node's
amounts do not come near.) Signs are not modelled: "-0.5" is taken for 0.5 and
"1.+5" for 1.05, as `strconv.ParseInt` takes a sign.

## 3. Runs

| Run | Question | Bounds, and why they are enough |
|---|---|---|
| `key_index` | do the promises hold in every order of the methods? | Three addresses: a source, its change, and a second change. Address 0 has two outpoints, so a recovery can take some or all, address 1 has one. Four transactions: two that compete for address 0, one that sweeps it, and one from the change of the first. One deposit of at most 1 satoshi, against reported balances up to 2, so that they can differ. Two times of broadcast, so that a repetition can conflict. About 194,000 states. |
| `wallet_signing` | does what a signer read still hold, and do calls return? | Two callers (every race in the code is between a signer and one other), three addresses, a pool of one, two transactions for the same source, any number of crashes, and any refill may fail. About 268,000 states. |
| `rng_slot` | can seeds and system randomness mix? | Two threads, two seeds, two draws: a second draw is what the callback must refuse. About 10,000 states. |
| `coin_selection` | does each transaction pay its fee and can an address be emptied? | Six coins, two of equal amount, for at most two inputs (the code: 22), so that prefixes, the largest coins and left-behind coins all occur; three rates, at which one, three and all six coins are dust, while the address may hold any subset of them, so that at the first two there are addresses without dust; `MaxInt64` lowered to 70,000,000, which rate times size exceeds at the third rate with two inputs. |
| `coin_refusal` | is a refused amount really not covered? | the same; TLC refutes it, see below. |
| `wallet_node` | are balances, history, the stored transactions and the gates true, and is the index only driven as `KeyIndex` allows (`UsesIndex`)? | Two addresses, two deposits to the first, one payment with change, blocks up to depth 3, one disconnected: enough for the threshold of 2 confirmations to matter, and for a shallow deposit beside a deep one. Two uses of the CLI (a confirmation and a purge), two times of broadcast, so that a repeated one conflicts with its record. Any call and any refill may fail. About 317,000 states. |
| `node_recovery` | is any output signed away twice, and is a mined transaction settled in the end? | One address with three outputs o1, o2, o3, its payment of o1, and recoveries of {o2}, {o2, o3} and {o3}. The first two compete for o2; the third has no output in common with the first, and can be signed when the first is mined and its lock is gone but its entry is not. All outputs come with one deposit; no disconnected block, no CLI, no change. About 176,000 states, with liveness. |
| `wallet_file` | does a created wallet stay and open again, with one seed? | Two programs, which is every race for one lock or path; two seeds, two files, so that one can be moved, replaced and put back; a pool of two, so that filling can stop in between. About 779,000 states. |
| `gui_session` | does what is shown belong to the wallet and node in use? | Two wallets with one transaction each, two clients and three lookups of one metric (the two metrics are independent but for the reset), so that an old answer of the client in use and one of the client before it both occur. About 1,663,000 states. |
| `payment` | is the payee paid, and does the node read what was confirmed? | Eleven addresses: every form the wallet accepts and near misses of each; two mistakes of four kinds at four places (prefix, version, program, checksum), and case. One or two inputs, with and without change; a signature of 253 bytes, the shortest whose length takes three bytes (17,088 does too); two decimals and 15-bit amounts, so that the sum can overflow; any one byte of the stored bytes changed, added or lost, and any truncation. Numbers that are read are not told apart from `Far` on, which is above every number that is written. About 96,000 states. |
| `gui_send`, `node_stale_destination` | does the code do what its comments and texts say? | The smallest instance with the case; TLC refutes each, see below. |

`FundedIsBacked` and `HistoryIsTrue` hold with one disconnected block because the threshold
is two confirmations: with as many disconnected blocks as the threshold they cannot
hold. `SignaturesNeverConflict` holds only while no block is disconnected
and the CLI is not believed, and says so: a spend is taken for final at its first confirmation.

`KeyIndex.cfg`, `CoinSelection.cfg` and `CoinRefusal.cfg` do not check deadlock: when
every address of the bounded index is retired, or every coin is spent, nothing is
left to do. The other runs check it.

Fairness. `WalletSigning` and `RngSlot` assume that a goroutine that can run does
(WF of its steps), and that one that waits for a mutex gets it although others
keep coming (SF of the lock step): Go's `sync.Mutex` hands itself to a waiter
that has waited for more than a millisecond. `CallsReturn` also assumes that the
process does not die again and again, as a premise. `KeyIndex`,
`CoinSelection`, `WalletFile`, `GuiSession` and `Payment` state safety only and assume no fairness. `WalletNode` assumes that a
handler that has started goes on and its dialog is answered (WF), and that the user
presses Refresh again and again although other handlers run in between (SF). No fairness
is assumed of the chain, of the node's answers, of broadcasts or of anything else the
user does. `MinedIsSettled` has a premise instead, `TroubleEnds`: restarts come to an end, and so
do failures of the calls it needs (the lookup of a confirmed transaction, its
reconciliation and the writes that follow). A reconciliation that *refuses* is not a failure:
that would make the property empty, as refusing is how an entry is kept for ever.

### Findings

`gui_send`: opening a wallet closes the one that is open before it is known whether the
next one opens (`main.go:692`). After a wrong seed there is no wallet, but the pages are
still enabled and hold what was signed. The handlers of Send and Recover check for a
node and not for a wallet; a broadcast is accepted by the node, and then
`RecordOutgoingTransaction` is called on nil and the program panics, where the comment at
`main.go:472` calls the record a best-effort write after an irreversible send. The signed
transaction is still in its wallet's pending list, so that nothing is lost but the record.
The pending list is safe, because it is rendered each time it is selected (`RowsAreCurrent`).

`node_stale_destination`: the To list is renewed at each preview, but what was selected
stays selected and is not checked; the payment goes to an address that is FUNDED,
reserved or spent, where the page says "wallet-owned FRESH destination".

`coin_refusal`: `SelectP2QPKForAmount` tries ascending prefixes of the coins and,
above the input limit, the largest. A coin that costs more than it holds is in
every prefix, so an amount can be refused although another coin covers it alone:
with coins of 3,000 and 6,000 satoshis at 1,000 sat/kB, 600 satoshis are
refused. The message says "no selection of at most 22 inputs covers amount plus
fee" (`txbuilder.go:167`). `CompleteWithoutDust` shows that dust is the only cause
in the instance.

Four gaps that were met on the way and that no run is spent on. Without the answer of
`sendrawtransaction` nothing is recorded (`main.go:474`), and when the list later finds
the transaction confirmed it deletes the entry without recording it either: that send is
missing from the history. A deposit that reaches the address on display before it is
reserved for change, and is credited afterwards, is taken for change and never listed.
Reconciliation of a stored spend accepts a source that is SPENT or SPEND_PENDING; one that the CLI purged in between is RETIRED, and its entry stays. And the entry of a
confirmed recovery is cleared only when its source holds no locked output at all
(`main.go:1367-1370`), its own or not. Suppose a refresh has cleared the lock of a mined
recovery, but its entry is still there because a lookup failed or the process died. A second
recovery of the address can then be signed, and its lock refuses the first one's entry with
"confirmed recovery still has pending outpoints on node", though none is the first one's.
If the second is never mined, the first is listed for ever, where the page says "stored in this
wallet until broadcast or confirmation" (`main.go:1450`). `MinedIsSettled` excludes exactly
these two, a purged source and a lock of a recovery signed later, by name: `Blocked`. The
source itself still leaves SPEND_PENDING. Besides, a seed that is used
for two files derives the same keys in both, and neither file knows what the other has signed.

## 4. Proofs

All theorems are for any number of addresses, outputs, transactions, callers and
draws, under the named assumptions of the modules:
`TxAssumption` (a transaction has inputs, all of its source, and its change is
another address: the checks of `signP2QPKInputs` on its arguments), `NoAddr` and
`NoTx` are no real values, `PoolAssumption`, `RngAssumption`, and those of the other
modules, which give constants their types. `AmountsFit` of `WalletNode` says that the bounds which
`KeyIndex` puts on balances leave room for every set of outputs of an address: the code
credits sums of positive satoshis, and the bounds are the model's. Three theorems have a
hypothesis of their own, named with them below.

`KeyIndexProofs`. `IInv` is the inductive invariant. `OneSpendPerKey` alone is not
inductive: a second spend is excluded because the address names its spend
exactly from SPEND_PENDING on (`SpendRecorded`), and that survives `GenerateAddress`
because indexes are never reused (`IndexIsMonotonic`). `ChangePromisedOnce` rests
on the reservation while FRESH and on the state afterwards (`ChangeHeld`).
`ChangeNeverIncoming` needs that only credited addresses have income.
`NoRecoveryConflict` needs that a signed recovery still holds its lock unless a
scan has cleared it (`RecoveryOutstanding`). The layers are proved in that order,
each with one step per action: `TypeCorrect`, `IndexInOrder`, `SpendSafe`,
`ChangeSafe`, `PendingSafe`, `IncomingSafe`, `ChangeStaysPrivate`, `HistoryKept`,
`RecoverySafe`, then `IndexSafe`, `IndexIsSingleUse` and `KeysAreKept`.
`IndexKeepsPromises` shows that every step of the index is a step of `SingleUse` or
stutters in it.

`WalletSigningProofs`. `SigningTypeCorrect` shows that `signMu` is held exactly while
a call signs. `SigningUsesIndex` shows that the wallet with its callers and crashes
does to the database only what `KeyIndex` allows, so that every theorem of
`KeyIndexProofs` holds for it. `SigningSafe` combines them: only a holder of
`signMu` takes an address out of FUNDED, and `SpendTxID` never changes once set. `PoolIsRefilled`
counts: `PoolInv` says that the pool is full, or that the last refill failed, or that some caller has yet to count it, or has
counted and will generate at least what is missing. What is bounded are the FRESH addresses, those
that signatures have reserved included (the count leaves them out, so it errs to the safe side). That
survives other callers between the count and the last generation since only a credit
takes an address out of FRESH, and the caller that credits counts next (`KeepsPool`, `GenerateGrowsPool`).

`RngSlotProofs`. `RngSafe`: the callback is installed and removed under the mutex, so
a caller draws from its own slot; `JobOK` records what a job has drawn so far.

`WalletFileProofs`. `FInv` is the inductive invariant, and TLC checks it as it is. What a call
has bound and locked follows from where it is (`CallMatches`), so locks exclude each other
(`LocksExclude`) and nobody who waits holds one: `NoCircle`. `CreatedStays` needs that the
path belongs to one creation from its claim to its end (`CreatorOwnsPath`), so that what
`RemoveCreated` removes is that creation's own. One seed per file needs what every call
knows of the seed of its file at each of its steps (`SeedHolds`), with `late` as its exception.
None of it depends on how far a pool was filled.

`WalletNodeProofs`. `NodeInv`, defined there, has seven parts: the shape of the database and of
the GUI's memory, what a handler has in hand, that what is mined or about to be cleared has been sent, that
what is signed and not sent is stored, that the list being rendered is of stored entries, that an
open dialog has reset its gate, and the gates. The parts that speak of handlers are needed because
the database changes between what a handler reads and what it does with it. It is proved for
any chain, any number of addresses and any interleaving of blocks, failing calls, crashes and
the CLI.

The second half of the module builds on it. `NodeUsesIndex` shows that a step of `WalletNode` leaves the database
alone or is one step of `KeyIndex`: what the pages sign, delete and record is what the index
has (`SignedInHand`, `SeenIsSent`), and what is credited is a sum of at least one output
(`AmountsFit`). So all of `KeyIndexProofs` holds for the whole (`NodeIsSingleUse`, `NodeKeepsPromises`).
The shape of the whole, `NodeTypeOK`, is proved (`NodeTypeCorrect`) and not checked by a run.
`ChainIsTrue` assumes `MaxReorgs < FundingMinConfirmations`, without which it is false. That a credited
deposit is on the chain is not inductive, as the next disconnected block may be its own;
confirmations plus blocks disconnected so far never decrease (`DeepStays`), so this sum is what
`SeenDeep` and `CreditDeep` keep at the threshold, from the scan on. `FundedIsBacked` needs besides that
no transaction spends from a FUNDED address before it is signed. `SignaturesSafe` is proved with
`CalmInv`: every signed transaction is mined, or its source still waits for it
(`MinedOrWaiting`), so what a scan shows unspent was not signed away by a mined one, and what was
signed away by one that waits is locked or not offered. `ScanHolds` carries that from the scan to the writes that
use it.

`GuiSessionProofs`. `GuiTypeCorrect`, then the two properties, each inductive together with it:
a row that can be pressed was rendered for the wallet and client in use because every
action that changes either is on a page other than the list's (`LoadWallet`, `Connect`), and
the list is rendered when its page is selected.

`CoinSelectionProofs`. `FairInv` says that the plan of every pass pays its fee and wastes none.
`SelectionCovers` shows that a selection, the smallest or the largest coins, is a set of at most
`MaxInputs` coins (`RankBound`, `TakenBound`, by the cardinality of initial segments), and
that the total the plan was made for is that of the inputs (`FeePaid`, `FeeNotWasted`).

A sum is a fold over a set, and the induction it takes is not the library's, which the provers cannot
instantiate, but a least counterexample: the finite sets are well-founded under inclusion
(`SomeSetIsMinimal`), so of the sets whose fold is not a sum one would be minimal. `TotalIsNat`, `TotalAdds` and
`TotalIsSum` follow. `SelectionComplete` then shows that the code's two tries are enough: a set of coins that
covers an amount grows to the ascending prefix that ends with its largest coin, since no coin costs more
than it holds (`CoverGrows`), or, above the limit, is exchanged for as many of the largest
coins (`CoverSwaps`). `RecoveryContinues` has the same ground: a coin's marginal fee is at most the fee of a
transaction that has it alone (`MarginalFee`). Both assume `RatesFit`: a transaction of
`MaxInputs` inputs has a fee at all, that is, size times rate fits in an int64. With 22 inputs that
is every rate below 9 * 10^13 satoshis per kB, nearly a million QOGE. TLC's instance has a rate beyond it,
where the refusals of the code are equally complete.

`PaymentProofs`. *What is offered.* A function that is defined step by step exists (`StepsExist`) and keeps what each
step keeps (`StepsKeep`), both again by a least counterexample. So what is written is bytes, for any number of
inputs, outputs and scripts (`SerializedIsBytes`), and what is decoded too, whatever the text
(`DestinationIsScript`, `OwnScriptIsScript`). Each part of the walk of `TxIDFromBIP144` moves forward or stays truncated
(`Advances`), so where it gives an identifier it left the outputs between the marker and the lock
time (`WalkEndsAtLockTime`); lengths then fix where each byte of the identifier was read, for any
bytes whatever (`OffersTheFields`). `OffersSafe` follows with `Stored`: an entry keeps the identifier of the
transaction that was confirmed, and is offered if its bytes give it. Two different sequences of bytes have
different hashes here; that is the assumption.

*What a node reads.* `NodeReadsSafe` says for every payment what TLC checks with one or two inputs: a
node that is given the undamaged bytes reads the transaction that was confirmed. Reading inverts
writing in four layers. A number that fits its width is read as it was written
(`LittleEndianInverts`: what the k lowest bytes leave is what the rest are read as). So are a length
(`CompactSizeReads`), an input, an output and the items of a witness, wherever they stand in the bytes
(`Holds`; `InputReads`, `OutputReads`, `StackReads`). So is a field that is repeated, since each
reading ends where the next block begins (`BlocksRead`). And so is the whole, to its last byte
(`TransactionReads`). The size that the fee was planned for is then the node's, because
`P2QPKVirtualSize`, which never sees the bytes, adds the same lengths (`LengthsAddUp`, `LengthsMultiply`,
`SizeAgrees`). The digests need nothing of their own, as the fields they are taken of are equal.
The amount needs that decimals are counted alike before and after the point (`DecimalJoins`, `TenToSum`):
`AmountIsExact` says that an amount which is accepted is exactly what was typed, however many digits
it has, since the one sum that can leave the int64 wraps to a negative number, which is refused. The
invariant is `Inv`: `Stored`, and `Confirmed` while there is a transaction, which names what
`SignAndStore` made of the amount, the destination and the inputs, and which later actions keep.
The assumptions are `PaymentAssumption`: a source's outpoints fit their fields and are at most 65,535, change
is an int64, and `Far` is above `MaxInt64`; and `UnitAssumption`, that the satoshis of
one QOGE fit in an int64. `LengthAssumption` limits a signature and a key to 65,535 bytes, beyond which a length takes a form that
the code writes too and that a transaction of this wallet never has. That a script is short is
not assumed but proved, for every destination that is accepted (`DestinationIsScript`).

*What two decoders accept.* The wallet has a general decoder of destinations and one of its own
addresses, with checks in another order and a different treatment of prefixes. `DecodersAgree`: for any
text, the first gives a P2QPK destination exactly if the second gives an address and the prefix is mainnet's,
and the scripts are the same. `ReadAlike` is what follows for a payment.

Only model-checked: the liveness properties (`CallsReturn`, `CallsFinish`, `MinedIsSettled`), which
are out of the provers' reach; and of `PaysWhatWasShown` the first and third clauses, which rest on what bech32's
checksum detects, a fact about its generator that only enumeration shows (the second is `ReadAlike`).

## 5. Not modelled

- Cryptography and JSON. Between `WalletNode` and `Payment`, a txid is taken to determine its
  transaction.
- Corruption of the database by anything but the program, beyond one damaged entry
  (`Payment`); failures of bbolt itself, beyond a transaction that rolls back or an
  operation that returns an error.
- `Verify`, `ImportSigner`, `ParseFeeRate`, `FormatQOGE`, the theme: no state, and no
  property of another part depends on more than their result.
- Reading methods (`ListAddresses`, `ListPurgeEligibleAddresses`). `ListAddresses` reads the five
  states one after another, so that an address that moves meanwhile is listed
  twice or not at all; the GUI, which lists and transitions on one thread, does not meet it.
- HTTP and the node's JSON; what an answer says is modelled, not how it is written.
- In `WalletNode`: deposits whose payer replaces them, a reorganisation deeper than the
  bound. A source whose signed transaction the node refuses stays SPEND_PENDING; nothing
  in the repository promises otherwise, so no property does.
- In `GuiSession`: the seed generator, the filters and the layout of pages, the explorer links.

## 6. Plan

1. *Done:* `SingleUse`, `KeyIndex`, `WalletSigning`, `RngSlot` and their proofs; `CoinSelection`; `WalletNode`.
2. *Done:* `WalletFile`, `GuiSession`, `AddressCodec`, `TxEncoding`, `Payment`; the proofs of
   `WalletFile`, `GuiSession`, `WalletNode` and `CoinSelection`.
3. *Done:* that `WalletNode` implements `KeyIndex`, and the safety properties of `WalletNode`,
   `WalletSigning` and `CoinSelection` that were only checked.
4. *Done:* that the walk over stored bytes ends at the lock time, for bytes of any length, and
   `OffersWhatWasSigned` from it; that a read of `Payment` inverts a write, field by field, and
   `NodeReadsWhatWasSigned` from it; that the two decoders agree.
5. `ListAddresses` as five reads, if a caller other than the GUI is added.
