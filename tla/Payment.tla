------------------------------ MODULE Payment ------------------------------
(***************************************************************************)
(* A payment from the text of an address to the bytes in the database: the *)
(* payee's address is copied into the destination field, with mistakes; it *)
(* is decoded, and so is the amount; inputs and outputs are chosen, signed *)
(* and serialized; the raw transaction is stored, and read again when the  *)
(* pending list is shown.  Which inputs are taken is CoinSelection's, what *)
(* becomes of the key WalletSigning's: here any choice is possible.        *)
(*                                                                         *)
(* The node, which reads the bytes and verifies the signatures, and the    *)
(* signer are external: a signature is known by the digest it was made of. *)
(***************************************************************************)
EXTENDS AddressCodec, TxEncoding

CONSTANTS
  Payees,      \* who is paid: what their address encodes and how, and what it pays
  Source,      \* the outputs that can be spent, as a sequence, from one address
  SourceKey,   \* its public key
  OwnProgram,  \* the program of the change address
  MaxMistakes, \* bound: mistakes in copying
  Places,      \* bound: where in the text they are made
  Typed,       \* bound: characters that are typed in place of others
  Decimals,    \* digits after the point: 8 in the code
  MaxInt64,    \* math.MaxInt64
  Amounts,     \* bound: amounts that are typed, as digits before and after a point
  Changes,     \* bound: amounts of a change output, 0 for none
  BadBytes     \* bound: bytes that a damaged byte can become

ASSUME PaymentAssumption ==
  /\ MaxMistakes \in Nat /\ Decimals \in Nat /\ MaxInt64 \in Nat
  /\ \A p \in Payees : /\ p.encoding \in {"base58", "wallet", "bech32", "bech32m"}
                       /\ p.program \in Seq(0 .. 255)
  /\ MaxInt64 < Far /\ Fits(MaxInt64, 8)
  /\ Source \in Seq([TxIDLE : Seq(0 .. 255), Vout : Nat, Amount : Nat]) /\ Len(Source) <= 65535
  /\ \A i \in DOMAIN Source : /\ Len(Source[i].TxIDLE) = 32
                             /\ Source[i].Vout < Far /\ Fits(Source[i].Vout, 4)
  /\ SourceKey \in Seq(0 .. 255) /\ Len(SourceKey) = SLHDSAPKLen
  /\ OwnProgram \in Seq(0 .. 255) /\ Len(OwnProgram) = AddressLength
  /\ Amounts \subseteq [whole : Seq(0 .. 9), frac : Seq(0 .. 9)]
  /\ Changes \subseteq 0 .. MaxInt64 /\ BadBytes \subseteq 0 .. 255

VARIABLES
  payee,    \* whose address is copied
  text,     \* what the destination field holds, or NoText
  mistakes, \* bound: how many were made
  read,     \* what the two decoders make of the text, or NotRead
  asked,    \* history: the amount that was typed for it
  tx,       \* the transaction that was confirmed, or NoTx
  digests,  \* what the key has signed, in order
  vsize,    \* the size its fee was planned for
  entry,    \* the pending entry: its txid and raw bytes
  damaged,  \* the stored bytes have changed
  offered   \* renderPending offers the entry to be tested and broadcast

copyVars == <<payee, text, mistakes>>
signVars == <<asked, tx, digests, vsize>>
storeVars == <<entry, damaged, offered>>
payVars == <<copyVars, read, signVars, storeVars>>

NoText == Text(<<>>)
NotRead == [dest |-> Refused, own |-> Refused]
NoTx == [Inputs |-> <<>>]
NoAmount == [whole |-> <<>>, frac |-> <<>>]
NoEntry == [TxID |-> NoTxID, Raw |-> <<>>]

NothingSigned ==
  /\ read = NotRead
  /\ asked = NoAmount /\ tx = NoTx /\ digests = <<>> /\ vsize = 0
  /\ entry = NoEntry /\ damaged = FALSE /\ offered = FALSE

PayInit ==
  /\ payee \in Payees
  /\ text = NoText /\ mistakes = 0
  /\ NothingSigned

-----------------------------------------------------------------------------
(* Copying the address *)

\* Another program can encode any version and program with either constant.
GivenText(p) ==
  CASE p.encoding = "base58"  -> LegacyText(p.version, p.program)
    [] p.encoding = "wallet"  -> Encode(p.program, p.net)
    [] p.encoding = "bech32"  -> EncodeGeneric(HRP[p.net], <<p.version>> \o ToSymbols(p.program), bech32Const)
    [] p.encoding = "bech32m" -> EncodeGeneric(HRP[p.net], <<p.version>> \o ToSymbols(p.program), bech32mConst)

CopyAddress ==
  /\ text = NoText /\ read = NotRead
  /\ text' = GivenText(payee)
  /\ UNCHANGED <<payee, mistakes, read, signVars, storeVars>>

Slips(s) ==
  LET at == Places \cap 1 .. Len(s)
  IN  {ReplaceAt(s, i, c) : i \in at, c \in Typed}
      \cup {InsertAt(s, i, c) : i \in at, c \in Typed}
      \cup {RemoveAt(s, i) : i \in at}
      \cup {ReplaceAt(ReplaceAt(s, i, s[i + 1]), i + 1, s[i]) : i \in at \ {Len(s)}}

\* A legacy text has no characters here: a slip makes it undecodable.
Slip ==
  /\ text # NoText
  /\ mistakes < MaxMistakes
  /\ mistakes' = mistakes + 1
  /\ \/ \E s \in Slips(text.chars) : text' = [text EXCEPT !.chars = s]
     \/ \E c \in {"upper", "mixed"} : text' = [text EXCEPT !.case = c]
     \/ text.legacy # NoLegacy /\ text' = [text EXCEPT !.legacy = NoLegacy]
  /\ UNCHANGED <<payee, read, signVars, storeVars>>

\* The destination field is read; the wallet's own decoder would make of the
\* text what "own" says. What both refuse is typed again; what is accepted is
\* not read again for this payment.
EnterDestination ==
  LET r == [dest |-> DecodeMainnetDestination(text), own |-> P2QPKScript(text)]
  IN  /\ text # NoText
      /\ read' = IF r.dest.ok \/ r.own.ok THEN r ELSE NotRead
      /\ text' = NoText /\ mistakes' = 0
      /\ UNCHANGED <<payee, signVars, storeVars>>

-----------------------------------------------------------------------------
(* The amount *)

Decimal(digits) == ValueOf(10, digits)
Int64(n) == IF n > MaxInt64 THEN n - 2 * (MaxInt64 + 1) ELSE n

Zeros(n) == [i \in 1 .. n |-> 0]
TenTo(n) == Decimal(<<1>> \o Zeros(n))

Padded(frac) == frac \o Zeros(Decimals - Len(frac))
Unit == TenTo(Decimals)

ASSUME UnitAssumption == Unit <= MaxInt64

\* QOGEToSatoshis: -1 stands for an error. The sum of the last line can exceed
\* an int64, which then is negative.
QOGEToSatoshis(t) ==
  IF Decimal(t.whole) > MaxInt64 \div Unit \/ Len(t.frac) > Decimals THEN -1
  ELSE Int64(Decimal(t.whole) * Unit + Decimal(Padded(t.frac)))

-----------------------------------------------------------------------------
(* Signing and storing *)

ChangeScript == P2QPKScript(Encode(OwnProgram, "Mainnet")).script
SourceScript == <<82, 32>> \o OwnProgram

Spend(coins, outputs) ==
  [NVersion |-> 2, NLockTime |-> 0,
   Inputs |-> [i \in DOMAIN coins |->
     [TxIDLE |-> coins[i].TxIDLE, Vout |-> coins[i].Vout, NSequence |-> <<255, 255, 255, 255>>]],
   SpentUTXOs |-> [i \in DOMAIN coins |->
     [Amount |-> coins[i].Amount, Script |-> SourceScript]],
   Outputs |-> outputs]

\* Mutant: every input is signed with the digest of the first.
Sighashes_FirstIndex(t) == [i \in DOMAIN t.Inputs |-> ComputeP2QPKSighash(t, 1)]

\* Every input is signed under its own index.
Sighashes(t) == [i \in DOMAIN t.Inputs |-> ComputeP2QPKSighash(t, i)]

\* The signature of the k-th digest, and the witnesses of n inputs.
Signature(k) == [j \in 1 .. SLHDSASigLen |-> k]
Signed(n) == [i \in 1 .. n |-> [Sig |-> Signature(i), PubKey |-> SourceKey]]

\* An amount that is not positive is refused. The signed bytes are stored if
\* the identifier they give is the one that is tracked; a change output must be
\* the only one with its script.
SignAndStore(n, amount, change) ==
  LET there   == [Amount |-> QOGEToSatoshis(amount), Script |-> read.dest.script]
      back    == [Amount |-> change, Script |-> ChangeScript]
      outputs == IF change = 0 THEN <<there>> ELSE <<there, back>>
      t       == Spend(SubSeq(Source, 1, n), outputs)
      raw     == SerializeBIP144(t, Signed(n))
  IN  /\ read.dest.ok /\ tx = NoTx
      /\ there.Amount > 0
      /\ change # 0 => there.Script # back.Script
      /\ CanSerialize(t, Signed(n))
      /\ TxIDFromBIP144(raw) = P2qpkTxID(t)
      /\ asked' = amount /\ tx' = t
      /\ digests' = Sighashes(t)
      /\ vsize' = P2QPKVirtualSize(n, outputs)
      /\ entry' = [TxID |-> P2qpkTxID(t), Raw |-> raw]
      /\ UNCHANGED <<copyVars, read, damaged, offered>>

\* A stored byte changes, is lost or is added, or the end is lost.
Damage ==
  /\ tx # NoTx /\ ~damaged
  /\ damaged' = TRUE
  /\ \E i \in 1 .. Len(entry.Raw) :
       \/ entry' = [entry EXCEPT !.Raw = SubSeq(@, 1, i - 1)]
       \/ entry' = [entry EXCEPT !.Raw = RemoveAt(@, i)]
       \/ \E b \in BadBytes : entry' = [entry EXCEPT !.Raw = ReplaceAt(@, i, b)]
       \/ \E b \in BadBytes : entry' = [entry EXCEPT !.Raw = InsertAt(@, i, b)]
  /\ offered' = FALSE
  /\ UNCHANGED <<copyVars, read, signVars>>

\* The entry is offered if its bytes give its identifier.
RenderPending ==
  /\ tx # NoTx
  /\ offered' = (TxIDFromBIP144(entry.Raw) = entry.TxID)
  /\ UNCHANGED <<copyVars, read, signVars, entry, damaged>>

\* The next payment.
Restart ==
  /\ read # NotRead
  /\ read' = NotRead
  /\ asked' = NoAmount /\ tx' = NoTx /\ digests' = <<>> /\ vsize' = 0
  /\ entry' = NoEntry /\ damaged' = FALSE /\ offered' = FALSE
  /\ UNCHANGED copyVars

PayNext ==
  \/ CopyAddress \/ Slip \/ EnterDestination
  \/ \E n \in DOMAIN Source, amount \in Amounts, change \in Changes : SignAndStore(n, amount, change)
  \/ Damage \/ RenderPending \/ Restart

PaySpec == PayInit /\ [][PayNext]_payVars

-----------------------------------------------------------------------------
(* The node: how it reads a raw transaction (BIP144) and what it verifies   *)

\* What is read, "got", and where the reading has come, "at".
Take(raw, at, n)    == [at |-> at + n, got |-> SubSeq(raw, at + 1, at + n)]
ReadNumber(raw, at, n)  == LittleEndian(Take(raw, at, n).got)
ReadSized(raw, at)  == LET length == ReadCompact(raw, at, Len(raw))
                       IN  Take(raw, length.at, length.value)

ReadInput(raw, at) ==
  LET script == ReadSized(raw, at + 36)
  IN  [at |-> script.at + 4,
       got |-> [TxIDLE |-> Take(raw, at, 32).got, Vout |-> ReadNumber(raw, at + 32, 4),
                NSequence |-> Take(raw, script.at, 4).got]]

ReadOutput(raw, at) ==
  LET script == ReadSized(raw, at + 8)
  IN  [at |-> script.at, got |-> [Amount |-> ReadNumber(raw, at, 8), Script |-> script.got]]

ReadEach(n, at, reader) ==
  LET upTo[i \in 0 .. n] ==
        IF i = 0 THEN [at |-> at, got |-> <<>>]
        ELSE LET prev == upTo[i - 1]
                 next == reader[prev.at]
             IN  [at |-> next.at, got |-> Append(prev.got, next.got)]
  IN  upTo[n]

ReadStack(raw, at) ==
  LET count == ReadCompact(raw, at, Len(raw))
  IN  ReadEach(count.value, count.at, [a \in 0 .. Len(raw) |-> ReadSized(raw, a)])

NodeReads(raw) ==
  LET cursors   == 0 .. Len(raw)
      ins       == ReadCompact(raw, 6, Len(raw))
      inputs    == ReadEach(ins.value, ins.at, [at \in cursors |-> ReadInput(raw, at)])
      outs      == ReadCompact(raw, inputs.at, Len(raw))
      outputs   == ReadEach(outs.value, outs.at, [at \in cursors |-> ReadOutput(raw, at)])
      witnesses == ReadEach(ins.value, outputs.at, [at \in cursors |-> ReadStack(raw, at)])
  IN  [NVersion |-> ReadNumber(raw, 0, 4), Inputs |-> inputs.got, Outputs |-> outputs.got,
       Witnesses |-> witnesses.got, NLockTime |-> ReadNumber(raw, witnesses.at, 4),
       Size |-> witnesses.at + 4]

\* BIP141: three quarters of the bytes of a witness are free.
NodeVSize(raw, t) == (3 * Len(P2qpkTxID(t)) + Len(raw) + 3) \div 4

-----------------------------------------------------------------------------
(* Properties *)

\* Whatever was mistyped, the destination that is accepted is the one that was
\* given (the checksum, its binding to the version and the lengths: BIP350),
\* and the two decoders, which were written separately, agree on which texts
\* are mainnet P2QPK addresses and on their script.
PaysWhatWasShown ==
  read # NotRead =>
    /\ read.dest.ok => read.dest = payee.pays
    /\ read.dest.type = "P2QPK" => read.own = read.dest
    /\ read.own.ok => read.dest = read.own \/ payee.net = "Testnet"

\* A node that is given the stored bytes reads the transaction that was
\* confirmed, which pays the amount that was typed; each signature is one of
\* the digest that the node computes for its input, and the transaction has the
\* size its fee was planned for.
NodeReadsWhatWasSigned ==
  tx # NoTx /\ ~damaged => \A seen \in {NodeReads(entry.Raw)} :
    LET known == [NVersion |-> seen.NVersion, NLockTime |-> seen.NLockTime, Inputs |-> seen.Inputs,
                  SpentUTXOs |-> tx.SpentUTXOs, Outputs |-> seen.Outputs]
    IN  /\ seen.Size = Len(entry.Raw)
        /\ seen.Inputs = tx.Inputs /\ seen.Outputs = tx.Outputs
        /\ seen.Outputs[1].Amount * TenTo(Len(asked.frac)) = Decimal(asked.whole \o asked.frac) * Unit
        /\ seen.NVersion = tx.NVersion /\ seen.NLockTime = tx.NLockTime
        /\ Len(seen.Witnesses) = Len(tx.Inputs)
        /\ \A i \in DOMAIN tx.Inputs :
             /\ Len(seen.Witnesses[i]) = 2
             /\ seen.Witnesses[i][2] = SourceKey
             /\ Len(seen.Witnesses[i][1]) = SLHDSASigLen
             /\ digests[seen.Witnesses[i][1][1]] = ComputeP2QPKSighash(known, i)
        /\ vsize = NodeVSize(entry.Raw, tx)

\* Stored bytes that are offered for broadcast are those that were signed, but
\* for the witnesses, which the node verifies: neither the marker nor a field
\* of the transaction has changed.
OffersWhatWasSigned ==
  offered =>
    LET signedLen == Len(entry.TxID) - 4   \* of version, inputs and outputs
    IN  /\ SubSeq(entry.Raw, 1, signedLen + 2)
             = SubSeq(entry.TxID, 1, 4) \o <<0, 1>> \o SubSeq(entry.TxID, 5, signedLen)
        /\ IsSuffix(SubSeq(entry.TxID, signedLen + 1, signedLen + 4), entry.Raw)
=============================================================================
