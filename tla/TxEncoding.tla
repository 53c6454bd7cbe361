----------------------------- MODULE TxEncoding -----------------------------
(***************************************************************************)
(* The four places that know the bytes of a transaction, each written by   *)
(* itself: SerializeBIP144, TxIDFromBIP144 and P2QPKVirtualSize of package *)
(* txbuilder, p2qpkTxID and computeP2QPKSighash of package wallet.         *)
(*                                                                         *)
(* Every width is the code's, but for the signature, which is as long as a *)
(* constant says.  A hash is the bytes it is the hash of.                  *)
(***************************************************************************)
EXTENDS Integers, Sequences, FiniteSetsExt, SequencesExt

CONSTANTS
  SLHDSASigLen, \* bytes of a signature: 17088 in the code
  SLHDSAPKLen,  \* and of a public key: 32
  Far           \* bound: from here on, numbers that are read are not told apart

ASSUME LengthAssumption ==
  /\ SLHDSASigLen \in Nat \ {0} /\ SLHDSASigLen <= 65535
  /\ SLHDSAPKLen \in Nat \ {0} /\ SLHDSAPKLen <= 65535
  /\ Far \in Nat /\ Far > 65535

\* A transaction is a record of NVersion, NLockTime, Inputs, SpentUTXOs (in the
\* order of the inputs) and Outputs: P2QPKSpendParams.  An input's TxIDLE and
\* NSequence are bytes.

\* v without its lowest 0 to n bytes.
Shifts(v, n) ==
  LET shift[i \in 0 .. n] == IF i = 0 THEN v ELSE shift[i - 1] \div 256
  IN  shift
Fits(v, n) == Shifts(v, n)[n] = 0

LE(v, n) == LET shift == Shifts(v, n) IN [i \in 1 .. n |-> shift[i - 1] % 256]

\* Nothing here is longer than 65535.
CompactSize(v) == IF v < 253 THEN <<v>> ELSE <<253>> \o LE(v, 2)

Each(seq, Field(_)) == FlattenSeq([i \in 1 .. Len(seq) |-> Field(seq[i])])

-----------------------------------------------------------------------------
(* Serialization *)

InputBytes(in) == in.TxIDLE \o LE(in.Vout, 4) \o CompactSize(0) \o in.NSequence
OutputBytes(out) == LE(out.Amount, 8) \o CompactSize(Len(out.Script)) \o out.Script
Item(bytes) == CompactSize(Len(bytes)) \o bytes

WitnessBytes(w) == CompactSize(2) \o Item(w.Sig) \o Item(w.PubKey)

CanSerialize(tx, witnesses) ==
  /\ tx.Inputs # <<>> /\ tx.Outputs # <<>>
  /\ Len(witnesses) = Len(tx.Inputs)
  /\ \A w \in Range(witnesses) : Len(w.Sig) = SLHDSASigLen /\ Len(w.PubKey) = SLHDSAPKLen
  /\ \A out \in Range(tx.Outputs) : out.Amount >= 0

SerializeBIP144(tx, witnesses) ==
  LE(tx.NVersion, 4) \o <<0, 1>>
  \o CompactSize(Len(tx.Inputs)) \o Each(tx.Inputs, InputBytes)
  \o CompactSize(Len(tx.Outputs)) \o Each(tx.Outputs, OutputBytes)
  \o Each(witnesses, WitnessBytes)
  \o LE(tx.NLockTime, 4)

\* The identifier is the hash of everything but marker, flag and witnesses.
P2qpkTxID(tx) ==
  LE(tx.NVersion, 4)
  \o CompactSize(Len(tx.Inputs)) \o Each(tx.Inputs, InputBytes)
  \o CompactSize(Len(tx.Outputs)) \o Each(tx.Outputs, OutputBytes)
  \o LE(tx.NLockTime, 4)

\* Hashes of the parts, in a sequence of their own: a hash has 32 bytes.
ComputeP2QPKSighash(tx, index) ==
  << <<0, 1>> \o LE(tx.NVersion, 4) \o LE(tx.NLockTime, 4),
     Each(tx.Inputs, LAMBDA in : in.TxIDLE \o LE(in.Vout, 4)),
     Each(tx.SpentUTXOs, LAMBDA u : LE(u.Amount, 8)),
     Each(tx.SpentUTXOs, LAMBDA u : Item(u.Script)),
     Each(tx.Inputs, LAMBDA in : in.NSequence),
     Each(tx.Outputs, OutputBytes),
     LE(index - 1, 4) >>

CompactSizeLen(n) == IF n < 253 THEN 1 ELSE 3

P2QPKVirtualSize(n, outputs) ==
  LET OutputLen(out) == 8 + CompactSizeLen(Len(out.Script)) + Len(out.Script)
      upTo[i \in 0 .. Len(outputs)] == IF i = 0 THEN 0 ELSE upTo[i - 1] + OutputLen(outputs[i])
      stripped == 4 + CompactSizeLen(n) + 41 * n + CompactSizeLen(Len(outputs)) + 4
                  + upTo[Len(outputs)]
      witness  == 2 + n * (1 + CompactSizeLen(SLHDSASigLen) + SLHDSASigLen
                             + CompactSizeLen(SLHDSAPKLen) + SLHDSAPKLen)
  IN  (4 * stripped + witness + 3) \div 4

-----------------------------------------------------------------------------
(* Reading bytes back.  A cursor is the number of bytes read, or Truncated;  *)
(* reading stops at "end".                                                   *)

Truncated == -1
NoTxID == <<>>

\* From the highest byte.  More bytes than Far there never are.
LittleEndian(bytes) ==
  LET upTo[k \in 0 .. Len(bytes)] ==
        IF k = 0 THEN 0
        ELSE LET v == 256 * upTo[k - 1] + bytes[Len(bytes) + 1 - k] IN IF v < Far THEN v ELSE Far
  IN  upTo[Len(bytes)]

CompactWidth(prefix) ==
  CASE prefix = 253 -> 2 [] prefix = 254 -> 4 [] prefix = 255 -> 8 [] OTHER -> 0

ReadCompact(raw, at, end) ==
  IF at = Truncated \/ at >= end \/ end - at - 1 < CompactWidth(raw[at + 1])
  THEN [value |-> 0, at |-> Truncated]
  ELSE LET width == CompactWidth(raw[at + 1])
       IN  [value |-> IF width = 0 THEN raw[at + 1]
                      ELSE LittleEndian(SubSeq(raw, at + 2, at + 1 + width)),
            at |-> at + 1 + width]

Skip(at, length, end) == IF at = Truncated \/ length > end - at THEN Truncated ELSE at + length

\* n steps; each needs a byte at least, and a truncated one is the last.
Steps(n, start, end, step) ==
  LET after[i \in 0 .. n] == IF i = 0 THEN start ELSE step[after[i - 1]]
  IN  IF start = Truncated \/ n > end - start THEN Truncated ELSE after[n]

\* Mutant: marker and flag are not looked at.
HasMarker_Any(raw) == Len(raw) >= 12

HasMarker(raw) == Len(raw) >= 12 /\ raw[5] = 0 /\ raw[6] = 1

\* TxIDFromBIP144: walk over the fields; where the walk ends at the lock time,
\* the identifier is that of the bytes without marker, flag and witnesses.
TxIDFromBIP144(raw) ==
  LET end == Len(raw) - 4
      Compact(at)    == ReadCompact(raw, at, end)
      Over(at, n)    == Skip(at, n, end)
      Sized(at)      == Over(Compact(at).at, Compact(at).value)
      cursors        == Truncated .. end
      input          == [at \in cursors |-> Over(Sized(Over(at, 36)), 4)]
      output         == [at \in cursors |-> Sized(Over(at, 8))]
      item           == [at \in cursors |-> Sized(at)]
      stack          == [at \in cursors |-> Steps(Compact(at).value, Compact(at).at, end, item)]
      inputs         == Compact(6)
      outputs        == Compact(Steps(inputs.value, inputs.at, end, input))
      witnessStart   == Steps(outputs.value, outputs.at, end, output)
  IN  IF /\ HasMarker(raw)
         /\ inputs.value > 0 /\ outputs.value > 0
         /\ Steps(inputs.value, witnessStart, end, stack) = end
      THEN SubSeq(raw, 1, 4) \o SubSeq(raw, 7, witnessStart) \o SubSeq(raw, end + 1, Len(raw))
      ELSE NoTxID
=============================================================================
