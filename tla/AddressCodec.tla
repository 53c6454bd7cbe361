---------------------------- MODULE AddressCodec ----------------------------
(***************************************************************************)
(* Package address: the text of an address, its checksum, and the two      *)
(* decoders, of the wallet's own addresses (decode) and of a destination   *)
(* (DecodeMainnetDestination).  The real code and generator are used, so   *)
(* that what the checksum detects is what it detects.                      *)
(*                                                                         *)
(* A text is its characters, without their case, and the case of its       *)
(* letters: the code compares the text with its lower and its upper form.  *)
(* Base58Check and ConvertBits are btcutil's, external: an intact Base58   *)
(* text is known by what it decodes to, and a changed one is not decoded.  *)
(***************************************************************************)
EXTENDS Integers, Sequences, FiniteSetsExt, SequencesExt

Charset == <<"q", "p", "z", "r", "y", "9", "x", "8", "g", "f", "2", "t", "v", "d", "w", "0",
             "s", "3", "j", "n", "5", "4", "k", "h", "c", "e", "6", "m", "u", "a", "7", "l">>
CharsetRev == [c \in Range(Charset) |-> (CHOOSE i \in 1 .. 32 : Charset[i] = c) - 1]

\* The byte of a character.
Digits  == <<"0", "1", "2", "3", "4", "5", "6", "7", "8", "9">>
Letters == <<"a", "b", "c", "d", "e", "f", "g", "h", "i", "j", "k", "l", "m",
             "n", "o", "p", "q", "r", "s", "t", "u", "v", "w", "x", "y", "z">>
Byte == [c \in Range(Digits) \cup Range(Letters) \cup {" "} |->
          IF c = " " THEN 32
          ELSE IF c \in Range(Digits) THEN 47 + CHOOSE i \in 1 .. 10 : Digits[i] = c
          ELSE 96 + CHOOSE i \in 1 .. 26 : Letters[i] = c]

NoLegacy == [version |-> -1, payload |-> <<>>]
Text(chars) == [chars |-> chars, case |-> "lower", legacy |-> NoLegacy]
LegacyText(version, payload) ==
  [chars |-> <<>>, case |-> "mixed", legacy |-> [version |-> version, payload |-> payload]]

HRP == [Mainnet |-> <<"b", "q">>, Testnet |-> <<"b", "q", "t">>]
WitnessVersion == 2
AddressLength == 32

-----------------------------------------------------------------------------
(* The checksum: numbers of 5 and 30 bits as the sets of their bits *)

Bits(symbol) == {i \in 0 .. 4 : (symbol \div 2^i) % 2 = 1}
Number(bits) == MapThenSumSet(LAMBDA i : 2^i, bits)

\* 1 and 0x2bc830a3; the generators are 0x3b6a57b2, 0x26508e6d, 0x1ea119fa,
\* 0x3d4233dd and 0x2a1462b3.
bech32Const  == {0}
bech32mConst == {0, 1, 5, 7, 12, 13, 19, 22, 23, 24, 25, 27, 29}
Generator ==
  <<{1, 4, 5, 7, 8, 9, 10, 12, 14, 17, 19, 21, 22, 24, 25, 27, 28, 29},
    {0, 2, 3, 5, 6, 9, 10, 11, 15, 20, 22, 25, 26, 29},
    {1, 3, 4, 5, 6, 7, 8, 11, 12, 16, 21, 23, 25, 26, 27, 28},
    {0, 2, 3, 4, 6, 7, 8, 9, 12, 13, 17, 22, 24, 26, 27, 28, 29},
    {0, 1, 4, 5, 7, 9, 13, 14, 18, 20, 25, 27, 29}>>

Checksum == SUBSET (0 .. 29)

\* Mutant: the loop over the generators ends one early.
PolymodStep_FourGenerators(chk, v) ==
  LET add[i \in 1 .. 5, c \in Checksum] ==
        IF i = 5 THEN c ELSE add[i + 1, IF 24 + i \in chk THEN SymDiff(c, Generator[i]) ELSE c]
  IN  add[1, SymDiff({i + 5 : i \in chk \cap 0 .. 24}, Bits(v))]

\* One value: the 25 low bits move up, v comes in, and each of the 5 bits that
\* go out adds its generator.
PolymodStep(chk, v) ==
  LET add[i \in 1 .. 6, c \in Checksum] ==
        IF i = 6 THEN c ELSE add[i + 1, IF 24 + i \in chk THEN SymDiff(c, Generator[i]) ELSE c]
  IN  add[1, SymDiff({i + 5 : i \in chk \cap 0 .. 24}, Bits(v))]

Polymod(values) ==
  LET from[i \in 1 .. Len(values) + 1, chk \in Checksum] ==
        IF i > Len(values) THEN chk ELSE from[i + 1, PolymodStep(chk, values[i])]
  IN  from[1, {0}]

HrpExpand(hrp) == [i \in 1 .. Len(hrp) |-> Byte[hrp[i]] \div 32] \o <<0>>
               \o [i \in 1 .. Len(hrp) |-> Byte[hrp[i]] % 32]

CreateChecksum(hrp, data, constant) ==
  LET pm == SymDiff(Polymod(HrpExpand(hrp) \o data \o <<0, 0, 0, 0, 0, 0>>), constant)
  IN  [i \in 1 .. 6 |-> Number({b \in 0 .. 4 : b + 5 * (6 - i) \in pm})]

EncodeGeneric(hrp, data, constant) ==
  LET combined == data \o CreateChecksum(hrp, data, constant)
  IN  Text(hrp \o <<"1">> \o [i \in 1 .. Len(combined) |-> Charset[combined[i] + 1]])

\* "ok" is FALSE for every error.
Malformed == [ok |-> FALSE, hrp |-> <<>>, data |-> <<>>, constant |-> {}]

DecodeGeneric(text) ==
  LET s   == text.chars
      seps == {i \in 1 .. Len(s) : s[i] = "1"}
      sep == IF seps = {} THEN 0 ELSE Max(seps)
      hrp == SubSeq(s, 1, sep - 1)
      part == SubSeq(s, sep + 1, Len(s))
      values == [i \in 1 .. Len(part) |-> CharsetRev[part[i]]]
      constant == Polymod(HrpExpand(hrp) \o values)
  IN  IF /\ Len(s) \in 8 .. 90
         /\ text.case # "mixed"
         /\ sep >= 2 /\ sep + 6 <= Len(s)
         /\ " " \notin Range(hrp)
         /\ Range(part) \subseteq Range(Charset)
         /\ constant \in {bech32Const, bech32mConst}
      THEN [ok |-> TRUE, hrp |-> hrp, data |-> SubSeq(values, 1, Len(values) - 6),
            constant |-> constant]
      ELSE Malformed

-----------------------------------------------------------------------------
(* ConvertBits of btcutil's bech32: a sequence of 5-bit or 8-bit values in  *)
(* the other width, padded with zeros or, without padding, refused when     *)
(* more than 4 bits, or a 1, are left over.                                 *)

ValueOf(base, digits) ==
  LET upTo[k \in 0 .. Len(digits)] == IF k = 0 THEN 0 ELSE base * upTo[k - 1] + digits[k]
  IN  upTo[Len(digits)]

Bit(values, from, i) ==
  IF (values[i \div from + 1] \div 2^(from - 1 - (i % from))) % 2 = 1 THEN 1 ELSE 0

Regroup(values, from, to, n) ==
  LET bit(i) == IF i < from * Len(values) THEN Bit(values, from, i) ELSE 0
  IN  [j \in 1 .. n |-> ValueOf(2, [k \in 1 .. to |-> bit(to * (j - 1) + k - 1)])]

Ceil(a, b) == (a + b - 1) \div b
ToSymbols(bytes) == Regroup(bytes, 8, 5, Ceil(8 * Len(bytes), 5))
ToBytes(symbols) == Regroup(symbols, 5, 8, (5 * Len(symbols)) \div 8)
HasBytes(symbols) ==
  LET bits == 5 * Len(symbols)
  IN  /\ bits % 8 <= 4
      /\ \A i \in bits - (bits % 8) .. bits - 1 : Bit(symbols, 5, i) = 0

-----------------------------------------------------------------------------
(* Addresses *)

ConstantForWitnessVersion(witver) == IF witver = 0 THEN bech32Const ELSE bech32mConst

Encode(hash, net) ==
  EncodeGeneric(HRP[net], <<WitnessVersion>> \o ToSymbols(hash),
                ConstantForWitnessVersion(WitnessVersion))

Refused == [ok |-> FALSE, type |-> "", script |-> <<>>]
Accepted(type, script) == [ok |-> TRUE, type |-> type, script |-> script]

WitnessScript(witver, program) ==
  <<IF witver = 0 THEN 0 ELSE 80 + witver, Len(program)>> \o program

\* A QOGE address of either network, and its 32-byte program.
Decode(text) ==
  LET d == DecodeGeneric(text)
      program == ToBytes(Tail(d.data))
  IN  IF /\ d.ok
         /\ d.hrp \in Range(HRP)
         /\ d.data # <<>>
         /\ d.constant = ConstantForWitnessVersion(d.data[1])
         /\ d.data[1] = WitnessVersion
         /\ HasBytes(Tail(d.data))
         /\ Len(program) = AddressLength
      THEN Accepted("P2QPK", program) ELSE Refused

P2QPKScript(text) ==
  LET hash == Decode(text)
  IN  IF hash.ok THEN Accepted("P2QPK", <<82, 32>> \o hash.script) ELSE Refused

LegacyDestination(version, payload) ==
  IF Len(payload) # 20 THEN Refused
  ELSE IF version = 120 THEN Accepted("P2PKH", <<118, 169, 20>> \o payload \o <<136, 172>>)
  ELSE IF version = 102 THEN Accepted("P2SH", <<169, 20>> \o payload \o <<135>>)
  ELSE Refused

\* "" stands for the default case.
DestinationType(witver, length) ==
  CASE witver = 0 /\ length = 20 -> "P2WPKH"
    [] witver = 0 /\ length = 32 -> "P2WSH"
    [] witver = 1 /\ length = 32 -> "P2TR"
    [] witver = WitnessVersion /\ length = AddressLength -> "P2QPK"
    [] OTHER -> ""

SegwitDestination(text) ==
  LET d == DecodeGeneric(text)
      program == ToBytes(Tail(d.data))
      type == DestinationType(d.data[1], Len(program))
  IN  IF /\ d.ok
         /\ d.hrp = HRP.Mainnet
         /\ d.data # <<>>
         /\ d.data[1] <= 16
         /\ d.constant = ConstantForWitnessVersion(d.data[1])
         /\ HasBytes(Tail(d.data))
         /\ type # ""
      THEN Accepted(type, WitnessScript(d.data[1], program))
      ELSE Refused

DecodeMainnetDestination(text) ==
  LET s == text.chars
  IN  IF text.legacy # NoLegacy
      THEN LegacyDestination(text.legacy.version, text.legacy.payload)
      ELSE IF s = <<>> \/ s[1] = " " \/ s[Len(s)] = " " THEN Refused
      ELSE SegwitDestination(text)
=============================================================================
