----------------------------- MODULE MCPayment -----------------------------
(* Addresses of every form, and of forms that are to be refused.  The first *)
(* is the mainnet address of txbuilder_test.go:594.                         *)
EXTENDS Payment, TLC

Program == <<40, 185, 125, 207, 253, 93, 105, 43, 28, 145, 13, 96, 110, 133, 98, 125,
             158, 117, 78, 4, 58, 132, 174, 246, 137, 141, 139, 194, 227, 187, 15, 124>>
Hash20 == SubSeq(Program, 1, 20)

Payee(encoding, version, program, pays) ==
  [net |-> "Mainnet", encoding |-> encoding, version |-> version, program |-> program, pays |-> pays]
Pays(type, opcode, program) == Accepted(type, <<opcode, Len(program)>> \o program)

MCPayees == {
  Payee("wallet", 2, Program, Pays("P2QPK", 82, Program)),
  [Payee("wallet", 2, Program, Refused) EXCEPT !.net = "Testnet"],
  Payee("bech32", 2, Program, Refused),
  Payee("bech32m", 2, Hash20, Refused),
  Payee("bech32", 0, Hash20, Pays("P2WPKH", 0, Hash20)),
  Payee("bech32", 0, Program, Pays("P2WSH", 0, Program)),
  Payee("bech32m", 0, Program, Refused),
  Payee("bech32m", 1, Program, Pays("P2TR", 81, Program)),
  Payee("base58", 120, Hash20, Accepted("P2PKH", <<118, 169, 20>> \o Hash20 \o <<136, 172>>)),
  Payee("base58", 102, Hash20, Accepted("P2SH", <<169, 20>> \o Hash20 \o <<135>>)),
  Payee("base58", 0, Hash20, Refused)}

MCSource == [i \in 1 .. 2 |-> [TxIDLE |-> [j \in 1 .. 32 |-> 16 * i + j], Vout |-> 255 + i,
                               Amount |-> 70000 * i]]
MCSourceKey == [j \in 1 .. 32 |-> 200 - j]
\* 150.5; 0; .005; 327.99, which does not fit; 328.
MCAmounts == {[whole |-> <<1, 5, 0>>, frac |-> <<5>>], [whole |-> <<>>, frac |-> <<>>],
              [whole |-> <<>>, frac |-> <<0, 0, 5>>], [whole |-> <<3, 2, 7>>, frac |-> <<9, 9>>],
              [whole |-> <<3, 2, 8>>, frac |-> <<>>]}
MCOwnProgram == [j \in 1 .. 32 |-> 100 + j]
============================================================================
