---- MODULE MCWalletFile ----
EXTENDS WalletFile, TLC
CONSTANTS gui, cli, s1, s2, f1, f2
MCProcess == {gui, cli}
MCSeed == {s1, s2}
MCFile == {f1, f2}
====
