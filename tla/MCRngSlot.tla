----------------------------- MODULE MCRngSlot -----------------------------
(* Two threads, two seeds, at most two draws for a key or a signature.        *)
EXTENDS RngSlot
=============================================================================
