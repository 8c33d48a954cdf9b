----------------------------- MODULE MCRunGate -----------------------------
(* Small instances of RunGate for TLC.                                      *)
EXTENDS RunGate, TLC
=============================================================================
