---------------------------- MODULE MC_NfcTagRf ----------------------------
(* Model-checking instance of NfcTagRf: two calls, the tag may leave and   *)
(* come back, and NFA calls may fail.                                     *)
EXTENDS NfcTagRf

MC_MaxOps == 2
MC_MaxFieldChanges == 2
=============================================================================
