----------------------------- MODULE MCSettings -----------------------------
(* TLC instances of Settings.                                              *)
EXTENDS Settings
=============================================================================
