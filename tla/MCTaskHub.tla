----------------------------- MODULE MCTaskHub -----------------------------
(* Small instances of TaskHub for TLC.                                      *)
EXTENDS TaskHub, TLC
=============================================================================
