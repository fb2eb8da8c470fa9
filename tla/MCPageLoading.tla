---------------------------- MODULE MCPageLoading ----------------------------
(* Small instances of PageLoading for TLC.                                  *)
EXTENDS PageLoading, TLC
=============================================================================
