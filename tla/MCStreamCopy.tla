---------------------------- MODULE MCStreamCopy ----------------------------
(* Small instances of StreamCopy for TLC.                                   *)
EXTENDS StreamCopy, TLC
=============================================================================
