---------------------------- MODULE MCUDPScanner ----------------------------
(* Small instances of UDPScanner for TLC.                                   *)
EXTENDS UDPScanner, TLC
=============================================================================
