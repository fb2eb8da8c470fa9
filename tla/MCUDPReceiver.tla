--------------------------- MODULE MCUDPReceiver ---------------------------
(* Small instances of UDPReceiver for TLC.                                  *)
EXTENDS UDPReceiver, TLC
=============================================================================
