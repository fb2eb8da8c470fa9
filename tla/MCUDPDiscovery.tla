--------------------------- MODULE MCUDPDiscovery ---------------------------
(* Small instances of UDPDiscovery for TLC.                                 *)
EXTENDS UDPDiscovery, TLC

(* Bound: a clash of two callers is reached and not followed further, since *)
(* every property holds behind it by its own words.                         *)
UpToTheClash == ~clashed
=============================================================================
