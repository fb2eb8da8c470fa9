------------------------------ MODULE UDPSearch ------------------------------
(***************************************************************************)
(* What a UDPBroadcastDiscovery shows its client: one search at a time,    *)
(* which is made, begins, ends and is cleared away, and the report of its  *)
(* end, which comes behind that and so perhaps behind the start of the     *)
(* next search.  It can go wrong in three ways: a search cannot be made, a *)
(* search dies, or two callers make a search at once.                      *)
(***************************************************************************)
EXTENDS Naturals

VARIABLES
  phase,     \* "off", or where the search is
  pending,   \* searches that are cleared away and not reported
  hurried    \* the search was started while another one was not reported

searchVars == <<phase, pending, hurried>>

Phases == {"off", "making", "starting", "searching", "ending", "dead", "clashed"}

SearchInit == phase = "off" /\ pending = 0 /\ hurried = FALSE

Move(from, to) == phase = from /\ phase' = to /\ UNCHANGED <<pending, hurried>>

(* startDiscovery: its test is passed, and mSenderThread assigned.          *)
SearchStart == phase = "off" /\ phase' = "making" /\ hurried' = (pending > 0) /\ UNCHANGED pending
SearchAssign == Move("making", "starting")

(* startDiscovery throws SocketException.                                   *)
SearchFail == Move("making", "off")

(* A second caller passes the test: nothing is said of what follows.        *)
SearchClash == phase = "making" /\ phase' = "clashed" /\ pending' = 0 /\ hurried' = FALSE

(* isDiscovering becomes true, and false                                    *)
SearchBegin == Move("starting", "searching")
SearchEnd == Move("searching", "ending")

(* startDiscovery is possible again                                         *)
SearchClear == phase = "ending" /\ phase' = "off" /\ pending' = pending + 1 /\ UNCHANGED hurried

(* The sender thread dies and leaves mSenderThread set: startDiscovery      *)
(* throws for ever.                                                         *)
SearchDie == hurried /\ (Move("searching", "dead") \/ Move("ending", "dead"))

(* onDiscoveryFinished                                                      *)
SearchReport == pending > 0 /\ pending' = pending - 1 /\ UNCHANGED <<phase, hurried>>

SearchNext ==
  \/ SearchStart \/ SearchAssign \/ SearchFail \/ SearchClash
  \/ SearchBegin \/ SearchEnd \/ SearchClear \/ SearchDie \/ SearchReport

SearchSpec == SearchInit /\ [][SearchNext]_searchVars
=============================================================================
