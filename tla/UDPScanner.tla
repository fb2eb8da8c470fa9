----------------------------- MODULE UDPScanner -----------------------------
(***************************************************************************)
(* UDPScannerLoader: it starts a search when it is started, lists the      *)
(* devices it hears with a time to live, counted in searches, and starts   *)
(* the next search from a timer.  The discovery is the UDPSearch that      *)
(* UDPDiscovery is shown to implement.  Its callbacks come from the threads*)
(* of the search, every timer has a thread of its own, and the loader is   *)
(* started and stopped by the main thread: restartDiscovery runs on any of *)
(* them.  Behind a clash in startDiscovery the search is not followed.     *)
(***************************************************************************)
EXTENDS UDPSearch, Integers, FiniteSets

CONSTANTS
  Devices,
  MaxTTL,      \* MAX_TTL
  MaxStarts    \* bound: number of times the loader is started

ASSUME ScannerAssumption == MaxTTL \in Nat /\ MaxStarts \in Nat

VARIABLES
  started,      \* isStarted()
  starts,       \* number of times the loader was started
  timers,       \* the timers that are set
  mTimer,       \* the last of them, or NoTimer
  restarting,   \* the threads in restartDiscovery, behind its first half
  maker,        \* the one of them that makes a search, or NoTimer
  lost,         \* history: the last search to be made could not be
  scheduling,   \* reports that have found the loader started
  ttl,          \* mDeviceList and mDeviceTTL: the TTL of a device, or Absent
  silence       \* reports since a device was last heard

scannerVars == <<started, starts, timers, mTimer, restarting, maker, lost, scheduling, ttl, silence>>
lists == <<ttl, silence>>
loaderVars == <<searchVars, scannerVars>>

NoTimer == 0
Absent == -1

(* Every start brings one timer at most, or the search it comes from.       *)
TimerIds == 1 .. MaxStarts
Main == MaxStarts + 1

ScannerInit ==
  /\ started = FALSE /\ starts = 0 /\ timers = {} /\ mTimer = NoTimer /\ restarting = {}
  /\ maker = NoTimer /\ lost = FALSE /\ scheduling = 0 /\ ttl = [d \in Devices |-> Absent] /\ silence = [d \in Devices |-> MaxTTL + 1]

LoaderInit == SearchInit /\ ScannerInit

-----------------------------------------------------------------------------
(* stopDiscovery: isWorking becomes false; a search that has not begun does *)
(* not notice.                                                              *)
StopSearch == IF phase = "searching" THEN SearchEnd ELSE UNCHANGED searchVars

(* The first half of restartDiscovery: "if we're already discovering, stop  *)
(* it".                                                                     *)
RestartStop(w) ==
  /\ restarting' = restarting \cup {w}
  /\ StopSearch

(* The second half: startDiscovery, up to its test, which throws while      *)
(* there is a search; the exception is logged.  It does not throw while     *)
(* another thread makes the search.                                         *)
RestartStart(w) ==
  /\ w \in restarting \ {maker}
  /\ \/ phase = "off" /\ SearchStart /\ maker' = w /\ UNCHANGED restarting
     \/ phase = "making" /\ SearchClash /\ restarting' = restarting \ {w} /\ UNCHANGED maker
     \/ /\ phase \notin {"off", "making"}
        /\ restarting' = restarting \ {w} /\ UNCHANGED <<searchVars, maker>>
  /\ UNCHANGED <<started, starts, timers, mTimer, lost, scheduling, lists>>

(* The rest of it: the search is made, or a SocketException is logged.      *)
RestartFinish ==
  /\ maker # NoTimer
  /\ \/ SearchAssign /\ lost' = FALSE
     \/ SearchFail /\ lost' = TRUE
     \/ phase = "clashed" /\ UNCHANGED <<searchVars, lost>>
  /\ restarting' = restarting \ {maker} /\ maker' = NoTimer
  /\ UNCHANGED <<started, starts, timers, mTimer, scheduling, lists>>

OnStartLoading ==
  /\ ~started /\ Main \notin restarting
  /\ starts < MaxStarts /\ starts' = starts + 1
  /\ started' = TRUE
  /\ RestartStop(Main)
  /\ UNCHANGED <<timers, mTimer, maker, lost, scheduling, lists>>

OnStopLoading ==
  /\ started /\ Main \notin restarting
  /\ started' = FALSE
  /\ timers' = timers \ {mTimer} /\ mTimer' = NoTimer
  /\ StopSearch
  /\ UNCHANGED <<starts, restarting, maker, lost, scheduling, lists>>

(* Mutant: the timer is periodic.                                           *)
FireTimerPeriodic(i) ==
  /\ i \in timers /\ i \notin restarting
  /\ RestartStop(i)
  /\ UNCHANGED <<started, starts, timers, mTimer, maker, lost, scheduling, lists>>

(* The task of a timer, which has left the timer when it runs.              *)
FireTimer(i) ==
  /\ i \in timers
  /\ timers' = timers \ {i}
  /\ RestartStop(i)
  /\ UNCHANGED <<started, starts, mTimer, maker, lost, scheduling, lists>>

-----------------------------------------------------------------------------
(* Mutant: the device is not put back to its full time to live.             *)
OnNewServerOnce(d) ==
  /\ phase \in {"searching", "ending", "dead"}
  /\ ttl' = IF ttl[d] = Absent THEN [ttl EXCEPT ![d] = MaxTTL] ELSE ttl
  /\ silence' = [silence EXCEPT ![d] = 0]
  /\ UNCHANGED <<searchVars, started, starts, timers, mTimer, restarting, maker, lost, scheduling>>

(* onNewServer, called by the receiver thread until it is joined or, when   *)
(* the sender thread has died, until it ends.                               *)
OnNewServer(d) ==
  /\ phase \in {"searching", "ending", "dead"}
  /\ ttl' = [ttl EXCEPT ![d] = MaxTTL]
  /\ silence' = [silence EXCEPT ![d] = 0]
  /\ UNCHANGED <<searchVars, started, starts, timers, mTimer, restarting, maker, lost, scheduling>>

(* The loop over the lists: a device is taken off when it is found at 0.    *)
Aged == [d \in Devices |-> IF ttl[d] > 0 THEN ttl[d] - 1 ELSE Absent]

(* Mutant: whether the loader is started is not asked.                      *)
OnDiscoveryFinishedAlways ==
  /\ SearchReport
  /\ ttl' = Aged
  /\ silence' = [d \in Devices |-> IF silence[d] <= MaxTTL THEN silence[d] + 1 ELSE silence[d]]
  /\ scheduling' = scheduling + 1
  /\ UNCHANGED <<started, starts, timers, mTimer, restarting, maker, lost>>

(* onDiscoveryFinished up to the test of isStarted                          *)
OnDiscoveryFinished ==
  /\ SearchReport
  /\ ttl' = Aged
  /\ silence' = [d \in Devices |-> IF silence[d] <= MaxTTL THEN silence[d] + 1 ELSE silence[d]]
  /\ scheduling' = IF started THEN scheduling + 1 ELSE scheduling
  /\ UNCHANGED <<started, starts, timers, mTimer, restarting, maker, lost>>

(* Mutant: no timer is set when the field holds one.                        *)
ScheduleOnce ==
  /\ scheduling > 0 /\ scheduling' = scheduling - 1
  /\ IF mTimer # NoTimer THEN UNCHANGED <<timers, mTimer>>
     ELSE \E i \in TimerIds \ (timers \cup restarting) : timers' = timers \cup {i} /\ mTimer' = i
  /\ UNCHANGED <<searchVars, started, starts, restarting, maker, lost, lists>>

(* The rest of it: a new timer.                                             *)
Schedule ==
  /\ scheduling > 0 /\ scheduling' = scheduling - 1
  /\ \E i \in TimerIds \ (timers \cup restarting) :
       /\ \A j \in TimerIds \ (timers \cup restarting) : i <= j
       /\ timers' = timers \cup {i} /\ mTimer' = i
  /\ UNCHANGED <<searchVars, started, starts, restarting, maker, lost, lists>>

(* What the search does by itself                                           *)
Searching == (SearchBegin \/ SearchEnd \/ SearchClear \/ SearchDie) /\ UNCHANGED scannerVars

-----------------------------------------------------------------------------
LoaderNext ==
  \/ OnStartLoading \/ OnStopLoading
  \/ \E w \in TimerIds \cup {Main} : RestartStart(w)
  \/ RestartFinish
  \/ \E i \in TimerIds : FireTimer(i)
  \/ \E d \in Devices : OnNewServer(d)
  \/ OnDiscoveryFinished \/ Schedule \/ Searching

(* The threads are scheduled, and a timer that is not cancelled fires.  A   *)
(* search goes on until it is cleared away or dies, and one that is cleared *)
(* away is reported: every run of UDPDiscovery is reported, or could not be *)
(* made, or died (EveryRunIsReported).                                      *)
LoaderFairness ==
  /\ WF_loaderVars(OnDiscoveryFinished) /\ WF_loaderVars(Schedule) /\ WF_loaderVars(Searching)
  /\ \A w \in TimerIds \cup {Main} : WF_loaderVars(RestartStart(w))
  /\ WF_loaderVars(RestartFinish)
  /\ \A i \in TimerIds : WF_loaderVars(FireTimer(i))

LoaderSpec == LoaderInit /\ [][LoaderNext]_loaderVars /\ LoaderFairness

-----------------------------------------------------------------------------
(* Every variable has the type the code gives it, and the thread that makes *)
(* a search is in restartDiscovery.                                         *)
LoaderTypeOK ==
  /\ phase \in Phases /\ hurried \in BOOLEAN /\ pending \in 0 .. MaxStarts
  /\ started \in BOOLEAN /\ starts \in 0 .. MaxStarts /\ timers \subseteq TimerIds
  /\ mTimer \in TimerIds \cup {NoTimer} /\ restarting \subseteq TimerIds \cup {Main}
  /\ maker \in restarting \cup {NoTimer} /\ lost \in BOOLEAN
  /\ scheduling \in 0 .. MaxStarts /\ ttl \in [Devices -> Absent .. MaxTTL]
  /\ silence \in [Devices -> 0 .. MaxTTL + 1]

(* A device is listed as long as it was heard in one of the last MAX_TTL    *)
(* searches that were reported, and no longer.                              *)
ListedIsFresh == \A d \in Devices : ttl[d] # Absent <=> silence[d] <= MaxTTL

(* A search that has been made; what comes of a clash is not counted.       *)
Busy == IF phase \in {"off", "making", "clashed"} THEN 0 ELSE 1

(* However often the loader is stopped and started, there is no more than   *)
(* one search, report, timer or restart on its way for each start.          *)
OneChainForEachStart ==
  Busy + pending + scheduling
    + Cardinality(timers) + Cardinality(restarting) <= starts

(* Whatever is started and stopped, what the loader leaves behind is        *)
(* bounded: timers, reports and searches, and the time to live.             *)
ChainsAreBounded == LoaderTypeOK /\ OneChainForEachStart

(* A loader that stays started searches again and again.  It stops doing so *)
(* in three cases, which are those of UDPDiscovery: a search that was       *)
(* started before the last one was reported dies (117, 138), which leaves   *)
(* mSenderThread set, so that startDiscovery throws for ever; the last      *)
(* startDiscovery threw SocketException (77, 78), which nobody tries again; *)
(* two threads made a search at once (74-80).                               *)
KeepsSearching ==
  <>[]started =>
    \/ []<>(phase = "searching")
    \/ <>[](phase = "dead" /\ hurried)
    \/ <>[]lost
    \/ <>[](phase = "clashed")

(* A loader that stays stopped comes to rest, whatever timer or report the  *)
(* stop has missed, and whether or not its search dies.  Behind a clash     *)
(* nothing is said.                                                         *)
ComesToRest ==
  <>[]~started =>
    \/ <>[](phase \in {"off", "dead"} /\ timers = {} /\ pending = 0)
    \/ <>[](phase = "clashed")

=============================================================================
