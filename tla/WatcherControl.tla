---------------------------- MODULE WatcherControl ----------------------------
(***************************************************************************)
(* Who starts and stops the file watcher: the health monitor, the pause    *)
(* and resume buttons, the ingest switch and the start of the process.     *)
(* They share two flags in memory and the handle of the observer; only the *)
(* handle has a lock, and only for one access at a time.                   *)
(***************************************************************************)
EXTENDS Naturals

CONSTANTS
    Conditions,     \* the states of the pipeline that a probe can meet
    WatchRequests,  \* handlers of api/pipeline.py that run at a time
    Observers,      \* bound: observer threads that may live at a time
    MaxEvents       \* bound: what users, faults and the pipeline do in a behaviour

Troubles == {"flooded", "queued_stuck", "md_offline", "md_complete_stuck",
             "dead_letters", "broker_down", "database_down", "mount_gone"}
NoObserver == "none"
Controllers == {"monitor"} \cup WatchRequests

ASSUME ConditionsAssumption == Conditions \subseteq SUBSET Troubles
ASSUME EventsAssumption == MaxEvents \in Nat
ASSUME ControllersAssumption == "monitor" \notin WatchRequests /\ NoObserver \notin Observers

VARIABLES
    condition,       \* the troubles of the pipeline
    watcherPaused,   \* _state.watcher_paused
    manuallyPaused,  \* _state.manually_paused
    pauseSetting,    \* pipeline_settings: manually_paused
    ingestSetting,   \* pipeline_settings: ingest_watch_enabled
    observer,        \* _observer, the handle
    live,            \* the observer threads that run
    control,         \* what each controller is doing
    events,          \* presses, switches, restarts and changes so far
    incidents        \* history: what has gone between the controllers since the start

settings == <<pauseSetting, ingestSetting>>
flags == <<watcherPaused, manuallyPaused>>
threads == <<observer, live>>
watcherVars == <<condition, flags, settings, threads, control, events, incidents>>

Free == [task |-> "none", pc |-> "idle", obs |-> NoObserver]
ResumeSteps == {"setting", "running", "start", "handle"}

At(t, step) == control[t].pc = step
Goto(t, step) == control' = [control EXCEPT ![t].pc = step]
Begin(t, task, step) == control' = [control EXCEPT ![t].task = task, ![t].pc = step]

(* pause_watcher or resume_watcher returns to its caller, of whom only the *)
(* monitor and the buttons have a flag to set.                             *)
Return(t) ==
    control' = [control EXCEPT ![t] =
        IF @.task \in {"pause", "resume"} THEN [@ EXCEPT !.pc = "flag", !.obs = NoObserver]
                                          ELSE Free]

(* The API answers once the process has started.                           *)
Serving == control["monitor"].task # "boot"
DatabaseUp == "database_down" \notin condition

(* Between reading the switch and clearing the flag.                       *)
Resuming(t) ==
    \/ control[t].pc \in ResumeSteps
    \/ At(t, "flag") /\ control[t].task = "resume"
OtherBusy(t) == \E u \in Controllers \ {t} : control[u] # Free
(* overlap: two of them were at work at a time; override: the              *)
(* switch is turned on over a pause; setting: it is not saved or not read; *)
(* failed: the observer could not start after it has been turned on.       *)
Incidents == {"overlap", "override", "setting", "failed"}
Event == events < MaxEvents /\ events' = events + 1
Note(kind, b) == incidents' = IF b THEN incidents \cup {kind} ELSE incidents

-------------------------------------------------------------------------------
(* The health check.                                                       *)

(* What the probes report: nothing that is asked of a server which is down, *)
(* and minus one for its consumers, which is not zero. Both count the jobs *)
(* that are queued.                                                        *)
Probed ==
    condition \ ((IF "broker_down" \in condition THEN {"md_offline", "dead_letters"} ELSE {})
                 \cup (IF DatabaseUp THEN {} ELSE {"queued_stuck", "md_complete_stuck"})
                 \cup (IF {"broker_down", "database_down"} \subseteq condition
                       THEN {"flooded"} ELSE {}))

Unhealthy(troubles) ==
    \/ troubles \cap {"flooded", "md_complete_stuck", "dead_letters"} # {}
    \/ {"queued_stuck", "md_offline"} \subseteq troubles

(* _run_check on an unhealthy pipeline: a new fault pauses the watcher.    *)
CheckPauses ==
    /\ control["monitor"] = Free
    /\ Unhealthy(Probed) /\ ~watcherPaused
    /\ Begin("monitor", "pause", "take")
    /\ Note("overlap", OtherBusy("monitor"))
    /\ UNCHANGED <<condition, flags, settings, threads, events>>

(* Mutant: a healthy pipeline is resumed whoever has paused it.            *)
CheckResumesAlways ==
    /\ control["monitor"] = Free
    /\ ~Unhealthy(Probed) /\ watcherPaused
    /\ Begin("monitor", "resume", "setting")
    /\ Note("overlap", OtherBusy("monitor"))
    /\ UNCHANGED <<condition, flags, settings, threads, events>>

(* _run_check on a healthy pipeline: resumed unless the user has paused it. *)
CheckResumes ==
    /\ control["monitor"] = Free
    /\ ~Unhealthy(Probed) /\ watcherPaused /\ ~manuallyPaused
    /\ Begin("monitor", "resume", "setting")
    /\ Note("overlap", OtherBusy("monitor"))
    /\ UNCHANGED <<condition, flags, settings, threads, events>>

-------------------------------------------------------------------------------
(* The handlers of api/pipeline.py.                                        *)

(* The button sets the flag in memory at once; the rest follows.           *)
PressPause(t) ==
    /\ Serving /\ control[t] = Free /\ Event
    /\ manuallyPaused' = TRUE
    /\ Begin(t, "pause", "save")
    /\ Note("overlap", OtherBusy(t))
    /\ UNCHANGED <<condition, watcherPaused, settings, threads>>

PressResume(t) ==
    /\ Serving /\ control[t] = Free /\ Event
    /\ manuallyPaused' = FALSE
    /\ Begin(t, "resume", "save")
    /\ Note("overlap", OtherBusy(t))
    /\ UNCHANGED <<condition, watcherPaused, settings, threads>>

(* The setting is written, or the error is logged and swallowed.           *)
SavePause(t) ==
    /\ At(t, "save")
    /\ pauseSetting' = IF DatabaseUp THEN control[t].task = "pause" ELSE pauseSetting
    /\ Goto(t, "look")
    /\ UNCHANGED <<condition, flags, ingestSetting, threads, incidents, events>>

(* Both buttons do nothing more when the flag says that it is done.        *)
LookAtFlag(t) ==
    /\ At(t, "look")
    /\ CASE control[t].task = "pause" /\ ~watcherPaused -> Goto(t, "take")
         [] control[t].task = "resume" /\ watcherPaused -> Goto(t, "setting")
         [] OTHER -> control' = [control EXCEPT ![t] = Free]
    /\ UNCHANGED <<condition, flags, settings, threads, events, incidents>>

(* The switch is saved, then the watcher started or stopped to match; the  *)
(* flags stay as they are.                                                 *)
SwitchIngest(t, on) ==
    /\ Serving /\ control[t] = Free /\ Event
    /\ ingestSetting' = IF DatabaseUp THEN on ELSE ingestSetting
    /\ IF on THEN Begin(t, "enable", "setting") ELSE Begin(t, "disable", "take")
    /\ incidents' = incidents \cup (IF OtherBusy(t) THEN {"overlap"} ELSE {})
                             \cup (IF on /\ watcherPaused THEN {"override"} ELSE {})
                             \cup (IF DatabaseUp THEN {} ELSE {"setting"})
    /\ UNCHANGED <<condition, flags, pauseSetting, threads>>

-------------------------------------------------------------------------------
(* pause_watcher.                                                          *)

(* Mutant: the handle stays after the observer has been stopped.           *)
KeepHandle(t) ==
    /\ At(t, "take")
    /\ control' = [control EXCEPT ![t].pc = "stop", ![t].obs = observer]
    /\ UNCHANGED <<condition, flags, settings, threads, incidents, events>>

TakeHandle(t) ==
    /\ At(t, "take")
    /\ control' = [control EXCEPT ![t].pc = "stop", ![t].obs = observer]
    /\ observer' = NoObserver
    /\ UNCHANGED <<condition, flags, settings, live, incidents, events>>

StopObserver(t) ==
    /\ At(t, "stop")
    /\ live' = live \ {control[t].obs}
    /\ Return(t)
    /\ UNCHANGED <<condition, flags, settings, observer, incidents, events>>

-------------------------------------------------------------------------------
(* resume_watcher.                                                         *)

(* An error reads as the default, which is on.                             *)
ReadSetting(t) ==
    /\ At(t, "setting")
    /\ IF ingestSetting \/ ~DatabaseUp THEN Goto(t, "running") ELSE Return(t)
    /\ Note("setting", ~DatabaseUp)
    /\ UNCHANGED <<condition, flags, settings, threads, events>>

(* Mutant: the handle is not looked at.                                    *)
CheckNothing(t) ==
    /\ At(t, "running")
    /\ Goto(t, "start")
    /\ UNCHANGED <<condition, flags, settings, threads, incidents, events>>

CheckRunning(t) ==
    /\ At(t, "running")
    /\ IF observer = NoObserver THEN Goto(t, "start") ELSE Return(t)
    /\ UNCHANGED <<condition, flags, settings, threads, incidents, events>>

(* The new observer runs before anybody has its handle.                    *)
StartObserver(t) ==
    /\ At(t, "start")
    /\ "mount_gone" \notin condition
    /\ \E o \in Observers \ live :
        /\ o = CHOOSE x \in Observers \ live : TRUE
        /\ live' = live \cup {o}
        /\ control' = [control EXCEPT ![t].pc = "handle", ![t].obs = o]
    /\ UNCHANGED <<condition, flags, settings, observer, incidents, events>>

(* The observer cannot watch the directory and raises: the request fails,  *)
(* the monitor logs it, a starting process exits and is started again.     *)
StartFails(t) ==
    /\ At(t, "start")
    /\ "mount_gone" \in condition
    /\ IF control[t].task = "boot" THEN Goto(t, "load") ELSE control' = [control EXCEPT ![t] = Free]
    /\ Note("failed", control[t].task = "enable")
    /\ UNCHANGED <<condition, flags, settings, threads, events>>

SetHandle(t) ==
    /\ At(t, "handle")
    /\ observer' = control[t].obs
    /\ Return(t)
    /\ UNCHANGED <<condition, flags, settings, live, incidents, events>>

(* The last statement of the monitor and of the buttons.                   *)
SetFlag(t) ==
    /\ At(t, "flag")
    /\ watcherPaused' = (control[t].task = "pause")
    /\ control' = [control EXCEPT ![t] = Free]
    /\ UNCHANGED <<condition, manuallyPaused, settings, threads, incidents, events>>

-------------------------------------------------------------------------------
(* The start of the process.                                               *)

(* It stops at any point, with all its threads, and starts from new memory. *)
Restart ==
    /\ Event
    /\ control' = [t \in Controllers |->
                    IF t = "monitor" THEN [Free EXCEPT !.task = "boot", !.pc = "load"] ELSE Free]
    /\ watcherPaused' = FALSE /\ manuallyPaused' = FALSE
    /\ observer' = NoObserver /\ live' = {}
    /\ incidents' = {}
    /\ UNCHANGED <<condition, settings>>

(* startup_health_check restores the user's pause; an error reads as none. *)
LoadPause ==
    /\ At("monitor", "load")
    /\ manuallyPaused' = (pauseSetting /\ DatabaseUp)
    /\ watcherPaused' = (pauseSetting /\ DatabaseUp)
    /\ Goto("monitor", "check")
    /\ UNCHANGED <<condition, settings, threads, incidents, events>>

(* Its check can only pause, since the flag is set by nothing but the user's *)
(* pause; start_watcher then starts the observer unless the flag is set.   *)
CheckAtStart ==
    /\ At("monitor", "check")
    /\ watcherPaused' = (watcherPaused \/ Unhealthy(Probed))
    /\ IF watcherPaused' THEN control' = [control EXCEPT !["monitor"] = Free]
                         ELSE Goto("monitor", "setting")
    /\ UNCHANGED <<condition, manuallyPaused, settings, threads, incidents, events>>

(* The pipeline gets into trouble and out of it.                           *)
ConditionChanges ==
    /\ Event
    /\ condition' \in Conditions \ {condition}
    /\ UNCHANGED <<flags, settings, threads, control, incidents>>

-------------------------------------------------------------------------------
WatcherInit ==
    /\ condition \in Conditions
    /\ watcherPaused = FALSE /\ manuallyPaused = FALSE
    /\ pauseSetting = FALSE /\ ingestSetting = TRUE
    /\ observer = NoObserver /\ live = {}
    /\ control = [t \in Controllers |->
                    IF t = "monitor" THEN [Free EXCEPT !.task = "boot", !.pc = "load"] ELSE Free]
    /\ events = 0
    /\ incidents = {}

ControllerStep(t) ==
    \/ SavePause(t) \/ LookAtFlag(t)
    \/ TakeHandle(t) \/ StopObserver(t)
    \/ ReadSetting(t) \/ CheckRunning(t) \/ StartObserver(t) \/ StartFails(t) \/ SetHandle(t)
    \/ SetFlag(t)
MonitorStep ==
    \/ ControllerStep("monitor")
    \/ CheckPauses \/ CheckResumes \/ LoadPause \/ CheckAtStart
UserStep(t) == PressPause(t) \/ PressResume(t) \/ \E on \in BOOLEAN : SwitchIngest(t, on)

WatcherNext ==
    \/ MonitorStep \/ Restart \/ ConditionChanges
    \/ \E t \in WatchRequests : ControllerStep(t) \/ UserStep(t)

WatcherSpec == WatcherInit /\ [][WatcherNext]_watcherVars

(* The monitor loops for ever, and a handler that has begun goes on.       *)
WatcherFairness ==
    /\ WF_watcherVars(MonitorStep)
    /\ \A t \in WatchRequests : WF_watcherVars(ControllerStep(t))

-------------------------------------------------------------------------------
WatcherTypeOK ==
    /\ condition \in Conditions
    /\ watcherPaused \in BOOLEAN /\ manuallyPaused \in BOOLEAN
    /\ pauseSetting \in BOOLEAN /\ ingestSetting \in BOOLEAN
    /\ observer \in Observers \cup {NoObserver}
    /\ live \subseteq Observers
    /\ control \in [Controllers ->
            [task : {"none", "boot", "pause", "resume", "enable", "disable"},
             pc : ResumeSteps \cup {"idle", "load", "check", "save", "look", "take", "stop", "flag"},
             obs : Observers \cup {NoObserver}]]
    /\ events \in Nat
    /\ incidents \subseteq Incidents

(* An observer that runs and that nobody can stop any more: its handle has *)
(* been overwritten.                                                       *)
Orphans == live \ ({observer} \cup {control[t].obs : t \in Controllers})

(* watcher.py starts an observer outside the lock. Only two resumes that   *)
(* overlap can leave one behind that no pause stops.                       *)
OrphansOnlyFromRaces == Orphans # {} => "overlap" \in incidents

(* A pause that has taken hold, in memory, in the database and on the      *)
(* observer, is undone by nobody but the user: not by the monitor, not by  *)
(* another handler that is still running and not by a restart, unless the  *)
(* database cannot be read then.                                           *)
PauseHolds ==
    /\ pauseSetting
    /\ IF Serving \/ At("monitor", "check")
       THEN manuallyPaused /\ watcherPaused ELSE At("monitor", "load")
    /\ live \subseteq {control[t].obs : t \in {u \in Controllers : At(u, "stop")}}
    /\ observer = NoObserver
    /\ \A t \in Controllers : /\ ~Resuming(t)
                              /\ control[t].task \notin {"resume", "enable"}
PauseSticks ==
    [][PauseHolds => \/ PauseHolds'
                     \/ LoadPause /\ ~DatabaseUp
                     \/ \E t \in WatchRequests : PressResume(t) \/ SwitchIngest(t, TRUE)
      ]_watcherVars

(* Whatever was pressed, switched or restarted before: once the users are  *)
(* done and the pipeline stays as it is, an observer runs exactly if the   *)
(* pipeline is healthy, ingestion is on and the user has not paused it.    *)
(* Except where controllers got in each other's way.                       *)
Settled(c) ==
    /\ condition = c
    /\ \A t \in WatchRequests : control[t] = Free
WatcherFollowsHealth ==
    \A c \in {x \in Conditions : x \cap {"database_down", "mount_gone"} = {}} :
        <>[](Settled(c) /\ incidents = {}) /\ <>[][~Restart]_watcherVars
            => <>[]((observer # NoObserver)
                        = (~Unhealthy(Probed) /\ ingestSetting /\ ~manuallyPaused))
===============================================================================
