--------------------------- MODULE WatchFolderProofs ---------------------------
(***************************************************************************)
(* Proofs about the two parts of the orchestrator that stand at the watch  *)
(* folder: who runs the file watcher, and what becomes of the clips that   *)
(* its finders meet.                                                       *)
(***************************************************************************)
EXTENDS WatcherControl, Ingest, Integers, TLAPS

-------------------------------------------------------------------------------
(* The safety properties of the watcher control for any number of handlers *)
(* at a time: an observer that nobody can stop comes only from controllers *)
(* that overlap, and a pause that holds is undone by the user alone.       *)

ControlStates ==
    [task : {"none", "boot", "pause", "resume", "enable", "disable"},
     pc : ResumeSteps \cup {"idle", "load", "check", "save", "look", "take", "stop", "flag"},
     obs : Observers \cup {NoObserver}]

(* What the steps of a controller say of its task and of what it holds.    *)
StepInv(n) ==
    /\ n.pc \in {"save", "look", "flag"} => n.task \in {"pause", "resume"}
    /\ n.pc \in {"take", "stop"} => n.task \in {"pause", "disable"}
    /\ n.pc \notin {"handle", "stop"} => n.obs = NoObserver

(* Without an overlap one controller works at a time; what runs is in its  *)
(* hand or is the handle, and it starts an observer only if there is none. *)
ControlOrderInv ==
    "overlap" \notin incidents =>
        /\ \A t, u \in Controllers : control[t] # Free /\ control[u] # Free => t = u
        /\ Orphans = {}
        /\ \A t \in Controllers : control[t].pc \in {"start", "handle"} => observer = NoObserver

WatcherInv ==
    /\ WatcherTypeOK
    /\ \A t \in Controllers : StepInv(control[t])
    /\ ControlOrderInv

LEMMA FreeState == Free \in ControlStates /\ StepInv(Free) /\ Free.pc = "idle"
                   /\ Free.obs = NoObserver /\ Free.task = "none"
BY DEF Free, ControlStates, StepInv

LEMMA BootState ==
    /\ [Free EXCEPT !.task = "boot", !.pc = "load"] \in ControlStates
    /\ StepInv([Free EXCEPT !.task = "boot", !.pc = "load"])
    /\ [Free EXCEPT !.task = "boot", !.pc = "load"].pc = "load"
    /\ [Free EXCEPT !.task = "boot", !.pc = "load"].obs = NoObserver
BY DEF Free, ControlStates, StepInv

(* The start, of the first process or of the next.                         *)
LEMMA StartHolds ==
    ASSUME condition \in Conditions, watcherPaused \in BOOLEAN, manuallyPaused \in BOOLEAN,
           pauseSetting \in BOOLEAN, ingestSetting \in BOOLEAN,
           observer = NoObserver, live = {}, events \in Nat, incidents = {},
           control = [t \in Controllers |->
                    IF t = "monitor" THEN [Free EXCEPT !.task = "boot", !.pc = "load"] ELSE Free]
    PROVE  WatcherInv
<1>1. \A t \in Controllers : /\ control[t] \in ControlStates /\ StepInv(control[t])
                             /\ control[t].pc \notin {"start", "handle"}
                             /\ t # "monitor" => control[t] = Free
  BY FreeState, BootState
<1>2. WatcherTypeOK
  BY <1>1 DEF WatcherTypeOK, ControlStates
<1>3. ControlOrderInv
  BY <1>1 DEF ControlOrderInv, Orphans
<1> QED
  BY <1>1, <1>2, <1>3 DEF WatcherInv

LEMMA WatcherInitInv == WatcherInit => WatcherInv
<1> SUFFICES ASSUME WatcherInit PROVE WatcherInv
  OBVIOUS
<1>1. /\ condition \in Conditions /\ watcherPaused \in BOOLEAN /\ manuallyPaused \in BOOLEAN
      /\ pauseSetting \in BOOLEAN /\ ingestSetting \in BOOLEAN
      /\ observer = NoObserver /\ live = {} /\ events \in Nat /\ incidents = {}
  BY DEF WatcherInit
<1>2. control = [t \in Controllers |->
                    IF t = "monitor" THEN [Free EXCEPT !.task = "boot", !.pc = "load"] ELSE Free]
  BY DEF WatcherInit
<1> QED
  BY <1>1, <1>2, StartHolds

LEMMA WatcherTypeFacts ==
    ASSUME WatcherInv, NEW t \in Controllers
    PROVE  /\ control \in [Controllers -> ControlStates] /\ control[t] \in ControlStates
           /\ StepInv(control[t])
           /\ condition \in Conditions
           /\ watcherPaused \in BOOLEAN /\ manuallyPaused \in BOOLEAN
           /\ pauseSetting \in BOOLEAN /\ ingestSetting \in BOOLEAN
           /\ observer \in Observers \cup {NoObserver}
           /\ live \subseteq Observers /\ events \in Nat /\ incidents \subseteq Incidents
BY DEF WatcherInv, WatcherTypeOK, ControlStates

(* A step of one controller, which goes to n.                              *)
LEMMA ControlMoves ==
    ASSUME WatcherInv, NEW t \in Controllers, NEW n \in ControlStates,
           control' = [control EXCEPT ![t] = n], StepInv(n),
           condition' = condition,
           watcherPaused' \in BOOLEAN, manuallyPaused' \in BOOLEAN,
           pauseSetting' \in BOOLEAN, ingestSetting' \in BOOLEAN,
           observer' \in Observers \cup {NoObserver}, live' \subseteq Observers,
           events' \in Nat, incidents' \subseteq Incidents, incidents \subseteq incidents',
           \/ control[t] # Free \/ n = Free
           \/ OtherBusy(t) => "overlap" \in incidents',
           "overlap" \notin incidents =>
                /\ live \subseteq {observer, control[t].obs} => live' \subseteq {observer', n.obs}
                /\ n.pc \in {"start", "handle"} => observer' = NoObserver,
           control[t] = Free => live' = live /\ observer' = observer /\ n.obs = NoObserver
    PROVE  WatcherInv'
<1>1. WatcherTypeOK'
  BY WatcherTypeFacts DEF WatcherTypeOK, ControlStates
<1>2. control'[t] = n /\ \A u \in Controllers \ {t} : control'[u] = control[u]
  BY WatcherTypeFacts
<1>3. \A u \in Controllers : StepInv(control'[u])
  BY <1>2, WatcherTypeFacts
<1>4. ControlOrderInv'
  <2> SUFFICES ASSUME "overlap" \notin incidents'
               PROVE  /\ \A u, v \in Controllers : control'[u] # Free /\ control'[v] # Free => u = v
                      /\ Orphans' = {}
                      /\ \A u \in Controllers :
                            control'[u].pc \in {"start", "handle"} => observer' = NoObserver
    BY DEF ControlOrderInv
  <2>1. /\ "overlap" \notin incidents
        /\ \A u, v \in Controllers : control[u] # Free /\ control[v] # Free => u = v
        /\ live \subseteq {observer} \cup {control[u].obs : u \in Controllers}
        /\ \A u \in Controllers : control[u].pc \in {"start", "handle"} => observer = NoObserver
    BY DEF WatcherInv, ControlOrderInv, Orphans
  <2>2. CASE \A u \in Controllers \ {t} : control[u] = Free
    <3>1. \A u \in Controllers \ {t} : control[u].obs = NoObserver
      BY <2>2, FreeState
    <3>2. live \subseteq {observer, control[t].obs}
      BY <2>1, <3>1, WatcherTypeFacts, ControllersAssumption
    <3>3. live' \subseteq {observer', n.obs}
      BY <2>1, <3>2
    <3>4. Orphans' = {}
      BY <1>2, <3>3 DEF Orphans
    <3>5. \A u \in Controllers \ {t} : control'[u].pc = "idle"
      BY <1>2, <2>2, FreeState
    <3> QED
      BY <1>2, <2>1, <2>2, <3>4, <3>5
  <2>3. CASE control[t] = Free /\ n = Free
    <3>1. \A u \in Controllers : control'[u] = control[u]
      BY <1>2, <2>3
    <3>2. live' = live /\ observer' = observer
      BY <2>3
    <3> QED
      BY <2>1, <3>1, <3>2 DEF Orphans
  <2>4. ~OtherBusy(t) => \A u \in Controllers \ {t} : control[u] = Free
    BY DEF OtherBusy
  <2> QED
    BY <2>1, <2>2, <2>3, <2>4
<1> QED
  BY <1>1, <1>3, <1>4 DEF WatcherInv

LEMMA WatcherEventType ==
    ASSUME WatcherInv, Event
    PROVE  events' \in Nat
BY DEF WatcherInv, WatcherTypeOK, Event

(* What Begin, Goto and Return make of a controller.                       *)
LEMMA Begun ==
    ASSUME WatcherInv, NEW t \in Controllers, control[t] = Free,
           NEW task \in {"pause", "resume", "enable", "disable"},
           NEW step \in {"save", "setting", "take"},
           step = "save" => task \in {"pause", "resume"},
           step = "take" => task \in {"pause", "disable"},
           Begin(t, task, step)
    PROVE  \E n \in ControlStates : /\ control' = [control EXCEPT ![t] = n] /\ StepInv(n)
                                    /\ n.pc = step /\ n.task = task /\ n.obs = NoObserver
<1> DEFINE n == [control[t] EXCEPT !.task = task, !.pc = step]
<1>1. n \in ControlStates /\ n.pc = step /\ n.task = task /\ n.obs = NoObserver
  BY WatcherTypeFacts, FreeState DEF ControlStates, ResumeSteps
<1>2. control' = [control EXCEPT ![t] = n]
  BY WatcherTypeFacts DEF Begin, ControlStates
<1>3. StepInv(n)
  <2> HIDE DEF n
  <2> QED
    BY <1>1 DEF StepInv
<1> QED
  BY <1>1, <1>2, <1>3

LEMMA Gone ==
    ASSUME WatcherInv, NEW t \in Controllers,
           NEW step \in {"look", "take", "setting", "running", "start", "load", "check"},
           control[t].pc \notin {"handle", "stop"},
           step = "look" => control[t].task \in {"pause", "resume"},
           step = "take" => control[t].task \in {"pause", "disable"},
           Goto(t, step)
    PROVE  \E n \in ControlStates : /\ control' = [control EXCEPT ![t] = n] /\ StepInv(n)
                                    /\ n.pc = step /\ n.task = control[t].task /\ n.obs = NoObserver
<1> DEFINE n == [control[t] EXCEPT !.pc = step]
<1>0. control[t].obs = NoObserver
  BY WatcherTypeFacts DEF StepInv
<1>1. n \in ControlStates /\ n.pc = step /\ n.task = control[t].task /\ n.obs = NoObserver
  BY <1>0, WatcherTypeFacts DEF ControlStates, ResumeSteps
<1>2. control' = [control EXCEPT ![t] = n]
  BY WatcherTypeFacts DEF Goto, ControlStates
<1>3. StepInv(n)
  <2> HIDE DEF n
  <2> QED
    BY <1>1 DEF StepInv
<1> QED
  BY <1>1, <1>2, <1>3

LEMMA Returned ==
    ASSUME WatcherInv, NEW t \in Controllers, Return(t)
    PROVE  \E n \in ControlStates : /\ control' = [control EXCEPT ![t] = n] /\ StepInv(n)
                                    /\ n.pc \in {"flag", "idle"} /\ n.obs = NoObserver
                                    /\ n.pc = "flag" => n.task = control[t].task
                                    /\ n.pc = "idle" => control[t].task \notin {"pause", "resume"}
<1>1. CASE control[t].task \in {"pause", "resume"}
  <2> DEFINE n == [control[t] EXCEPT !.pc = "flag", !.obs = NoObserver]
  <2>1. /\ n \in ControlStates /\ n.pc = "flag" /\ n.task = control[t].task /\ n.obs = NoObserver
    BY WatcherTypeFacts DEF ControlStates
  <2>2. control' = [control EXCEPT ![t] = n]
    BY <1>1, WatcherTypeFacts DEF Return, ControlStates
  <2>3. StepInv(n)
    <3> HIDE DEF n
    <3> QED
      BY <1>1, <2>1 DEF StepInv
  <2> QED
    BY <2>1, <2>2, <2>3
<1>2. CASE control[t].task \notin {"pause", "resume"}
  BY <1>2, FreeState DEF Return
<1> QED
  BY <1>1, <1>2

(* The monitor's checks, the buttons and the switch begin a task.          *)
LEMMA BeginningsKeep ==
    ASSUME WatcherInv, NEW t \in Controllers,
           \/ t = "monitor" /\ (CheckPauses \/ CheckResumes)
           \/ PressPause(t) \/ PressResume(t) \/ \E on \in BOOLEAN : SwitchIngest(t, on)
    PROVE  WatcherInv'
<1> USE WatcherTypeFacts
<1>1. /\ control[t] = Free /\ condition' = condition /\ UNCHANGED <<watcherPaused, threads>>
      /\ manuallyPaused' \in BOOLEAN /\ pauseSetting' \in BOOLEAN /\ ingestSetting' \in BOOLEAN
  BY DEF CheckPauses, CheckResumes, PressPause, PressResume, SwitchIngest, flags, settings
<1>2. events' \in Nat
  BY WatcherEventType DEF CheckPauses, CheckResumes, PressPause, PressResume, SwitchIngest
<1>3. /\ incidents' \subseteq Incidents /\ incidents \subseteq incidents'
      /\ OtherBusy(t) => "overlap" \in incidents'
  BY DEF CheckPauses, CheckResumes, PressPause, PressResume, SwitchIngest, Note, Incidents
<1>4. PICK n \in ControlStates : /\ control' = [control EXCEPT ![t] = n] /\ StepInv(n)
                                 /\ n.pc \in {"save", "setting", "take"} /\ n.obs = NoObserver
  <2>1. \/ Begin(t, "pause", "take") \/ Begin(t, "resume", "setting")
        \/ Begin(t, "pause", "save") \/ Begin(t, "resume", "save")
        \/ Begin(t, "enable", "setting") \/ Begin(t, "disable", "take")
    BY DEF CheckPauses, CheckResumes, PressPause, PressResume, SwitchIngest
  <2> QED
    BY <1>1, <2>1, Begun
<1>5. live \subseteq {observer, control[t].obs} => live' \subseteq {observer', n.obs}
  BY <1>1, <1>4, FreeState DEF threads
<1> QED
  BY <1>1, <1>2, <1>3, <1>4, <1>5, ControlMoves DEF threads

(* The steps that touch neither the handle nor an observer.                *)
LEMMA HandlersKeep ==
    ASSUME WatcherInv, NEW t \in Controllers,
           \/ SavePause(t) \/ LookAtFlag(t) \/ ReadSetting(t) \/ CheckRunning(t)
           \/ StartFails(t) \/ SetFlag(t)
           \/ t = "monitor" /\ (LoadPause \/ CheckAtStart)
    PROVE  WatcherInv'
<1> USE WatcherTypeFacts
<1>0. /\ control[t].pc \in {"save", "look", "setting", "running", "start", "flag", "load", "check"}
      /\ control[t].pc = "save" => control[t].task \in {"pause", "resume"}
      /\ control[t].obs = NoObserver
  <2>1. control[t].pc \in {"save", "look", "setting", "running", "start", "flag", "load", "check"}
    BY DEF SavePause, LookAtFlag, ReadSetting, CheckRunning, StartFails, SetFlag, LoadPause,
       CheckAtStart, At
  <2> QED
    BY <2>1 DEF StepInv
<1>1. /\ condition' = condition /\ UNCHANGED threads /\ events' = events
      /\ watcherPaused' \in BOOLEAN /\ manuallyPaused' \in BOOLEAN
      /\ pauseSetting' \in BOOLEAN /\ ingestSetting' \in BOOLEAN
  BY DEF SavePause, LookAtFlag, ReadSetting, CheckRunning, StartFails, SetFlag, LoadPause,
     CheckAtStart, flags, settings
<1>2. incidents' \subseteq Incidents /\ incidents \subseteq incidents'
  BY DEF SavePause, LookAtFlag, ReadSetting, CheckRunning, StartFails, SetFlag, LoadPause,
     CheckAtStart, Note, Incidents
<1>3. PICK n \in ControlStates : /\ control' = [control EXCEPT ![t] = n] /\ StepInv(n)
                                 /\ n.pc # "handle" /\ n.obs = NoObserver
                                 /\ n.pc = "start" => observer = NoObserver
  <2>1. \/ Goto(t, "look") /\ control[t].pc = "save"
        \/ Goto(t, "take") /\ control[t].task = "pause"
        \/ Goto(t, "setting") \/ Goto(t, "running") \/ Goto(t, "load") \/ Goto(t, "check")
        \/ Goto(t, "start") /\ observer = NoObserver
        \/ Return(t)
        \/ control' = [control EXCEPT ![t] = Free]
    BY DEF SavePause, LookAtFlag, ReadSetting, CheckRunning, StartFails, SetFlag, LoadPause,
       CheckAtStart, At
  <2>2. CASE control' = [control EXCEPT ![t] = Free]
    BY <2>2, FreeState
  <2>3. CASE Return(t)
    BY <2>3, Returned
  <2>4. CASE \/ Goto(t, "look") /\ control[t].pc = "save"
             \/ Goto(t, "take") /\ control[t].task = "pause"
             \/ Goto(t, "setting") \/ Goto(t, "running") \/ Goto(t, "load") \/ Goto(t, "check")
             \/ Goto(t, "start") /\ observer = NoObserver
    BY <1>0, <2>4, Gone
  <2> QED
    BY <2>1, <2>2, <2>3, <2>4
<1>4. control[t] # Free
  BY <1>0, FreeState
<1> QED
  BY <1>0, <1>1, <1>2, <1>3, <1>4, ControlMoves DEF threads

(* The steps that take, start, stop or set an observer.                    *)
LEMMA ObserversKeep ==
    ASSUME WatcherInv, NEW t \in Controllers,
           TakeHandle(t) \/ StopObserver(t) \/ StartObserver(t) \/ SetHandle(t)
    PROVE  WatcherInv'
<1> USE WatcherTypeFacts
<1>1. UNCHANGED <<condition, flags, settings, incidents, events>>
  BY DEF TakeHandle, StopObserver, StartObserver, SetHandle
<1>2. /\ control[t] # Free
      /\ condition' = condition
      /\ watcherPaused' \in BOOLEAN /\ manuallyPaused' \in BOOLEAN
      /\ pauseSetting' \in BOOLEAN /\ ingestSetting' \in BOOLEAN
      /\ events' \in Nat /\ incidents' \subseteq Incidents /\ incidents \subseteq incidents'
  BY <1>1, FreeState DEF TakeHandle, StopObserver, StartObserver, SetHandle, At, flags, settings
<1>3. control[t].pc \in {"start", "handle"} /\ "overlap" \notin incidents => observer = NoObserver
  BY DEF WatcherInv, ControlOrderInv
<1>4. CASE TakeHandle(t)
  <2> DEFINE n == [control[t] EXCEPT !.pc = "stop", !.obs = observer]
  <2>1. /\ n \in ControlStates /\ n.pc = "stop" /\ n.obs = observer /\ n.task = control[t].task
    BY DEF ControlStates
  <2>2. control' = [control EXCEPT ![t] = n]
    BY <1>4 DEF TakeHandle, ControlStates
  <2> HIDE DEF n
  <2>3. StepInv(n) /\ control[t].obs = NoObserver
    BY <1>4, <2>1 DEF TakeHandle, At, StepInv
  <2>4. observer' = NoObserver /\ live' = live
    BY <1>4 DEF TakeHandle
  <2> QED
    BY <1>2, <2>1, <2>2, <2>3, <2>4, ControlMoves
<1>5. CASE StopObserver(t)
  <2>1. PICK n \in ControlStates : /\ control' = [control EXCEPT ![t] = n] /\ StepInv(n)
                                   /\ n.pc \in {"flag", "idle"} /\ n.obs = NoObserver
    BY <1>5, Returned DEF StopObserver
  <2>2. live' = live \ {control[t].obs} /\ observer' = observer
    BY <1>5 DEF StopObserver
  <2>3. live \subseteq {observer, control[t].obs} => live' \subseteq {observer', n.obs}
    BY <2>2
  <2>4. live' \subseteq Observers /\ observer' \in Observers \cup {NoObserver}
    BY <2>2
  <2> QED
    BY <1>2, <2>1, <2>3, <2>4, ControlMoves
<1>6. CASE StartObserver(t)
  <2>1. PICK o \in Observers \ live :
            /\ live' = live \cup {o}
            /\ control' = [control EXCEPT ![t].pc = "handle", ![t].obs = o]
    BY <1>6 DEF StartObserver
  <2> DEFINE n == [control[t] EXCEPT !.pc = "handle", !.obs = o]
  <2>2. n \in ControlStates /\ n.pc = "handle" /\ n.obs = o
    BY DEF ControlStates, ResumeSteps
  <2>3. control' = [control EXCEPT ![t] = n]
    BY <2>1 DEF ControlStates
  <2> HIDE DEF n
  <2>4. StepInv(n) /\ control[t].obs = NoObserver
    BY <1>6, <2>2 DEF StartObserver, At, StepInv
  <2>5. observer' = observer /\ live' \subseteq Observers /\ control[t].pc = "start"
    BY <1>6, <2>1 DEF StartObserver, At
  <2>6. "overlap" \notin incidents =>
            /\ live \subseteq {observer, control[t].obs} => live' \subseteq {observer', n.obs}
            /\ observer' = NoObserver
    BY <1>3, <2>1, <2>2, <2>4, <2>5
  <2> QED
    BY <1>2, <2>2, <2>3, <2>4, <2>5, <2>6, ControlMoves
<1>7. CASE SetHandle(t)
  <2>1. PICK n \in ControlStates : /\ control' = [control EXCEPT ![t] = n] /\ StepInv(n)
                                   /\ n.pc \in {"flag", "idle"} /\ n.obs = NoObserver
    BY <1>7, Returned DEF SetHandle
  <2>2. live' = live /\ observer' = control[t].obs /\ control[t].pc = "handle"
    BY <1>7 DEF SetHandle, At
  <2>3. "overlap" \notin incidents /\ live \subseteq {observer, control[t].obs}
            => live' \subseteq {observer', n.obs}
    BY <1>3, <2>1, <2>2
  <2>4. live' \subseteq Observers /\ observer' \in Observers \cup {NoObserver}
    BY <2>2 DEF ControlStates
  <2> QED
    BY <1>2, <2>1, <2>3, <2>4, ControlMoves
<1> QED
  BY <1>4, <1>5, <1>6, <1>7

LEMMA WatcherStep == WatcherInv /\ [WatcherNext]_watcherVars => WatcherInv'
<1> SUFFICES ASSUME WatcherInv, [WatcherNext]_watcherVars PROVE WatcherInv'
  OBVIOUS
<1>0. "monitor" \in Controllers /\ \A t \in WatchRequests : t \in Controllers
  BY DEF Controllers
<1>1. CASE UNCHANGED watcherVars
  BY <1>1 DEF watcherVars, flags, settings, threads, WatcherInv, WatcherTypeOK, ControlOrderInv, Orphans
<1>2. CASE ConditionChanges
  <2>1. /\ UNCHANGED <<watcherPaused, manuallyPaused, pauseSetting, ingestSetting, observer, live,
                       control, incidents>>
        /\ condition' \in Conditions
    BY <1>2 DEF ConditionChanges, flags, settings, threads
  <2>2. events' \in Nat
    BY <1>2, WatcherEventType DEF ConditionChanges
  <2> QED
    BY <2>1, <2>2 DEF WatcherInv, WatcherTypeOK, ControlOrderInv, Orphans
<1>3. CASE Restart
  <2>1. condition \in Conditions /\ pauseSetting \in BOOLEAN /\ ingestSetting \in BOOLEAN
    BY DEF WatcherInv, WatcherTypeOK
  <2>2. /\ condition' \in Conditions /\ watcherPaused' \in BOOLEAN /\ manuallyPaused' \in BOOLEAN
        /\ pauseSetting' \in BOOLEAN /\ ingestSetting' \in BOOLEAN
        /\ observer' = NoObserver /\ live' = {} /\ events' \in Nat /\ incidents' = {}
    BY <1>3, <2>1, WatcherEventType DEF Restart, settings
  <2>3. control' = [t \in Controllers |->
                    IF t = "monitor" THEN [Free EXCEPT !.task = "boot", !.pc = "load"] ELSE Free]
    BY <1>3 DEF Restart
  <2>4. \A t \in Controllers : /\ control'[t] \in ControlStates /\ StepInv(control'[t])
                               /\ control'[t].pc \notin {"start", "handle"}
                               /\ t # "monitor" => control'[t] = Free
    BY <2>3, FreeState, BootState
  <2>5. WatcherTypeOK'
    BY <2>2, <2>3, <2>4 DEF WatcherTypeOK, ControlStates
  <2>6. ControlOrderInv'
    BY <2>2, <2>4 DEF ControlOrderInv, Orphans
  <2> QED
    BY <2>4, <2>5, <2>6 DEF WatcherInv
<1>4. ASSUME NEW t \in Controllers, ControllerStep(t) PROVE WatcherInv'
  BY <1>4, HandlersKeep, ObserversKeep DEF ControllerStep
<1>5. CASE MonitorStep
  BY <1>0, <1>4, <1>5, BeginningsKeep, HandlersKeep DEF MonitorStep
<1>6. ASSUME NEW t \in WatchRequests, UserStep(t) PROVE WatcherInv'
  BY <1>0, <1>6, BeginningsKeep DEF UserStep
<1> QED
  BY <1>0, <1>1, <1>2, <1>3, <1>4, <1>5, <1>6 DEF WatcherNext

LEMMA WatcherAlways == WatcherSpec => []WatcherInv
  BY WatcherInitInv, WatcherStep, PTL DEF WatcherSpec

(* Every variable of the watcher control keeps its type.                   *)
THEOREM WatcherTypeCorrect == WatcherSpec => []WatcherTypeOK
<1>1. WatcherInv => WatcherTypeOK
  BY DEF WatcherInv
<1> QED
  BY <1>1, WatcherAlways, PTL

(* resume_watcher starts its observer outside the lock: an observer that   *)
(* no pause can stop comes only from controllers that overlap.             *)
THEOREM OrphansNeedAnOverlap == WatcherSpec => []OrphansOnlyFromRaces
<1>1. WatcherInv => OrphansOnlyFromRaces
  BY DEF WatcherInv, ControlOrderInv, OrphansOnlyFromRaces
<1> QED
  BY <1>1, WatcherAlways, PTL

-------------------------------------------------------------------------------
(* A pause that holds: a step of a controller that goes to n.              *)
LEMMA PauseKept ==
    ASSUME WatcherInv, PauseHolds, NEW t \in Controllers, NEW n \in ControlStates,
           control' = [control EXCEPT ![t] = n],
           pauseSetting', observer' = NoObserver, live' \subseteq live,
           manuallyPaused => manuallyPaused', watcherPaused => watcherPaused',
           control[t].pc = "stop" => control[t].obs \notin live',
           n.pc \notin ResumeSteps, n.task \notin {"resume", "enable"},
           t = "monitor" => /\ n.task # "boot" \/ n.pc = "check"
                            /\ manuallyPaused' /\ watcherPaused'
    PROVE  PauseHolds'
<1>1. control'[t] = n /\ \A u \in Controllers \ {t} : control'[u] = control[u]
  BY WatcherTypeFacts
<1>2. "monitor" \in Controllers
  BY DEF Controllers
<1>3. IF Serving' \/ At("monitor", "check")'
        THEN manuallyPaused' /\ watcherPaused' ELSE At("monitor", "load")'
  <2>1. CASE t = "monitor"
    BY <1>1, <2>1 DEF Serving, At
  <2>2. CASE t # "monitor"
    <3>1. control'["monitor"] = control["monitor"]
      BY <1>1, <1>2, <2>2
    <3> QED
      BY <3>1 DEF PauseHolds, Serving, At
  <2> QED
    BY <2>1, <2>2
<1>4. live' \subseteq {control'[u].obs : u \in {v \in Controllers : control'[v].pc = "stop"}}
  <2> SUFFICES ASSUME NEW o \in live'
               PROVE  \E u \in Controllers : control'[u].pc = "stop" /\ control'[u].obs = o
    OBVIOUS
  <2>1. PICK u \in Controllers : control[u].pc = "stop" /\ control[u].obs = o
    BY DEF PauseHolds, At
  <2>2. u # t
    BY <2>1
  <2> QED
    BY <1>1, <2>1, <2>2
<1>5. \A u \in Controllers : ~Resuming(u)' /\ control'[u].task \notin {"resume", "enable"}
  <2> TAKE u \in Controllers
  <2>1. CASE u = t
    BY <1>1, <2>1 DEF Resuming, At
  <2>2. CASE u # t
    <3>1. control'[u] = control[u] /\ ~Resuming(u) /\ control[u].task \notin {"resume", "enable"}
      BY <1>1, <2>2 DEF PauseHolds
    <3> QED
      BY <3>1 DEF Resuming, At
  <2> QED
    BY <2>1, <2>2
<1> QED
  BY <1>3, <1>4, <1>5 DEF PauseHolds, At

LEMMA PausedFacts ==
    ASSUME WatcherInv, PauseHolds, NEW t \in Controllers
    PROVE  /\ pauseSetting /\ observer = NoObserver
           /\ control[t].pc \notin ResumeSteps /\ control[t].task \notin {"resume", "enable"}
           /\ "monitor" \in Controllers
           /\ control["monitor"].pc # "load" =>
                /\ manuallyPaused /\ watcherPaused
                /\ control["monitor"].pc # "check" => control["monitor"].task # "boot"
BY DEF PauseHolds, Resuming, Serving, At, Controllers

LEMMA PauseControllers ==
    ASSUME WatcherInv, PauseHolds, NEW t \in Controllers, ControllerStep(t)
    PROVE  PauseHolds'
<1> USE WatcherTypeFacts, PausedFacts
<1>1. CASE SavePause(t)
  <2>1. control[t].pc = "save" /\ control[t].task = "pause" /\ Goto(t, "look")
    BY <1>1 DEF SavePause, At, StepInv
  <2>2. PICK n \in ControlStates : /\ control' = [control EXCEPT ![t] = n] /\ StepInv(n)
                                   /\ n.pc = "look" /\ n.task = control[t].task
    BY <2>1, Gone
  <2>3. /\ pauseSetting' /\ observer' = NoObserver /\ live' = live
        /\ manuallyPaused' = manuallyPaused /\ watcherPaused' = watcherPaused
    BY <1>1, <2>1 DEF SavePause, flags, threads
  <2> QED
    BY <2>1, <2>2, <2>3, PauseKept DEF ResumeSteps
<1>2. CASE LookAtFlag(t)
  <2>1. control[t].pc = "look" /\ control[t].task = "pause"
    BY <1>2 DEF LookAtFlag, At, StepInv
  <2>2. Goto(t, "take") \/ control' = [control EXCEPT ![t] = Free]
    BY <1>2, <2>1 DEF LookAtFlag
  <2>3. PICK n \in ControlStates : /\ control' = [control EXCEPT ![t] = n]
                                   /\ n.pc \in {"take", "idle"} /\ n.task \in {"pause", "none"}
    BY <2>1, <2>2, Gone, FreeState
  <2>4. /\ pauseSetting' /\ observer' = NoObserver /\ live' = live
        /\ manuallyPaused' = manuallyPaused /\ watcherPaused' = watcherPaused
    BY <1>2 DEF LookAtFlag, flags, settings, threads
  <2> QED
    BY <2>1, <2>3, <2>4, PauseKept DEF ResumeSteps
<1>3. CASE TakeHandle(t)
  <2> DEFINE n == [control[t] EXCEPT !.pc = "stop", !.obs = observer]
  <2>1. /\ n \in ControlStates /\ n.pc = "stop" /\ n.task = control[t].task
    BY DEF ControlStates
  <2>2. control' = [control EXCEPT ![t] = n]
    BY <1>3 DEF TakeHandle, ControlStates
  <2>3. control[t].pc = "take" /\ control[t].task \in {"pause", "disable"}
    BY <1>3 DEF TakeHandle, At, StepInv
  <2> HIDE DEF n
  <2>4. /\ pauseSetting' /\ observer' = NoObserver /\ live' = live
        /\ manuallyPaused' = manuallyPaused /\ watcherPaused' = watcherPaused
    BY <1>3 DEF TakeHandle, flags, settings
  <2> QED
    BY <2>1, <2>2, <2>3, <2>4, PauseKept DEF ResumeSteps
<1>4. CASE StopObserver(t)
  <2>1. control[t].pc = "stop" /\ control[t].task \in {"pause", "disable"}
    BY <1>4 DEF StopObserver, At, StepInv
  <2>2. PICK n \in ControlStates : /\ control' = [control EXCEPT ![t] = n] /\ StepInv(n)
                                   /\ n.pc \in {"flag", "idle"}
                                   /\ n.task \in {"none", "pause", "disable"}
    <3>1. CASE control[t].task = "pause"
      BY <1>4, <3>1, Returned DEF StopObserver
    <3>2. CASE control[t].task = "disable"
      BY <1>4, <3>2, FreeState DEF StopObserver, Return
    <3> QED
      BY <2>1, <3>1, <3>2
  <2>3. /\ pauseSetting' /\ observer' = NoObserver /\ live' = live \ {control[t].obs}
        /\ manuallyPaused' = manuallyPaused /\ watcherPaused' = watcherPaused
    BY <1>4 DEF StopObserver, flags, settings
  <2> QED
    BY <2>1, <2>2, <2>3, PauseKept DEF ResumeSteps
<1>5. CASE SetFlag(t)
  <2>1. control[t].pc = "flag" /\ control[t].task = "pause"
    BY <1>5 DEF SetFlag, At, StepInv
  <2>2. control' = [control EXCEPT ![t] = Free]
    BY <1>5 DEF SetFlag
  <2>3. /\ pauseSetting' /\ observer' = NoObserver /\ live' = live
        /\ manuallyPaused' = manuallyPaused /\ watcherPaused'
    BY <1>5, <2>1 DEF SetFlag, settings, threads
  <2> QED
    BY <2>1, <2>2, <2>3, PauseKept, FreeState DEF ResumeSteps
<1>6. ~(ReadSetting(t) \/ CheckRunning(t) \/ StartObserver(t) \/ StartFails(t) \/ SetHandle(t))
  BY DEF ReadSetting, CheckRunning, StartObserver, StartFails, SetHandle, At, ResumeSteps
<1> QED
  BY <1>1, <1>2, <1>3, <1>4, <1>5, <1>6 DEF ControllerStep

LEMMA PauseStep ==
    ASSUME WatcherInv, [WatcherNext]_watcherVars, PauseHolds
    PROVE  \/ PauseHolds'
           \/ LoadPause /\ ~DatabaseUp
           \/ \E t \in WatchRequests : PressResume(t) \/ SwitchIngest(t, TRUE)
           \/ UNCHANGED watcherVars
<1> USE WatcherTypeFacts, PausedFacts
<1>0. "monitor" \in Controllers /\ \A t \in WatchRequests : t \in Controllers /\ t # "monitor"
  BY ControllersAssumption DEF Controllers
<1>1. ASSUME NEW t \in WatchRequests, PressPause(t) \/ SwitchIngest(t, FALSE) PROVE PauseHolds'
  <2>1. /\ pauseSetting' /\ observer' = NoObserver /\ live' = live /\ control[t] = Free
        /\ manuallyPaused => manuallyPaused'
        /\ watcherPaused' = watcherPaused
    <3>0. pauseSetting /\ observer = NoObserver
      BY <1>0
    <3>1. CASE PressPause(t)
      BY <3>0, <3>1 DEF PressPause, settings, threads
    <3>2. CASE SwitchIngest(t, FALSE)
      BY <3>0, <3>2 DEF SwitchIngest, flags, threads
    <3> QED
      BY <1>1, <3>1, <3>2
  <2>2. Begin(t, "pause", "save") \/ Begin(t, "disable", "take")
    BY <1>1 DEF PressPause, SwitchIngest
  <2>3. PICK n \in ControlStates : /\ control' = [control EXCEPT ![t] = n]
                                   /\ n.pc \in {"save", "take"} /\ n.task \in {"pause", "disable"}
    BY <1>0, <2>1, <2>2, Begun
  <2>4. control[t].pc # "stop"
    BY <2>1, FreeState
  <2> QED
    BY <1>0, <2>1, <2>3, <2>4, PauseKept DEF ResumeSteps
<1>2. ~CheckPauses /\ ~CheckResumes
  BY <1>0, FreeState DEF CheckPauses, CheckResumes
<1>3. ASSUME LoadPause, DatabaseUp PROVE PauseHolds'
  <2>1. control["monitor"].pc = "load" /\ Goto("monitor", "check")
    BY <1>3 DEF LoadPause, At
  <2>2. PICK n \in ControlStates : /\ control' = [control EXCEPT !["monitor"] = n]
                                   /\ n.pc = "check" /\ n.task = control["monitor"].task
    BY <1>0, <2>1, Gone
  <2>3. /\ pauseSetting' /\ observer' = NoObserver /\ live' = live /\ manuallyPaused' /\ watcherPaused'
    BY <1>0, <1>3 DEF LoadPause, settings, threads
  <2> QED
    BY <1>0, <2>1, <2>2, <2>3, PauseKept DEF ResumeSteps
<1>4. ASSUME CheckAtStart PROVE PauseHolds'
  <2>1. control["monitor"].pc = "check" /\ manuallyPaused /\ watcherPaused
    BY <1>0, <1>4 DEF CheckAtStart, At
  <2>2. /\ pauseSetting' /\ observer' = NoObserver /\ live' = live /\ manuallyPaused' /\ watcherPaused'
        /\ control' = [control EXCEPT !["monitor"] = Free]
    BY <1>0, <1>4, <2>1 DEF CheckAtStart, settings, threads
  <2> QED
    BY <1>0, <2>1, <2>2, PauseKept, FreeState DEF ResumeSteps
<1>5. ASSUME Restart PROVE PauseHolds'
  <2>1. /\ pauseSetting' /\ observer' = NoObserver /\ live' = {}
        /\ control' = [t \in Controllers |->
                    IF t = "monitor" THEN [Free EXCEPT !.task = "boot", !.pc = "load"] ELSE Free]
    BY <1>0, <1>5 DEF Restart, settings
  <2>2. \A t \in Controllers : /\ control'[t].pc \in {"load", "idle"}
                               /\ control'[t].task \in {"boot", "none"}
    BY <2>1 DEF Free
  <2>3. control'["monitor"].pc = "load" /\ control'["monitor"].task = "boot"
    BY <1>0, <2>1 DEF Free
  <2> QED
    BY <2>1, <2>2, <2>3 DEF PauseHolds, Serving, At, Resuming, ResumeSteps
<1>6. ASSUME ConditionChanges PROVE PauseHolds'
  BY <1>6 DEF ConditionChanges, flags, settings, threads, PauseHolds, Serving, At, Resuming
<1>7. ASSUME NEW t \in WatchRequests, ControllerStep(t) \/ UserStep(t)
      PROVE  \/ PauseHolds'
             \/ PressResume(t) \/ SwitchIngest(t, TRUE)
  <2>1. ASSUME NEW on \in BOOLEAN, SwitchIngest(t, on) PROVE SwitchIngest(t, TRUE) \/ SwitchIngest(t, FALSE)
    BY <2>1
  <2> QED
    BY <1>0, <1>1, <1>7, <2>1, PauseControllers DEF UserStep
<1> QED
  BY <1>0, <1>2, <1>3, <1>4, <1>5, <1>6, <1>7, PauseControllers DEF WatcherNext, MonitorStep

(* The user's pause, once it is saved and the observer is down, is undone  *)
(* by nobody else: not by the monitor, which looks at manually_paused, not *)
(* by another handler and not by a restart, which loads it.                *)
THEOREM PauseIsTheUsers == WatcherSpec => PauseSticks
<1>1. WatcherInv /\ [WatcherNext]_watcherVars =>
        [PauseHolds => \/ PauseHolds'
                       \/ LoadPause /\ ~DatabaseUp
                       \/ \E t \in WatchRequests : PressResume(t) \/ SwitchIngest(t, TRUE)
        ]_watcherVars
  BY PauseStep
<1> QED
  BY <1>1, WatcherAlways, PTL DEF WatcherSpec, PauseSticks

-------------------------------------------------------------------------------
(* Ingest: whatever finders meet over a clip, the unique hash gives it one *)
(* row, one submission, and no finder drops it.                            *)

(* A row is known by its id and by its hash, and hashes what the clip held. *)
TableInv ==
    /\ \A r, s \in tracked : r.id = s.id \/ r.hash = s.hash => r = s
    /\ \A r \in tracked : r.id <= lastId /\ r.hash.content = content[r.clip]

(* What a finder has in hand is of its clip, and the job that it publishes *)
(* is its own: nobody else has published it, unless it counts as resent.   *)
FinderInv ==
    /\ \A f \in Finders :
        /\ finder[f].pc \in {"look", "insert"} =>
               finder[f].hash.content = content[finder[f].clip]
        /\ finder[f].pc = "publish" => finder[f].id \in 1..lastId
        /\ finder[f].tries > 0 => finder[f].pc = "publish" /\ finder[f].id \in resent
        /\ finder[f].pc = "publish" /\ finder[f].id \notin resent => messages[finder[f].id] = 0
    /\ \A f, g \in Finders :
        finder[f].pc = "publish" /\ finder[g].pc = "publish" /\ finder[f].id = finder[g].id
            => f = g
    /\ \A i \in 1..MaxRows : i > lastId => messages[i] = 0 /\ i \notin resent

IngestInv == IngestTypeOK /\ TableInv /\ FinderInv /\ SubmittedOnce /\ PassedIsTracked

-------------------------------------------------------------------------------
(* A finder at rest has the types of a finder.                             *)
LEMMA RestingType ==
    /\ NoClip \in Clips /\ NoHash \in Hashes
    /\ Resting \in FinderStates
    /\ Resting.pc = "idle" /\ Resting.tries = 0
BY IngestAssumption DEF NoClip, NoHash, Resting, Hashes, Attempts, FinderStates

(* An update of a record's field keeps the record in its set.              *)
LEMMA RecordUpdate ==
    ASSUME NEW P, NEW T, NEW C, NEW H, NEW I, NEW K,
           NEW g \in [pc : P, todo : T, clip : C, hash : H, id : I, tries : K]
    PROVE  /\ \A s \in T : [g EXCEPT !.todo = s]
                    \in [pc : P, todo : T, clip : C, hash : H, id : I, tries : K]
           /\ \A q \in P, c \in C, h \in H : [g EXCEPT !.pc = q, !.clip = c, !.hash = h]
                    \in [pc : P, todo : T, clip : C, hash : H, id : I, tries : K]
           /\ \A q \in P : [g EXCEPT !.pc = q]
                    \in [pc : P, todo : T, clip : C, hash : H, id : I, tries : K]
           /\ \A q \in P, i \in I : [g EXCEPT !.pc = q, !.id = i]
                    \in [pc : P, todo : T, clip : C, hash : H, id : I, tries : K]
           /\ \A k \in K : [g EXCEPT !.tries = k]
                    \in [pc : P, todo : T, clip : C, hash : H, id : I, tries : K]
           /\ g.pc \in P /\ g.todo \in T /\ g.clip \in C /\ g.hash \in H /\ g.id \in I
           /\ g.tries \in K
OBVIOUS

(* What a step may change of a finder leaves it a finder.                  *)
LEMMA FinderUpdate ==
    ASSUME NEW g \in FinderStates
    PROVE  /\ \A s \in SUBSET Clips : [g EXCEPT !.todo = s] \in FinderStates
           /\ \A s \in SUBSET Clips : [Resting EXCEPT !.todo = s] \in FinderStates
           /\ \A c \in Clips, h \in Hashes :
                [g EXCEPT !.pc = "look", !.clip = c, !.hash = h] \in FinderStates
           /\ [g EXCEPT !.pc = "insert"] \in FinderStates
           /\ \A i \in 1..MaxRows : [g EXCEPT !.pc = "publish", !.id = i] \in FinderStates
           /\ g.tries + 1 < Attempts => [g EXCEPT !.tries = @ + 1] \in FinderStates
           /\ g.todo \in SUBSET Clips /\ g.clip \in Clips /\ g.hash \in Hashes
           /\ g.id \in 0..MaxRows /\ g.tries \in 0..Attempts
<1> DEFINE P == {"idle", "look", "insert", "publish"}
<1> DEFINE T == SUBSET Clips
<1> DEFINE I == 0..MaxRows
<1> DEFINE K == 0..Attempts
<1>1. FinderStates = [pc : P, todo : T, clip : Clips, hash : Hashes, id : I, tries : K]
  BY DEF FinderStates
<1>2. Resting \in FinderStates /\ "look" \in P /\ "insert" \in P /\ "publish" \in P
  BY RestingType
<1>3. \A i \in 1..MaxRows : i \in I
  BY IngestAssumption
<1> HIDE DEF P, T, I, K
<1>4. /\ \A s \in T : [g EXCEPT !.todo = s] \in FinderStates
      /\ \A c \in Clips, h \in Hashes :
                [g EXCEPT !.pc = "look", !.clip = c, !.hash = h] \in FinderStates
      /\ [g EXCEPT !.pc = "insert"] \in FinderStates
      /\ \A i \in 1..MaxRows : [g EXCEPT !.pc = "publish", !.id = i] \in FinderStates
      /\ \A k \in K : [g EXCEPT !.tries = k] \in FinderStates
      /\ g.todo \in T /\ g.clip \in Clips /\ g.hash \in Hashes /\ g.id \in I /\ g.tries \in K
  BY <1>1, <1>2, <1>3, RecordUpdate
<1>5. \A s \in T : [Resting EXCEPT !.todo = s] \in FinderStates
  BY <1>1, <1>2, RecordUpdate
<1> USE DEF T, I, K
<1>6. g.tries + 1 < Attempts => [g EXCEPT !.tries = @ + 1] \in FinderStates
  <2>0. g.tries \in 0..Attempts
    BY <1>4
  <2>1. g.tries + 1 < Attempts => g.tries + 1 \in 0..Attempts
    BY <2>0 DEF Attempts
  <2> QED
    BY <1>4, <2>1
<1> QED
  BY <1>4, <1>5, <1>6

LEMMA IngestInitInv == IngestInit => IngestInv
<1> SUFFICES ASSUME IngestInit PROVE IngestInv
  OBVIOUS
<1>1. IngestTypeOK
  BY RestingType, IngestAssumption DEF IngestInit, IngestTypeOK
<1>2. TableInv /\ FinderInv
  BY RestingType, IngestAssumption DEF IngestInit, TableInv, FinderInv
<1>3. SubmittedOnce /\ PassedIsTracked
  BY DEF IngestInit, SubmittedOnce, PassedIsTracked
<1> QED
  BY <1>1, <1>2, <1>3 DEF IngestInv

-------------------------------------------------------------------------------
(* Each step keeps the types.                                              *)
LEMMA IngestTypeStep ==
    ASSUME IngestTypeOK, FinderInv, [IngestNext]_ingestVars
    PROVE  IngestTypeOK'
<1> USE DEF IngestTypeOK
<1>1. ASSUME NEW c \in Clips, ClipAppears(c) PROVE IngestTypeOK'
  <2> PICK state \in {"growing", "complete"}, running \in SUBSET Watchers :
        /\ file' = [file EXCEPT ![c] = state]
        /\ finder' = [f \in Finders |->
                        IF f \in running THEN [finder[f] EXCEPT !.todo = @ \cup {c}] ELSE finder[f]]
    BY <1>1 DEF ClipAppears
  <2>1. \A f \in Finders : [finder[f] EXCEPT !.todo = @ \cup {c}] \in FinderStates
    <3> TAKE f \in Finders
    <3>1. finder[f].todo \cup {c} \in SUBSET Clips
      BY FinderUpdate
    <3> QED
      BY <3>1, FinderUpdate
  <2> QED
    BY <1>1, <2>1 DEF ClipAppears, ingestTable
<1>2. ASSUME NEW c \in Clips, ClipCompletes(c) \/ ClipProcessed(c) PROVE IngestTypeOK'
  BY <1>2 DEF ClipCompletes, ClipProcessed, ingestTable
<1>3. ASSUME NEW f \in Scans, StartScan(f) PROVE IngestTypeOK'
  <2> DEFINE candidates == {c \in Clips : file[c] \in {"growing", "complete"}}
  <2>1. [finder[f] EXCEPT !.todo = candidates] \in FinderStates
    BY FinderUpdate DEF Finders
  <2> QED
    BY <1>3, <2>1 DEF StartScan, ingestTable
<1>4. ASSUME NEW f \in Finders, NEW c \in Clips, HashClip(f, c) PROVE IngestTypeOK'
  <2>1. Hash(c) \in Hashes
    BY DEF Hash, Hashes
  <2>2. /\ [finder[f] EXCEPT !.pc = "look", !.clip = c, !.hash = Hash(c)] \in FinderStates
        /\ [finder[f] EXCEPT !.todo = finder[f].todo \ {c}] \in FinderStates
    <3>1. finder[f].todo \ {c} \in SUBSET Clips
      BY FinderUpdate
    <3> QED
      BY <2>1, <3>1, FinderUpdate
  <2> DEFINE next == IF file[c] \in {"growing", "complete"}
                     THEN [finder[f] EXCEPT !.pc = "look", !.clip = c, !.hash = Hash(c)]
                     ELSE [finder[f] EXCEPT !.todo = finder[f].todo \ {c}]
  <2>3. finder' = [finder EXCEPT ![f] = next] /\ next \in FinderStates
    BY <1>4, <2>2 DEF HashClip
  <2> HIDE DEF next
  <2>4. finder' \in [Finders -> FinderStates]
    BY <2>3
  <2> QED
    BY <1>4, <2>4 DEF HashClip, ingestTable
<1>5. ASSUME NEW f \in Finders
      PROVE  /\ [Resting EXCEPT !.todo = finder[f].todo \ {finder[f].clip}] \in FinderStates
             /\ [Resting EXCEPT !.todo = {}] \in FinderStates
             /\ [clip |-> finder[f].clip, hash |-> finder[f].hash] \in [clip : Clips, hash : Hashes]
  <2>1. finder[f].todo \ {finder[f].clip} \in SUBSET Clips
    BY FinderUpdate
  <2> QED
    BY <2>1, FinderUpdate
<1>6. ASSUME NEW f \in Finders, LookUp(f) PROVE IngestTypeOK'
  <2>1. [finder[f] EXCEPT !.pc = "insert"] \in FinderStates
    BY FinderUpdate
  <2>2. finder' \in [Finders -> FinderStates] /\ passed' \subseteq [clip : Clips, hash : Hashes]
    BY <1>5, <1>6, <2>1 DEF LookUp, NextClip, Pass
  <2> QED
    BY <1>6, <2>2 DEF LookUp, ingestTable
<1>7. ASSUME NEW f \in Finders, Insert(f) PROVE IngestTypeOK'
  <2>1. CASE Known(finder[f].hash)
    <3>1. finder' \in [Finders -> FinderStates] /\ passed' \subseteq [clip : Clips, hash : Hashes]
      BY <1>5, <1>7, <2>1 DEF Insert, NextClip, Pass
    <3> QED
      BY <1>7, <2>1, <3>1 DEF Insert, ingestTable
  <2>2. CASE ~Known(finder[f].hash)
    <3>1. lastId + 1 \in 1..MaxRows
      BY <1>7, <2>2, IngestAssumption DEF Insert
    <3>2. NewRow(f) \in Rows
      BY <3>1, FinderUpdate DEF NewRow, Rows
    <3>3. [finder[f] EXCEPT !.pc = "publish", !.id = lastId + 1] \in FinderStates
      BY <3>1, FinderUpdate
    <3>4. /\ tracked' = tracked \cup {NewRow(f)} /\ lastId' = lastId + 1
          /\ finder' = [finder EXCEPT ![f] = [@ EXCEPT !.pc = "publish", !.id = lastId + 1]]
      BY <1>7, <2>2 DEF Insert
    <3>5. tracked' \subseteq Rows /\ lastId' \in 0..MaxRows /\ finder' \in [Finders -> FinderStates]
      BY <3>1, <3>2, <3>3, <3>4
    <3>6. passed' \subseteq [clip : Clips, hash : Hashes]
      BY <1>5, <1>7 DEF Insert, Pass
    <3> QED
      BY <1>7, <3>5, <3>6 DEF Insert
  <2> QED
    BY <2>1, <2>2
<1>8. ASSUME NEW f \in Finders, TableFails(f) \/ PublishJob(f) PROVE IngestTypeOK'
  <2>1. CASE TableFails(f)
    <3>0. finder' \in [Finders -> FinderStates]
      <4>1. CASE f \in Scans
        BY <1>5, <2>1, <4>1 DEF TableFails, Abort
      <4>2. CASE f \notin Scans
        BY <1>5, <2>1, <4>2 DEF TableFails, Abort
      <4> QED
        BY <4>1, <4>2
    <3>1. finder' \in [Finders -> FinderStates] /\ ingestFaults' \in Nat
      BY <2>1, <3>0 DEF TableFails, IngestFault
    <3> QED
      BY <2>1, <3>1 DEF TableFails, ingestTable
  <2>2. CASE PublishJob(f)
    <3>1. finder[f].id \in 1..MaxRows
      BY <2>2, IngestAssumption DEF PublishJob, HasPublisher, FinderInv
    <3>2. messages' \in [1..MaxRows -> Nat]
      BY <2>2, <3>1 DEF PublishJob, Deliver
    <3>3. finder' \in [Finders -> FinderStates]
      BY <1>5, <2>2 DEF PublishJob, NextClip
    <3> QED
      BY <2>2, <3>2, <3>3 DEF PublishJob, ingestTable
  <2> QED
    BY <1>8, <2>1, <2>2
<1>9. ASSUME NEW f \in Finders, PublishRaises(f) PROVE IngestTypeOK'
  <2>1. finder[f].id \in 1..MaxRows
    BY <1>9, IngestAssumption DEF PublishRaises, HasPublisher, FinderInv
  <2>2. messages' \in [1..MaxRows -> Nat]
    BY <1>9, <2>1 DEF PublishRaises, Deliver
  <2>3. finder' \in [Finders -> FinderStates] /\ resent' \subseteq 1..MaxRows
    <3>1. CASE finder[f].tries + 1 < Attempts
      <4>1. [finder[f] EXCEPT !.tries = @ + 1] \in FinderStates
        BY <3>1, FinderUpdate
      <4> QED
        BY <1>9, <2>1, <3>1, <4>1 DEF PublishRaises
    <3>2. CASE ~(finder[f].tries + 1 < Attempts)
      BY <1>5, <1>9, <3>2 DEF PublishRaises, Abort
    <3> QED
      BY <3>1, <3>2
  <2>4. ingestFaults' \in Nat
    BY <1>9 DEF PublishRaises, IngestFault
  <2> QED
    BY <1>9, <2>2, <2>3, <2>4 DEF PublishRaises, ingestTable
<1>10. ASSUME NEW r \in tracked, RemoveJob(r) PROVE IngestTypeOK'
  BY <1>10 DEF RemoveJob, IngestFault
<1>11. ASSUME RestartIngest PROVE IngestTypeOK'
  <2> DEFINE owed == {r.id : r \in {x \in tracked : file[x.clip] # "processed"}}
  <2>0. resent' = resent \cup owed /\ ingestFaults' = ingestFaults + 1
    BY <1>11 DEF RestartIngest, IngestFault
  <2>1. owed \subseteq 1..MaxRows
    <3>1. \A x \in tracked : x.id \in 1..MaxRows
      BY DEF Rows
    <3> QED
      BY <3>1
  <2> HIDE DEF owed
  <2>2. resent' \subseteq 1..MaxRows /\ ingestFaults' \in Nat
    BY <2>0, <2>1
  <2>3. finder' \in [Finders -> FinderStates]
    BY <1>11, RestingType DEF RestartIngest
  <2>4. messages' \in [1..MaxRows -> Nat]
    BY <1>11 DEF RestartIngest
  <2> QED
    BY <1>11, <2>2, <2>3, <2>4 DEF RestartIngest, ingestTable
<1>12. ASSUME UNCHANGED ingestVars PROVE IngestTypeOK'
  BY <1>12 DEF ingestVars, ingestTable
<1> QED
  BY <1>1, <1>2, <1>3, <1>4, <1>5, <1>6, <1>7, <1>8, <1>9, <1>10, <1>11, <1>12
  DEF IngestNext, FinderStep

-------------------------------------------------------------------------------
(* Each step keeps what finders know.                                      *)
Knowledge == TableInv /\ FinderInv /\ SubmittedOnce

(* A finder that comes to a clip, looks it up or leaves it.                *)
LEMMA FinderMoves ==
    ASSUME IngestInv, NEW f \in Finders, NEW n,
           finder' = [finder EXCEPT ![f] = n],
           UNCHANGED <<content, ingestTable, messages, resent>>,
           n.pc \in {"look", "insert"} => n.hash.content = content[n.clip],
           n.pc # "publish", n.tries = 0
    PROVE  Knowledge'
<1>1. /\ finder'[f] = n /\ \A g \in Finders \ {f} : finder'[g] = finder[g]
  BY DEF IngestInv, IngestTypeOK
<1>2. TableInv' /\ SubmittedOnce'
  BY DEF IngestInv, TableInv, SubmittedOnce, ingestTable
<1>3. FinderInv'
  BY <1>1 DEF IngestInv, FinderInv, ingestTable
<1> QED
  BY <1>2, <1>3 DEF Knowledge

LEMMA RestingMoves ==
    ASSUME IngestInv, NEW f \in Finders, NextClip(f) \/ Abort(f),
           UNCHANGED <<content, ingestTable, messages, resent>>
    PROVE  Knowledge'
<1>1. \A s : [Resting EXCEPT !.todo = s].pc = "idle" /\ [Resting EXCEPT !.todo = s].tries = 0
  BY DEF Resting
<1>2. PICK s : finder' = [finder EXCEPT ![f] = [Resting EXCEPT !.todo = s]]
  BY DEF NextClip, Abort
<1> DEFINE n == [Resting EXCEPT !.todo = s]
<1>3. n.pc = "idle" /\ n.tries = 0 /\ finder' = [finder EXCEPT ![f] = n]
  BY <1>1, <1>2
<1> HIDE DEF n
<1> QED
  BY <1>3, FinderMoves

(* Files and observers that gain an event.                                 *)
LEMMA MountKeeps ==
    ASSUME IngestInv, NEW c \in Clips, ClipAppears(c) \/ ClipCompletes(c) \/ ClipProcessed(c)
    PROVE  Knowledge'
<1>1. UNCHANGED <<content, ingestTable, messages, resent>>
  BY DEF ClipAppears, ClipCompletes, ClipProcessed
<1>2. \A f \in Finders : /\ finder'[f].pc = finder[f].pc /\ finder'[f].clip = finder[f].clip
                         /\ finder'[f].hash = finder[f].hash /\ finder'[f].id = finder[f].id
                         /\ finder'[f].tries = finder[f].tries
  <2>1. CASE ClipCompletes(c) \/ ClipProcessed(c)
    BY <2>1 DEF ClipCompletes, ClipProcessed
  <2>2. CASE ClipAppears(c)
    <3> TAKE f \in Finders
    <3>1. \/ finder'[f] = finder[f]
          \/ finder'[f] = [finder[f] EXCEPT !.todo = @ \cup {c}]
      BY <2>2 DEF ClipAppears
    <3>2. finder[f] \in FinderStates
      BY DEF IngestInv, IngestTypeOK
    <3> QED
      BY <3>1, <3>2 DEF FinderStates
  <2> QED
    BY <2>1, <2>2
<1>3. TableInv' /\ SubmittedOnce'
  BY <1>1 DEF IngestInv, TableInv, SubmittedOnce, ingestTable
<1>4. FinderInv'
  BY <1>1, <1>2 DEF IngestInv, FinderInv, ingestTable
<1> QED
  BY <1>3, <1>4 DEF Knowledge

LEMMA FindingKeeps ==
    ASSUME IngestInv, NEW f \in Finders,
           \/ f \in Scans /\ StartScan(f)
           \/ \E c \in Clips : HashClip(f, c)
           \/ LookUp(f) \/ TableFails(f)
    PROVE  Knowledge'
<1>0. /\ finder \in [Finders -> FinderStates] /\ finder[f] \in FinderStates
      /\ finder[f].pc # "publish" => finder[f].tries = 0
  <2>1. finder \in [Finders -> FinderStates] /\ finder[f].tries \in 0..Attempts
    BY DEF IngestInv, IngestTypeOK, FinderStates
  <2> QED
    BY <2>1 DEF IngestInv, FinderInv, Attempts
<1>1. UNCHANGED <<content, ingestTable, messages, resent>>
  BY DEF StartScan, HashClip, LookUp, TableFails
<1>2. CASE f \in Scans /\ StartScan(f)
  <2> DEFINE candidates == {c \in Clips : file[c] \in {"growing", "complete"}}
  <2> DEFINE n == [finder[f] EXCEPT !.todo = candidates]
  <2>1. finder' = [finder EXCEPT ![f] = n] /\ finder[f] = Resting
    BY <1>2 DEF StartScan
  <2>2. n.pc = "idle" /\ n.tries = 0
    BY <2>1 DEF Resting
  <2> HIDE DEF n
  <2> QED
    BY <1>1, <2>1, <2>2, FinderMoves
<1>3. ASSUME NEW c \in Clips, HashClip(f, c) PROVE Knowledge'
  <2>1. CASE file[c] \in {"growing", "complete"}
    <3> DEFINE n == [finder[f] EXCEPT !.pc = "look", !.clip = c, !.hash = Hash(c)]
    <3>1. finder' = [finder EXCEPT ![f] = n] /\ finder[f].pc = "idle"
      BY <1>3, <2>1 DEF HashClip
    <3>2. n.pc = "look" /\ n.tries = 0 /\ n.clip = c /\ n.hash.content = content[c]
      BY <1>0, <3>1 DEF FinderStates, Hash
    <3> HIDE DEF n
    <3> QED
      BY <1>1, <3>1, <3>2, FinderMoves
  <2>2. CASE file[c] \notin {"growing", "complete"}
    <3> DEFINE n == [finder[f] EXCEPT !.todo = finder[f].todo \ {c}]
    <3>1. finder' = [finder EXCEPT ![f] = n] /\ finder[f].pc = "idle"
      BY <1>3, <2>2 DEF HashClip
    <3>2. n.pc = "idle" /\ n.tries = 0
      BY <1>0, <3>1 DEF FinderStates
    <3> HIDE DEF n
    <3> QED
      BY <1>1, <3>1, <3>2, FinderMoves
  <2> QED
    BY <2>1, <2>2
<1>4. CASE LookUp(f) /\ ~NextClip(f)
  <2> DEFINE n == [finder[f] EXCEPT !.pc = "insert"]
  <2>1. finder' = [finder EXCEPT ![f] = n] /\ finder[f].pc = "look"
    BY <1>4 DEF LookUp
  <2>2. /\ n.pc = "insert" /\ n.tries = 0 /\ n.hash = finder[f].hash
        /\ n.clip = finder[f].clip
    BY <1>0, <2>1 DEF FinderStates
  <2>3. n.hash.content = content[n.clip]
    BY <2>1, <2>2 DEF IngestInv, FinderInv
  <2> HIDE DEF n
  <2> QED
    BY <1>1, <2>1, <2>2, <2>3, FinderMoves
<1> QED
  BY <1>1, <1>2, <1>3, <1>4, RestingMoves DEF TableFails

LEMMA InsertKeeps ==
    ASSUME IngestInv, NEW f \in Finders, Insert(f)
    PROVE  Knowledge'
<1>0. /\ finder \in [Finders -> FinderStates] /\ lastId \in 0..MaxRows /\ lastId \in Int
      /\ messages \in [1..MaxRows -> Nat] /\ tracked \subseteq Rows
      /\ finder[f] \in FinderStates
  BY IngestAssumption DEF IngestInv, IngestTypeOK
<1>1. UNCHANGED <<content, messages, resent>> /\ finder[f].pc = "insert"
  BY DEF Insert
<1>2. CASE NextClip(f) /\ UNCHANGED ingestTable
  BY <1>1, <1>2, RestingMoves
<1>3. CASE /\ ~Known(finder[f].hash)
           /\ lastId < MaxRows
           /\ tracked' = tracked \cup {NewRow(f)}
           /\ lastId' = lastId + 1
           /\ finder' = [finder EXCEPT ![f].pc = "publish", ![f].id = lastId + 1]
  <2>1. /\ NewRow(f).id = lastId + 1 /\ NewRow(f).hash = finder[f].hash
        /\ NewRow(f).clip = finder[f].clip
    BY DEF NewRow
  <2>2. TableInv'
    <3>1. \A r \in tracked : r.id # NewRow(f).id /\ r.hash # NewRow(f).hash
      <4> TAKE r \in tracked
      <4>1. r.id <= lastId /\ r.id \in Int
        BY <1>0, IngestAssumption DEF IngestInv, TableInv, Rows
      <4> QED
        BY <1>0, <1>3, <2>1, <4>1 DEF Known
    <3>2. \A r, s \in tracked' : r.id = s.id \/ r.hash = s.hash => r = s
      BY <1>3, <3>1 DEF IngestInv, TableInv
    <3>3. \A r \in tracked' : r.id <= lastId' /\ r.hash.content = content'[r.clip]
      <4>1. finder[f].hash.content = content[finder[f].clip]
        BY <1>1 DEF IngestInv, FinderInv
      <4>2. \A r \in tracked : r.id <= lastId + 1 /\ r.hash.content = content[r.clip]
        <5> TAKE r \in tracked
        <5>1. r.id <= lastId /\ r.id \in Int /\ r.hash.content = content[r.clip]
          BY <1>0, IngestAssumption DEF IngestInv, TableInv, Rows
        <5> QED
          BY <1>0, <5>1
      <4> QED
        BY <1>0, <1>1, <1>3, <2>1, <4>1, <4>2
    <3> QED
      BY <3>2, <3>3 DEF TableInv
  <2>3. /\ finder'[f].pc = "publish" /\ finder'[f].id = lastId + 1
        /\ finder'[f].tries = 0
        /\ \A g \in Finders \ {f} : finder'[g] = finder[g]
    <3>1. finder[f].tries = 0
      <4>1. finder[f].tries \in 0..Attempts
        BY <1>0 DEF FinderStates
      <4> QED
        BY <1>1, <4>1 DEF IngestInv, FinderInv, Attempts
    <3> QED
      BY <1>0, <1>3, <3>1 DEF FinderStates
  <2>4. FinderInv'
    <3>1. lastId + 1 \in 1..MaxRows /\ messages[lastId + 1] = 0 /\ lastId + 1 \notin resent
      <4>1. lastId + 1 \in 1..MaxRows /\ lastId + 1 > lastId
        BY <1>0, <1>3, IngestAssumption
      <4> QED
        BY <4>1 DEF IngestInv, FinderInv
    <3>2. \A g \in Finders :
            /\ finder'[g].pc \in {"look", "insert"} =>
                   finder'[g].hash.content = content'[finder'[g].clip]
            /\ finder'[g].pc = "publish" => finder'[g].id \in 1..lastId'
            /\ finder'[g].tries > 0 => finder'[g].pc = "publish" /\ finder'[g].id \in resent'
            /\ finder'[g].pc = "publish" /\ finder'[g].id \notin resent'
                   => messages'[finder'[g].id] = 0
      <4> TAKE g \in Finders
      <4>1. CASE g = f
        BY <1>0, <1>1, <1>3, <2>3, <3>1, <4>1
      <4>2. CASE g # f
        <5>1. finder'[g] = finder[g]
          BY <2>3, <4>2
        <5>2. \A i \in 1..lastId : i \in 1..(lastId + 1)
          BY <1>0
        <5>3. finder[g].pc = "publish" => finder[g].id \in 1..(lastId + 1)
          BY <5>2 DEF IngestInv, FinderInv
        <5>4. UNCHANGED <<content, messages, resent>> /\ lastId' = lastId + 1
          BY <1>1, <1>3
        <5> QED
          BY <5>1, <5>3, <5>4 DEF IngestInv, FinderInv
      <4> QED
        BY <4>1, <4>2
    <3>3. \A g, h \in Finders :
            finder'[g].pc = "publish" /\ finder'[h].pc = "publish" /\ finder'[g].id = finder'[h].id
                => g = h
      <4>1. \A g \in Finders \ {f} : finder'[g].pc = "publish" => finder'[g].id # lastId + 1
        <5> TAKE g \in Finders \ {f}
        <5>1. finder'[g].pc = "publish" => finder'[g].id \in 1..lastId
          BY <2>3 DEF IngestInv, FinderInv
        <5> QED
          BY <1>0, <5>1
      <4> QED
        BY <2>3, <4>1 DEF IngestInv, FinderInv
    <3>4. \A i \in 1..MaxRows : i > lastId' => messages'[i] = 0 /\ i \notin resent'
      <4>1. \A i \in 1..MaxRows : i > lastId + 1 => i > lastId
        BY <1>0, IngestAssumption
      <4> QED
        BY <1>1, <1>3, <4>1 DEF IngestInv, FinderInv
    <3> QED
      BY <3>2, <3>3, <3>4 DEF FinderInv
  <2>5. SubmittedOnce'
    BY <1>1 DEF IngestInv, SubmittedOnce
  <2> QED
    BY <2>2, <2>4, <2>5 DEF Knowledge
<1> QED
  BY <1>2, <1>3 DEF Insert

(* The publishes: only the copies of one job change, and it is nobody      *)
(* else's.                                                                 *)
LEMMA PublishingKeeps ==
    ASSUME IngestInv, NEW f \in Finders, PublishJob(f) \/ PublishRaises(f)
    PROVE  Knowledge'
<1> DEFINE i == finder[f].id
<1>0. /\ finder \in [Finders -> FinderStates] /\ lastId \in 0..MaxRows /\ lastId \in Int
      /\ messages \in [1..MaxRows -> Nat] /\ resent \subseteq 1..MaxRows
      /\ finder[f].tries \in 0..Attempts
  BY IngestAssumption DEF IngestInv, IngestTypeOK, FinderStates
<1>1. UNCHANGED <<content, ingestTable>> /\ finder[f].pc = "publish"
  BY DEF PublishJob, PublishRaises, HasPublisher
<1>2. i \in 1..lastId /\ i \in 1..MaxRows
  BY <1>0, <1>1, IngestAssumption DEF IngestInv, FinderInv
<1>3. messages'[i] \in {messages[i], messages[i] + 1} /\ \A k \in 1..MaxRows \ {i} : messages'[k] = messages[k]
  BY <1>0, <1>2 DEF PublishJob, PublishRaises, Deliver
<1>4. \/ resent' = resent \/ resent' = resent \cup {i}
  BY DEF PublishJob, PublishRaises
<1>5. \/ \E s : finder'[f] = [Resting EXCEPT !.todo = s]
      \/ /\ finder'[f] = [finder[f] EXCEPT !.tries = @ + 1]
         /\ i \in resent'
  <2>1. CASE PublishJob(f)
    BY <1>0, <2>1 DEF PublishJob, NextClip
  <2>2. CASE PublishRaises(f) /\ Abort(f)
    BY <1>0, <2>2 DEF Abort
  <2>3. CASE PublishRaises(f) /\ ~Abort(f)
    BY <1>0, <2>3 DEF PublishRaises
  <2> QED
    BY <2>1, <2>2, <2>3
<1>6. \A g \in Finders \ {f} : finder'[g] = finder[g] /\ (finder[g].pc = "publish" => finder[g].id # i)
  <2>1. \A g \in Finders \ {f} : finder'[g] = finder[g]
    BY <1>0 DEF PublishJob, PublishRaises, NextClip, Abort
  <2> QED
    BY <1>1, <2>1 DEF IngestInv, FinderInv
<1>7. \/ finder'[f].pc = "idle" /\ finder'[f].tries = 0
      \/ finder'[f].pc = "publish" /\ finder'[f].id = i /\ i \in resent'
  <2>1. \A s : [Resting EXCEPT !.todo = s].pc = "idle" /\ [Resting EXCEPT !.todo = s].tries = 0
    BY DEF Resting
  <2>2. CASE \E s : finder'[f] = [Resting EXCEPT !.todo = s]
    BY <2>1, <2>2
  <2>3. CASE finder'[f] = [finder[f] EXCEPT !.tries = @ + 1] /\ i \in resent'
    BY <1>0, <1>1, <2>3 DEF FinderStates
  <2> QED
    BY <1>5, <2>2, <2>3
<1> HIDE DEF i
<1>8. FinderInv'
  <2>1. \A g \in Finders :
            /\ finder'[g].pc \in {"look", "insert"} =>
                   finder'[g].hash.content = content'[finder'[g].clip]
            /\ finder'[g].pc = "publish" => finder'[g].id \in 1..lastId'
            /\ finder'[g].tries > 0 => finder'[g].pc = "publish" /\ finder'[g].id \in resent'
            /\ finder'[g].pc = "publish" /\ finder'[g].id \notin resent'
                   => messages'[finder'[g].id] = 0
    <3> TAKE g \in Finders
    <3>1. CASE g = f
      BY <1>1, <1>2, <1>7, <3>1 DEF ingestTable
    <3>2. CASE g # f
      <4>1. finder'[g] = finder[g] /\ (finder[g].pc = "publish" => finder[g].id # i)
        BY <1>6, <3>2
      <4>2. finder[g].pc = "publish" => finder[g].id \in 1..MaxRows
        BY <1>0, IngestAssumption DEF IngestInv, FinderInv
      <4>3. finder[g].pc = "publish" => messages'[finder[g].id] = messages[finder[g].id]
        BY <1>3, <4>1, <4>2
      <4> QED
        BY <1>1, <1>4, <4>1, <4>3 DEF IngestInv, FinderInv, ingestTable
    <3> QED
      BY <3>1, <3>2
  <2>2. \A g, h \in Finders :
            finder'[g].pc = "publish" /\ finder'[h].pc = "publish" /\ finder'[g].id = finder'[h].id
                => g = h
    BY <1>6, <1>7 DEF IngestInv, FinderInv
  <2>3. \A k \in 1..MaxRows : k > lastId' => messages'[k] = 0 /\ k \notin resent'
    <3> TAKE k \in 1..MaxRows
    <3>1. k > lastId => k # i
      BY <1>0, <1>2
    <3> QED
      BY <1>1, <1>3, <1>4, <3>1 DEF IngestInv, FinderInv, ingestTable
  <2> QED
    BY <2>1, <2>2, <2>3 DEF FinderInv
<1>9. SubmittedOnce'
  <2> SUFFICES ASSUME NEW k \in 1..MaxRows, messages'[k] > 1 PROVE k \in resent'
    BY DEF SubmittedOnce
  <2>1. CASE k # i
    BY <1>3, <1>4, <2>1 DEF IngestInv, SubmittedOnce
  <2>2. CASE k = i
    <3>1. messages[i] \in Nat /\ messages[i] > 0
      BY <1>0, <1>2, <1>3, <2>2
    <3> QED
      BY <1>1, <1>4, <2>2, <3>1 DEF IngestInv, FinderInv, i
  <2> QED
    BY <2>1, <2>2
<1>10. TableInv'
  BY <1>1 DEF IngestInv, TableInv, ingestTable
<1> QED
  BY <1>8, <1>9, <1>10 DEF Knowledge

LEMMA RemoveKeeps ==
    ASSUME IngestInv, NEW r \in tracked, RemoveJob(r)
    PROVE  Knowledge'
<1>1. UNCHANGED <<content, lastId, messages, finder, resent>> /\ tracked' \subseteq tracked
  BY DEF RemoveJob
<1> QED
  BY <1>1 DEF IngestInv, Knowledge, TableInv, FinderInv, SubmittedOnce

LEMMA IngestRestartKeeps ==
    ASSUME IngestInv, RestartIngest
    PROVE  Knowledge'
<1> DEFINE owed == {r.id : r \in {x \in tracked : file[x.clip] # "processed"}}
<1>1. /\ UNCHANGED <<content, ingestTable>>
      /\ finder' = [f \in Finders |-> Resting]
      /\ messages' = [i \in 1..MaxRows |-> IF i \in owed THEN messages[i] + 1 ELSE messages[i]]
      /\ resent' = resent \cup owed
  BY DEF RestartIngest
<1>2. \A i \in owed : i \in Int /\ i <= lastId
  <2>1. \A r \in tracked : r.id \in Int /\ r.id <= lastId
    BY IngestAssumption DEF IngestInv, IngestTypeOK, TableInv, Rows
  <2> QED
    BY <2>1
<1> HIDE DEF owed
<1>3. TableInv'
  BY <1>1 DEF IngestInv, TableInv, ingestTable
<1>4. SubmittedOnce'
  BY <1>1 DEF IngestInv, SubmittedOnce
<1>5. FinderInv'
  <2>1. \A i \in 1..MaxRows : i > lastId' => messages'[i] = 0 /\ i \notin resent'
    <3> TAKE i \in 1..MaxRows
    <3>1. i \in Int /\ lastId \in Int /\ lastId' = lastId
      BY <1>1, IngestAssumption DEF IngestInv, IngestTypeOK, ingestTable
    <3>2. i > lastId => i \notin owed
      BY <1>2, <3>1
    <3> QED
      BY <1>1, <3>1, <3>2 DEF IngestInv, FinderInv
  <2>2. \A f \in Finders : finder'[f].pc = "idle" /\ finder'[f].tries = 0
    BY <1>1, RestingType
  <2> QED
    BY <2>1, <2>2 DEF FinderInv
<1> QED
  BY <1>3, <1>4, <1>5 DEF Knowledge

(* What was passed stays tracked: rows go only by the button.              *)
LEMMA PassedKept ==
    ASSUME IngestInv, [IngestNext]_ingestVars
    PROVE  PassedIsTracked'
<1>1. CASE UNCHANGED <<tracked, passed>>
  BY <1>1 DEF IngestInv, PassedIsTracked, Known
<1>2. ASSUME NEW f \in Finders, LookUp(f) PROVE PassedIsTracked'
  BY <1>2 DEF LookUp, Pass, IngestInv, PassedIsTracked, Known, ingestTable
<1>3. ASSUME NEW f \in Finders, Insert(f) PROVE PassedIsTracked'
  <2>1. CASE Known(finder[f].hash) /\ UNCHANGED ingestTable
    BY <1>3, <2>1 DEF Insert, Pass, IngestInv, PassedIsTracked, Known, ingestTable
  <2>2. CASE tracked' = tracked \cup {NewRow(f)}
    <3>1. NewRow(f).hash = finder[f].hash
      BY DEF NewRow
    <3> QED
      BY <1>3, <2>2, <3>1 DEF Insert, Pass, IngestInv, PassedIsTracked, Known
  <2> QED
    BY <1>3, <2>1, <2>2 DEF Insert
<1>4. ASSUME NEW r \in tracked, RemoveJob(r) PROVE PassedIsTracked'
  <2> SUFFICES ASSUME NEW p \in passed, p.hash # r.hash PROVE \E s \in tracked' : s.hash = p.hash
    BY <1>4 DEF RemoveJob, PassedIsTracked, Known
  <2>1. PICK s \in tracked : s.hash = p.hash
    BY DEF IngestInv, PassedIsTracked, Known
  <2>2. s # r
    BY <2>1
  <2> QED
    BY <1>4, <2>1, <2>2 DEF RemoveJob
<1>5. ASSUME NEW f \in Finders,
             \/ \E c \in Clips : HashClip(f, c)
             \/ TableFails(f) \/ PublishJob(f) \/ PublishRaises(f)
      PROVE  UNCHANGED <<tracked, passed>>
  BY <1>5 DEF HashClip, TableFails, PublishJob, PublishRaises, ingestTable
<1>6. ASSUME \/ \E c \in Clips : ClipAppears(c) \/ ClipCompletes(c) \/ ClipProcessed(c)
             \/ \E f \in Scans : StartScan(f)
             \/ RestartIngest \/ UNCHANGED ingestVars
      PROVE  UNCHANGED <<tracked, passed>>
  BY <1>6 DEF ClipAppears, ClipCompletes, ClipProcessed, StartScan, RestartIngest, ingestVars,
     ingestTable
<1> QED
  BY <1>1, <1>2, <1>3, <1>4, <1>5, <1>6 DEF IngestNext, FinderStep

LEMMA IngestStep == IngestInv /\ [IngestNext]_ingestVars => IngestInv'
<1> SUFFICES ASSUME IngestInv, [IngestNext]_ingestVars PROVE IngestInv'
  OBVIOUS
<1>1. Knowledge'
  <2>1. CASE UNCHANGED ingestVars
    BY <2>1 DEF ingestVars, ingestTable, IngestInv, Knowledge, TableInv, FinderInv, SubmittedOnce
  <2>2. \A f \in Scans : f \in Finders
    BY DEF Finders
  <2> QED
    BY <2>1, <2>2, MountKeeps, FindingKeeps, InsertKeeps, PublishingKeeps, RemoveKeeps, IngestRestartKeeps
    DEF IngestNext, FinderStep
<1> QED
  BY <1>1, IngestTypeStep, PassedKept DEF IngestInv, Knowledge

-------------------------------------------------------------------------------
LEMMA IngestAlways == IngestSpec => []IngestInv
  BY IngestInitInv, IngestStep, PTL DEF IngestSpec

(* Every variable of ingestion keeps its type.                             *)
THEOREM IngestTypeCorrect == IngestSpec => []IngestTypeOK
<1>1. IngestInv => IngestTypeOK
  BY DEF IngestInv
<1> QED
  BY <1>1, IngestAlways, PTL

(* The unique file_hash: a path that was complete when it was hashed has   *)
(* one row, however many observers and scans meet over it.                 *)
THEOREM ClipsHaveOneJob == IngestSpec => []OneJobPerClip
<1>1. IngestInv => OneJobPerClip
  <2> SUFFICES ASSUME IngestInv, NEW r \in tracked, NEW s \in tracked, r.clip = s.clip,
                      r.hash.whole, s.hash.whole
               PROVE  r.id = s.id
    BY DEF OneJobPerClip
  <2>1. /\ r.hash \in Hashes /\ s.hash \in Hashes
        /\ r.hash.content = content[r.clip] /\ s.hash.content = content[s.clip]
    BY DEF IngestInv, IngestTypeOK, TableInv, Rows
  <2>2. r.hash.whole = s.hash.whole
    BY <2>1 DEF Hashes
  <2>3. r.hash = s.hash
    BY <2>1, <2>2 DEF Hashes
  <2> QED
    BY <2>3 DEF IngestInv, TableInv
<1> QED
  BY <1>1, IngestAlways, PTL

(* Only the finder that inserted a row publishes it, and once, except      *)
(* after an error of the broker (amqp.py retries) or by recovery.          *)
THEOREM JobsAreSubmittedOnce == IngestSpec => []SubmittedOnce
<1>1. IngestInv => SubmittedOnce
  BY DEF IngestInv
<1> QED
  BY <1>1, IngestAlways, PTL

(* A finder that passes a clip leaves it tracked: the refused insert of    *)
(* _upsert_and_enqueue means that another finder's row is there.           *)
THEOREM PassedClipsAreTracked == IngestSpec => []PassedIsTracked
<1>1. IngestInv => PassedIsTracked
  BY DEF IngestInv
<1> QED
  BY <1>1, IngestAlways, PTL
================================================================================
