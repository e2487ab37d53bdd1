----------------------------- MODULE NodeGovernor -----------------------------
(***************************************************************************)
(* node-agent/agent: the control loop that starts and parks the workers of *)
(* one machine. A cycle probes the host, counts the containers, decides on *)
(* at most one action and carries it out; containers exit, calls to Docker *)
(* fail and the agent restarts between any two of these steps.             *)
(***************************************************************************)
EXTENDS Naturals

CONSTANTS
    CorePool,          \* physical cores less the reserve, in the unit of CoreCost
    CoreCost, RamCost, \* what a worker of each scaled type is reckoned to need
    VramCost,          \* the same for the GPU memory of an oc-worker
    MinWorkers,        \* keep at least so many of each scaled type
    MaxWorkers,        \* hard ceiling of each scaled type
    Cooldown,          \* cycles between two actions
    TranscodeEnabled, DryRun,
    Rams, Vrams, Depths, \* what a probe can find
    MaxAdopted,        \* bound: workers of a type that the agent finds at its start
    Faults,            \* the faults that this instance has
    MaxFaults          \* bound: faults in one behaviour

Scaled == {"oc", "md"}
Types == Scaled \cup {"transcode"}

ASSUME CostsAssumption ==
    /\ CorePool \in Nat /\ VramCost \in Nat
    /\ CoreCost \in [Scaled -> Nat] /\ RamCost \in [Scaled -> Nat]
ASSUME LimitsAssumption ==
    /\ MinWorkers \in [Scaled -> Nat] /\ MaxWorkers \in [Scaled -> Nat]
    /\ Cooldown \in Nat /\ MaxAdopted \in Nat /\ MaxFaults \in Nat
ASSUME ProbesAssumption == Rams \subseteq Nat /\ Vrams \subseteq Nat /\ Depths \subseteq Nat
ASSUME SwitchesAssumption == TranscodeEnabled \in BOOLEAN /\ DryRun \in BOOLEAN

VARIABLES
    running,   \* containers of each type that run
    created,   \* containers of each type that exist and have not been started
    host,      \* what the last probe has found
    pc,        \* the step that the cycle is at
    worker,    \* the type it is starting or parking
    cooling,   \* cycles until the next action
    faults     \* faults so far

vars == <<running, created, host, pc, worker, cooling, faults>>

Host == [load : {"low", "mid", "high"}, thrash : BOOLEAN,
         ram : Rams, vram : Vrams, depth : [Scaled -> Depths]]
Steps == {"idle", "probe", "decide", "create", "start", "park"}

-------------------------------------------------------------------------------
(* What the agent reckons with.                                            *)

(* Mutant: only a container that runs is present.                          *)
CountRunning(t) == running[t]

(* Supervisor.counts: running and just created containers. Exited ones are *)
(* removed at the start of each cycle and count for nothing.               *)
Count(t) == running[t] + created[t]

CoresOf(count) == count["oc"] * CoreCost["oc"] + count["md"] * CoreCost["md"]
Committed == CoresOf([t \in Scaled |-> Count(t)])

(* One more worker of type t stays within the type's cap: the hard ceiling *)
(* and what RAM and GPU memory are available for.                          *)
BelowCap(t) ==
    LET n == Count(t) + 1
    IN  /\ n <= MaxWorkers[t]
        /\ n * RamCost[t] <= host.ram
        /\ t = "oc" => n * VramCost <= host.vram

(* Mutant: checks the cores that are committed, without the new worker's.  *)
FitsNow(t) == BelowCap(t) /\ Committed <= CorePool

Fits(t) == BelowCap(t) /\ Committed + CoreCost[t] <= CorePool

-------------------------------------------------------------------------------
(* decide: pressure first, then the minimum of each type, then demand. An  *)
(* unknown queue depth counts as zero in each comparison.                  *)

Pressed == host.thrash \/ host.load = "high"

Parkable(t) == Count(t) > 0 /\ (Count(t) > MinWorkers[t] \/ host.thrash)
ParksFirst(t, u) == \/ host.depth[t] < host.depth[u]
                    \/ host.depth[t] = host.depth[u] /\ t = "oc"

(* Mutant: looks at the type with the least demand only.                   *)
ToParkLeastWanted(t) ==
    Pressed /\ Parkable(t) /\ \A u \in Scaled \ {t} : ParksFirst(t, u)

ToPark(t) ==
    /\ Pressed
    /\ Parkable(t)
    /\ \A u \in Scaled \ {t} : Parkable(u) => ParksFirst(t, u)

(* Mutant: a type without demand may stay below its minimum.               *)
BelowMinWanted(t) == Count(t) < MinWorkers[t] /\ Fits(t) /\ host.depth[t] > 0

BelowMin(t) == Count(t) < MinWorkers[t] /\ Fits(t)
ToRaise(t) == ~Pressed /\ BelowMin(t) /\ (t = "md" \/ ~BelowMin("md"))

Wanted(t) == host.load = "low" /\ host.depth[t] > 0 /\ Fits(t)
WantedMore(t, u) == \/ host.depth[t] > host.depth[u]
                    \/ host.depth[t] = host.depth[u] /\ t = "oc"
ToAdd(t) ==
    /\ ~Pressed
    /\ \A u \in Scaled : ~BelowMin(u)
    /\ Wanted(t)
    /\ \A u \in Scaled \ {t} : Wanted(u) => WantedMore(t, u)

ToStart(t) == ToRaise(t) \/ ToAdd(t)

(* Swap distress does not wait for the cooldown.                           *)
MayAct == cooling = 0 \/ host.thrash

-------------------------------------------------------------------------------
(* One cycle.                                                              *)

Containers == <<running, created>>

Fault(kind) ==
    /\ kind \in Faults
    /\ faults < MaxFaults
    /\ faults' = faults + 1

Goto(step, t) == pc' = step /\ worker' = t

(* The end of an action: the transcoder's comes before the probe, any      *)
(* other ends the cycle and begins the cooldown, whether it worked or not. *)
Leave ==
    IF worker = "transcode" THEN Goto("probe", "none") /\ UNCHANGED cooling
                            ELSE Goto("idle", "none") /\ cooling' = Cooldown

(* ensure_transcode, after one interval of sleep or more.                  *)
Wake ==
    /\ pc = "idle"
    /\ cooling' \in {c \in 0..cooling : c < cooling \/ c = 0}
    /\ IF TranscodeEnabled /\ Count("transcode") = 0 /\ ~DryRun
       THEN Goto("create", "transcode")
       ELSE Goto("probe", "none")
    /\ UNCHANGED <<Containers, host, faults>>

Probe ==
    /\ pc = "probe"
    /\ host' \in Host
    /\ Goto("decide", "none")
    /\ UNCHANGED <<Containers, cooling, faults>>

(* The action is carried out, or in a dry run only logged.                 *)
Act(step, t) ==
    /\ MayAct
    /\ IF DryRun THEN Goto("idle", "none") /\ cooling' = Cooldown
                 ELSE Goto(step, t) /\ UNCHANGED cooling

DecidePark(t) ==
    /\ pc = "decide"
    /\ ToPark(t)
    /\ Act("park", t)
    /\ UNCHANGED <<Containers, host, faults>>

DecideStart(t) ==
    /\ pc = "decide"
    /\ ToStart(t)
    /\ Act("create", t)
    /\ UNCHANGED <<Containers, host, faults>>

(* Nothing to do, or the cooldown suppresses it.                           *)
DecideHold ==
    /\ pc = "decide"
    /\ (\E t \in Scaled : ToPark(t) \/ ToStart(t)) => ~MayAct
    /\ Goto("idle", "none")
    /\ UNCHANGED <<Containers, host, cooling, faults>>

(* containers.run creates the container and then starts it.                *)
Create ==
    /\ pc = "create"
    /\ created' = [created EXCEPT ![worker] = @ + 1]
    /\ Goto("start", worker)
    /\ UNCHANGED <<running, host, cooling, faults>>

Start ==
    /\ pc = "start"
    /\ created' = [created EXCEPT ![worker] = @ - 1]
    /\ running' = [running EXCEPT ![worker] = @ + 1]
    /\ Leave
    /\ UNCHANGED <<host, faults>>

(* Mutant: does not look whether there is a running victim.                *)
ParkBlindly ==
    /\ pc = "park"
    /\ running' = [running EXCEPT ![worker] = @ - 1]
    /\ Leave
    /\ UNCHANGED <<created, host, faults>>

(* Stops and removes a running container of the type, if there is one.     *)
Park ==
    /\ pc = "park"
    /\ IF running[worker] > 0
       THEN running' = [running EXCEPT ![worker] = @ - 1]
       ELSE UNCHANGED running
    /\ Leave
    /\ UNCHANGED <<created, host, faults>>

-------------------------------------------------------------------------------
(* Faults.                                                                 *)

(* Docker refuses to create, to start or to stop the container: logged and *)
(* swallowed. A container that did not start stays behind as created.      *)
ActionFails ==
    /\ \/ pc = "create" /\ Fault("create_error")
       \/ pc = "start" /\ Fault("start_error")
       \/ pc = "park" /\ Fault("park_error")
    /\ Leave
    /\ UNCHANGED <<Containers, host>>

(* Docker cannot list the containers: the cycle is abandoned.              *)
CycleFails ==
    /\ pc \in {"probe", "decide", "park"}
    /\ Fault("list_error")
    /\ Goto("idle", "none")
    /\ UNCHANGED <<Containers, host, cooling>>

(* A worker crashes; nothing but the agent starts it again.                *)
WorkerExits(t) ==
    /\ running[t] > 0
    /\ Fault("exit")
    /\ running' = [running EXCEPT ![t] = @ - 1]
    /\ UNCHANGED <<created, host, pc, worker, cooling>>

(* The agent is restarted and adopts the containers that it finds.         *)
AgentRestarts ==
    /\ Fault("restart")
    /\ Goto("idle", "none")
    /\ cooling' = 0
    /\ UNCHANGED <<Containers, host>>

-------------------------------------------------------------------------------
Init ==
    /\ running \in {r \in [Types -> 0..MaxAdopted] :
                        CoresOf(r) <= CorePool /\ r["transcode"] <= 1}
    /\ created = [t \in Types |-> 0]
    /\ host \in {h \in Host : h.load = "mid" /\ ~h.thrash}
    /\ pc = "idle"
    /\ worker = "none"
    /\ cooling = 0
    /\ faults = 0

Cycle ==
    \/ Wake \/ Probe \/ DecideHold \/ Create \/ Start \/ Park
    \/ \E t \in Scaled : DecidePark(t) \/ DecideStart(t)

Next ==
    \/ Cycle
    \/ ActionFails \/ CycleFails \/ AgentRestarts
    \/ \E t \in Types : WorkerExits(t)

Spec == Init /\ [][Next]_vars

(* The loop of the agent goes on; the container restarts unless stopped.   *)
FairSpec == Spec /\ WF_vars(Cycle)

-------------------------------------------------------------------------------
TypeOK ==
    /\ running \in [Types -> Nat]
    /\ created \in [Types -> Nat]
    /\ host \in Host
    /\ pc \in Steps
    /\ worker \in Types \cup {"none"}
    /\ cooling \in 0..Cooldown
    /\ faults \in Nat

(* The cores committed to workers that run or are about to run never       *)
(* exceed the shared pool, although the agent counts first and starts      *)
(* later, leaves containers behind and forgets what it was doing.          *)
CoresWithinPool ==
    CoresOf([t \in Scaled |-> running[t] + created[t]]) <= CorePool

(* There is at most one transcode worker, through failing starts, crashes  *)
(* and restarts of the agent between creating and starting it.             *)
OneTranscoder == running["transcode"] + created["transcode"] <= 1

(* Lasting pressure brings every type down to its minimum, in spite of     *)
(* cooldowns, failing stops and restarts, unless a container that never    *)
(* started stands in the way of the choice.                                *)
PressureIsRelieved ==
    <>[]Pressed => <>[](\/ \A t \in Scaled : Count(t) <= MinWorkers[t]
                        \/ \E t \in Scaled : created[t] > 0)

(* On a host that stays calm, every type comes back to its minimum with no *)
(* demand needed, unless the cores are committed to others.                *)
Calm ==
    /\ ~Pressed
    /\ \A t \in Scaled : MinWorkers[t] * RamCost[t] <= host.ram
    /\ MinWorkers["oc"] * VramCost <= host.vram
PullersComeBack ==
    <>[]Calm => <>[](\A t \in Scaled : \/ Count(t) >= MinWorkers[t]
                                       \/ Committed + CoreCost[t] > CorePool)

(* policy.py: below a type's minimum one is started to keep a puller alive *)
(* so that work can flow; a puller is a worker that runs.                  *)
PullersRun ==
    <>[]Calm => <>[](\A t \in Scaled : \/ running[t] >= MinWorkers[t]
                                       \/ Committed + CoreCost[t] > CorePool)
===============================================================================
