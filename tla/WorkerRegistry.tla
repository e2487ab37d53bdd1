---------------------------- MODULE WorkerRegistry ----------------------------
(***************************************************************************)
(* What the orchestrator knows of its workers: each worker announces       *)
(* itself and beats from a thread of its own connection, and reports jobs  *)
(* over another; the result consumer applies both to a registry in memory, *)
(* which a liveness loop and the suspend buttons write too. The worker     *)
(* asks after each beat whether it is suspended.                           *)
(***************************************************************************)
EXTENDS Naturals, Sequences, FiniteSets

CONSTANTS
    Workers,
    LostAfter,         \* liveness checks without a sign of a worker until it is lost
    MaxPending,        \* bound: messages of one worker on one connection
    MaxRegistryEvents  \* bound: starts, stops, crashes, jobs, suspensions

ASSUME RegistryAssumption ==
    /\ IsFiniteSet(Workers)
    /\ LostAfter \in Nat /\ MaxPending \in Nat /\ MaxRegistryEvents \in Nat

VARIABLES
    kind,            \* md or oc
    process,         \* each worker: its main thread, its heartbeat thread
    lifecycle,       \* events of each worker in oc_results, in order
    reports,         \* job reports of each worker in oc_results, in order
    registry,        \* _workers
    keptIndex,       \* history: workers whose index was not drawn when they appeared
    unreported,      \* history: the last job of the worker ended without a report
    registryEvents

workerVars == <<kind, process, lifecycle, reports>>
registryVars == <<workerVars, registry, keptIndex, unreported, registryEvents>>

Down == [main |-> "down", beat |-> "wait", busy |-> FALSE, suspended |-> FALSE]
Unknown == [status |-> "unknown", suspended |-> FALSE, index |-> 0, device |-> "?", heard |-> 0]
Indices == 0..Cardinality(Workers)

RegistryEvent ==
    /\ registryEvents < MaxRegistryEvents
    /\ registryEvents' = registryEvents + 1

-------------------------------------------------------------------------------
(* The worker.                                                             *)

Announce(w, event) ==
    /\ Len(lifecycle[w]) < MaxPending
    /\ lifecycle' = [lifecycle EXCEPT ![w] = Append(@, event)]
Report(w, status) ==
    /\ Len(reports[w]) < MaxPending
    /\ reports' = [reports EXCEPT ![w] = Append(@, status)]

(* The container starts: online is published before the first message is   *)
(* taken.                                                                  *)
WorkerStarts(w) ==
    /\ process[w].main = "down"
    /\ RegistryEvent
    /\ process' = [process EXCEPT ![w] = [Down EXCEPT !.main = "run"]]
    /\ Announce(w, "online")
    /\ UNCHANGED <<kind, reports, registry, keptIndex, unreported>>

(* The heartbeat thread: the shutdown flag is looked at, then the beat     *)
(* published, then the suspension asked for.                               *)
Wake(w) ==
    /\ process[w].main = "run"
    /\ process[w].beat = "wait"
    /\ process' = [process EXCEPT ![w].beat = "publish"]
    /\ UNCHANGED <<kind, lifecycle, reports, registry, keptIndex, unreported, registryEvents>>

Beat(w) ==
    /\ process[w].main # "down"
    /\ process[w].beat = "publish"
    /\ Announce(w, "heartbeat")
    /\ process' = [process EXCEPT ![w].beat = "poll"]
    /\ UNCHANGED <<kind, reports, registry, keptIndex, unreported, registryEvents>>

(* An unknown worker is told that it is not suspended; without an answer   *)
(* the worker stays as it is.                                              *)
PollSuspension(w) ==
    /\ process[w].main # "down"
    /\ process[w].beat = "poll"
    /\ process' = [process EXCEPT ![w].beat = "wait", ![w].suspended = registry[w].suspended]
    /\ UNCHANGED <<kind, lifecycle, reports, registry, keptIndex, unreported, registryEvents>>
PollFails(w) ==
    /\ process[w].main # "down"
    /\ process[w].beat = "poll"
    /\ RegistryEvent
    /\ process' = [process EXCEPT ![w].beat = "wait"]
    /\ UNCHANGED <<kind, lifecycle, reports, registry, keptIndex, unreported>>

(* Mutant: an md-worker does not look at its suspension either.            *)
AcceptsAny(w) == process[w].main = "run" /\ ~process[w].busy

(* A suspended md-worker gives every message back; an oc-worker does not   *)
(* look at its suspension.                                                 *)
Accepts(w) ==
    /\ process[w].main = "run" /\ ~process[w].busy
    /\ ~(kind[w] = "md" /\ process[w].suspended)

TakeJob(w) ==
    /\ Accepts(w)
    /\ RegistryEvent
    /\ Report(w, "processing")
    /\ process' = [process EXCEPT ![w].busy = TRUE]
    /\ UNCHANGED <<kind, lifecycle, registry, keptIndex, unreported>>

(* md_complete, or the final result of an oc-worker. A job that failed, or *)
(* whose result the consumer drops, changes nothing in the registry.       *)
FinishJob(w) ==
    /\ process[w].busy /\ process[w].main # "stopping"
    /\ process' = [process EXCEPT ![w].busy = FALSE]
    /\ \/ /\ Report(w, "idle")
          /\ unreported' = unreported \ {w}
          /\ UNCHANGED registryEvents
       \/ /\ RegistryEvent
          /\ unreported' = unreported \cup {w}
          /\ UNCHANGED reports
    /\ UNCHANGED <<kind, lifecycle, registry, keptIndex>>

(* SIGTERM interrupts the job: the flag is set and offline published, while *)
(* the heartbeat thread may be about to beat; then the job is finished.    *)
StopRequested(w) ==
    /\ process[w].main = "run"
    /\ RegistryEvent
    /\ process' = [process EXCEPT ![w].main = "stopping"]
    /\ UNCHANGED <<kind, lifecycle, reports, registry, keptIndex, unreported>>
PublishOffline(w) ==
    /\ process[w].main = "stopping"
    /\ Announce(w, "offline")
    /\ process' = [process EXCEPT ![w].main = "leaving"]
    /\ UNCHANGED <<kind, reports, registry, keptIndex, unreported, registryEvents>>
WorkerExits(w) ==
    /\ process[w].main = "leaving" /\ ~process[w].busy
    /\ process' = [process EXCEPT ![w] = Down]
    /\ UNCHANGED <<kind, lifecycle, reports, registry, keptIndex, unreported, registryEvents>>

(* Killed: nothing is announced. A job in hand is never reported by it.    *)
WorkerCrashes(w) ==
    /\ process[w].main # "down"
    /\ RegistryEvent
    /\ process' = [process EXCEPT ![w] = Down]
    /\ unreported' = IF process[w].busy THEN unreported \cup {w} ELSE unreported
    /\ UNCHANGED <<kind, lifecycle, reports, registry, keptIndex>>

-------------------------------------------------------------------------------
(* The registry.                                                           *)

Present(w) == registry[w].status \in {"idle", "processing"}

(* Mutant: only known workers count that are idle.                         *)
NextIndexAmongIdle(i, w, device) ==
    LET used == {registry[v].index : v \in {u \in Workers \ {w} :
                    registry[u].status = "idle" /\ kind[u] = kind[w] /\ registry[u].device = device}}
    IN  i \notin used /\ \A j \in 0..(i - 1) : j \in used

(* _next_index: free among the workers of the type and device that are     *)
(* present, and the lowest such.                                           *)
Taken(w, device) == {registry[v].index : v \in
    {u \in Workers \ {w} : Present(u) /\ kind[u] = kind[w] /\ registry[u].device = device}}
NextIndex(i, w, device) == i \notin Taken(w, device) /\ \A j \in 0..(i - 1) : j \in Taken(w, device)

(* An entry that comes back from offline keeps an index which another      *)
(* worker may have drawn meanwhile.                                        *)
KeepIndex(w) == keptIndex' = IF registry[w].status = "offline" THEN keptIndex \cup {w} ELSE keptIndex

(* A new entry from an event: with the index drawn.                        *)
Enter(w) ==
    /\ \E i \in Indices :
        /\ NextIndex(i, w, "known")
        /\ registry' = [registry EXCEPT ![w] =
                [status |-> "idle", suspended |-> FALSE, index |-> i,
                 device |-> "known", heard |-> LostAfter]]
    /\ keptIndex' = keptIndex \ {w}

(* on_online keeps index, suspension and statistics.                       *)
OnOnline(w) ==
    IF registry[w].status = "unknown" THEN Enter(w) ELSE
    /\ registry' = [registry EXCEPT ![w].status = "idle", ![w].device = "known",
                                    ![w].heard = LostAfter]
    /\ KeepIndex(w)

OnHeartbeat(w) ==
    IF registry[w].status = "unknown" THEN Enter(w) ELSE
    /\ registry' = [registry EXCEPT ![w].heard = LostAfter,
                        ![w].status = IF @ = "offline" THEN "idle" ELSE @]
    /\ KeepIndex(w)

OnOffline(w) ==
    /\ registry' = [registry EXCEPT ![w].status = IF @ = "unknown" THEN @ ELSE "offline"]
    /\ UNCHANGED keptIndex

HandleEvent(w) ==
    /\ lifecycle[w] # <<>>
    /\ CASE Head(lifecycle[w]) = "online" -> OnOnline(w)
         [] Head(lifecycle[w]) = "heartbeat" -> OnHeartbeat(w)
         [] OTHER -> OnOffline(w)
    /\ lifecycle' = [lifecycle EXCEPT ![w] = Tail(@)]
    /\ UNCHANGED <<kind, process, reports, unreported, registryEvents>>

(* Mutant: the end of a job only counts as a sign of life.                 *)
UpdateStart(w, status) ==
    /\ registry' = [registry EXCEPT ![w].status = IF status = "idle" THEN @ ELSE status,
                                    ![w].heard = LostAfter]
    /\ keptIndex' = IF Present(w) THEN keptIndex ELSE keptIndex \cup {w}

(* update: a report of an unknown worker enters it with index 0 and no     *)
(* device.                                                                 *)
Update(w, status) ==
    /\ registry' = [registry EXCEPT ![w].status = status, ![w].heard = LostAfter]
    /\ keptIndex' = IF Present(w) THEN keptIndex ELSE keptIndex \cup {w}

HandleReport(w) ==
    /\ reports[w] # <<>>
    /\ Update(w, Head(reports[w]))
    /\ reports' = [reports EXCEPT ![w] = Tail(@)]
    /\ UNCHANGED <<kind, process, lifecycle, unreported, registryEvents>>

(* Mutant: nobody is ever lost.                                            *)
CheckNobody ==
    /\ \E w \in Workers : Present(w) /\ registry[w].heard > 0
    /\ registry' = [w \in Workers |->
            IF Present(w) /\ registry[w].heard > 0
            THEN [registry[w] EXCEPT !.heard = @ - 1] ELSE registry[w]]
    /\ UNCHANGED <<workerVars, keptIndex, unreported, registryEvents>>

(* The liveness loop counts the time since the last sign of each worker.   *)
CheckLiveness ==
    /\ \E w \in Workers : Present(w)
    /\ registry' = [w \in Workers |->
            CASE ~Present(w) -> registry[w]
              [] Present(w) /\ registry[w].heard > 0 -> [registry[w] EXCEPT !.heard = @ - 1]
              [] OTHER -> [registry[w] EXCEPT !.status = "offline"]]
    /\ UNCHANGED <<workerVars, keptIndex, unreported, registryEvents>>

(* The buttons; an unknown worker is refused.                              *)
SuspendWorker(w, on) ==
    /\ registry[w].status # "unknown" /\ registry[w].suspended # on
    /\ RegistryEvent
    /\ registry' = [registry EXCEPT ![w].suspended = on]
    /\ UNCHANGED <<workerVars, keptIndex, unreported>>

(* The registry is in memory only.                                         *)
RegistryLost ==
    /\ RegistryEvent
    /\ registry' = [w \in Workers |-> Unknown]
    /\ keptIndex' = {}
    /\ UNCHANGED <<workerVars, unreported>>

-------------------------------------------------------------------------------
RegistryInit ==
    /\ kind \in [Workers -> {"md", "oc"}]
    /\ process = [w \in Workers |-> Down]
    /\ lifecycle = [w \in Workers |-> <<>>]
    /\ reports = [w \in Workers |-> <<>>]
    /\ registry = [w \in Workers |-> Unknown]
    /\ keptIndex = {}
    /\ unreported = {}
    /\ registryEvents = 0

HeartbeatStep(w) == Wake(w) \/ Beat(w) \/ PollSuspension(w)
ConsumerStep(w) == HandleEvent(w) \/ HandleReport(w)
WorkerStep(w) ==
    \/ HeartbeatStep(w) \/ PollFails(w)
    \/ WorkerStarts(w) \/ WorkerExits(w) \/ WorkerCrashes(w)
    \/ TakeJob(w) \/ FinishJob(w) \/ StopRequested(w) \/ PublishOffline(w)

RegistryNext ==
    \/ \E w \in Workers : WorkerStep(w) \/ ConsumerStep(w)
    \/ \E w \in Workers, on \in BOOLEAN : SuspendWorker(w, on)
    \/ CheckLiveness \/ RegistryLost

RegistrySpec == RegistryInit /\ [][RegistryNext]_registryVars

(* The threads loop for ever; oc_results is consumed to its end.           *)
RegistryFairness ==
    /\ \A w \in Workers :
        /\ WF_registryVars(HeartbeatStep(w))
        /\ WF_registryVars(HandleEvent(w)) /\ WF_registryVars(HandleReport(w))
    /\ WF_registryVars(CheckLiveness)

-------------------------------------------------------------------------------
RegistryTypeOK ==
    /\ kind \in [Workers -> {"md", "oc"}]
    /\ process \in [Workers -> [main : {"down", "run", "stopping", "leaving"},
                                beat : {"wait", "publish", "poll"},
                                busy : BOOLEAN, suspended : BOOLEAN]]
    /\ lifecycle \in [Workers -> Seq({"online", "heartbeat", "offline"})]
    /\ reports \in [Workers -> Seq({"processing", "idle"})]
    /\ registry \in [Workers -> [status : {"unknown", "idle", "processing", "offline"},
                                 suspended : BOOLEAN, index : Nat, device : {"?", "known"},
                                 heard : 0..LostAfter]]
    /\ keptIndex \subseteq Workers /\ unreported \subseteq Workers
    /\ registryEvents \in Nat

(* Two workers of a type and device that are present show different        *)
(* indices, unless one of them entered by a report or came back from       *)
(* offline with the index it had.                                          *)
IndicesClashOnlyIfKept ==
    \A v, w \in Workers :
        /\ v # w /\ Present(v) /\ Present(w)
        /\ kind[v] = kind[w] /\ registry[v].device = registry[w].device
        /\ registry[v].index = registry[w].index
        => v \in keptIndex \/ w \in keptIndex

(* Once a suspension has reached an idle md-worker it takes no job: late   *)
(* announcements, beats, the liveness loop and a lost worker that comes    *)
(* back do not lift it; only the button, a stop of the worker and a        *)
(* restart of the orchestrator do.                                         *)
Suspended(w) ==
    /\ kind[w] = "md"
    /\ process[w].main = "run" /\ process[w].suspended /\ ~process[w].busy
    /\ registry[w].suspended
SuspensionHolds ==
    [][\A w \in Workers : Suspended(w) =>
            \/ Suspended(w)'
            \/ SuspendWorker(w, FALSE) \/ StopRequested(w) \/ WorkerCrashes(w)
            \/ RegistryLost
      ]_registryVars

(* A worker that the registry shows at work, and of which nothing is on    *)
(* its way, is at work, unless its last job ended without a report.        *)
ShownBusyIsBusy ==
    \A w \in Workers :
        /\ registry[w].status = "processing"
        /\ lifecycle[w] = <<>> /\ reports[w] = <<>>
        => process[w].busy \/ w \in unreported

(* A worker that is gone for good disappears, although a beat may be       *)
(* published after its offline event and a report revives it; one that     *)
(* stays is shown again and again.                                         *)
RegistryFollowsWorkers ==
    \A w \in Workers :
        /\ <>[](process[w].main = "down") => <>[]~Present(w)
        /\ <>[](process[w].main = "run") => []<>Present(w)
===============================================================================
