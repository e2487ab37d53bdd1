------------------------------- MODULE JobState -------------------------------
(***************************************************************************)
(* The state that the parts of the sentinel pipeline share, and the        *)
(* operations on it that several parts use: the jobs table, the source     *)
(* clips on the ingest mount, the RabbitMQ queues, what each worker has in *)
(* hand, and what the orchestrator process keeps in memory.                *)
(*                                                                         *)
(* The parts themselves are MdWorker, OcWorker, ResultConsumer, JobsApi    *)
(* and Orchestrator; JobPipeline composes them.                            *)
(***************************************************************************)
EXTENDS Naturals, Sequences, FiniteSets

CONSTANTS
    Jobs,             \* rows of the jobs table that can ever exist
    StillClips,       \* the jobs whose clip shows no motion
    MDWorkers,        \* md-worker processes
    OCWorkers,        \* oc-worker processes
    Requests,         \* HTTP requests in progress on the jobs API at one time
    Disturbances,     \* the faults and user operations that this instance has
    MaxDisturbances,  \* bound: faults and user operations in one behaviour
    NoMsg             \* what a worker without a message has in hand

ASSUME StillClipsAssumption == StillClips \subseteq Jobs
ASSUME MaxDisturbancesAssumption == MaxDisturbances \in Nat

VARIABLES
    status,       \* jobs.status; "absent" before the insert, "deleted" after it
    path,         \* jobs.file_path: the name the table has for the clip
    rows,         \* final results whose detections the database holds, per job
    source,       \* the name of the clip on the ingest mount
    queue,        \* ready messages of each queue: how many copies of each
    results,      \* the oc_results queue, in order, the unacked head included
    md, oc,       \* what each worker is doing
    orch,         \* the orchestrator process: phase and progress of recovery
    consumer,     \* the result consumer's transaction on Head(results)
    ingesting,    \* jobs inserted by the watcher or the scan, not yet published
    requests,     \* requests of the jobs API between two of their steps
    requeue,      \* the dead letter that dlx_requeue has published, not yet acked
    abandoned,    \* history: why work on a job was given up since it was submitted
    spent         \* disturbances so far

vars == <<status, path, rows, source, queue, results, md, oc, orch, consumer,
          ingesting, requests, requeue, abandoned, spent>>

table == <<status, path, rows>>
memory == <<consumer, ingesting, requests, requeue>>

-------------------------------------------------------------------------------
(* The jobs table. Nothing writes `pending` or `duplicate`.                *)

Active == {"queued", "md_processing", "md_complete", "oc_processing"}
Terminal == {"completed", "failed"}
Pauseable == {"queued"}
Processable == {"queued", "md_complete"}
(* Mutant: recovery trusts the watcher to have published queued jobs.      *)
StuckWithoutQueued == {"md_processing", "oc_processing"}
Stuck == {"queued", "md_processing", "oc_processing"}
Gone == {"absent", "deleted"}
Status == Active \cup Terminal \cup {"paused"} \cup Gone

Paths == {"raw", "processed"}

(* Between the flush and the end of the consumer's transaction on a final  *)
(* result, the row it has updated is locked.                               *)
Locked(j) == consumer.pc = "renamed" /\ Head(results).job = j

(* Writes new to the status of every job of S that still has a row.        *)
SetStatus(S, new) ==
    /\ \A j \in S : ~Locked(j)
    /\ status' = [j \in Jobs |-> IF j \in S /\ status[j] \notin Gone
                                 THEN new ELSE status[j]]

-------------------------------------------------------------------------------
(* The broker. A message names the job and the path of its clip. The order *)
(* of the work queues is left open: redelivery and competing consumers mix *)
(* it. The order of oc_results is kept, since one consumer reads it.       *)

Msg == [job : Jobs, path : Paths]
WorkQueues == {"ingest", "motion_results"}
DeadLetters ==
    [q \in WorkQueues |-> IF q = "ingest" THEN "dlx.ingest" ELSE "dlx.motion_results"]
Queues == {"ingest", "motion_results", "dlx.ingest", "dlx.motion_results"}

ResultKinds == {"md_processing", "md_complete", "oc_processing", "failed", "final"}
Result == [job : Jobs, kind : ResultKinds]

Ready(q, m) == queue[q][m] > 0
Publish(q, m) == queue' = [queue EXCEPT ![q][m] = @ + 1]
Deliver(q, m) == queue' = [queue EXCEPT ![q][m] = @ - 1]
Transfer(from, to, m) ==
    queue' = [queue EXCEPT ![from][m] = @ - 1, ![to][m] = @ + 1]
Report(j, kind) == results' = Append(results, [job |-> j, kind |-> kind])

(* The jobs with a ready message in q.                                     *)
Listed(q) == {j \in Jobs : \E p \in Paths : Ready(q, [job |-> j, path |-> p])}

(* queue_purge: every ready message of q is gone; unacked ones stay with   *)
(* their workers.                                                          *)
Purge(q) ==
    /\ queue' = [queue EXCEPT ![q] = [m \in Msg |-> 0]]
    /\ abandoned' = [j \in Jobs |-> IF j \in Listed(q)
                                    THEN abandoned[j] \cup {"purged"}
                                    ELSE abandoned[j]]

-------------------------------------------------------------------------------
(* Workers, requests and the orchestrator process.                         *)

IdleWorker == [pc |-> "idle", msg |-> NoMsg]
MDSteps == {"idle", "taken", "accepted", "started", "detected", "reported"}
OCSteps == {"idle", "started", "reported", "failing"}

IdleConsumer == [pc |-> "idle", seen |-> "absent", path |-> "raw"]
ConsumerSteps == {"idle", "loaded", "renamed", "committed"}

IdleRequest == [op |-> "none", jobs |-> {}, todo |-> {}]
RequestOps == {"none", "pause", "cancel", "resume", "publish", "bulk_resume",
               "purge_ingest", "purge_motion", "remove"}

NoRequeue == [queue |-> "none", msg |-> NoMsg]

Phases == {"down", "recovering", "up"}
Running == [phase |-> "up", stuck |-> {}, todo |-> {}]
OrchUp == orch.phase = "up"

(* One more fault or user operation, if this instance has it.              *)
Disturb(kind) ==
    /\ kind \in Disturbances
    /\ spent < MaxDisturbances
    /\ spent' = spent + 1

Abandon(j, why) == abandoned' = [abandoned EXCEPT ![j] = @ \cup {why}]
Reasons == {"skipped", "ignored", "purged", "rolled_back", "unpublished"}

ClipFound(m) == source[m.job] = m.path

TypeOK ==
    /\ status \in [Jobs -> Status]
    /\ path \in [Jobs -> Paths]
    /\ rows \in [Jobs -> Nat]
    /\ source \in [Jobs -> Paths]
    /\ queue \in [Queues -> [Msg -> Nat]]
    /\ results \in Seq(Result)
    /\ md \in [MDWorkers -> [pc : MDSteps, msg : Msg \cup {NoMsg}]]
    /\ oc \in [OCWorkers -> [pc : OCSteps, msg : Msg \cup {NoMsg}]]
    /\ orch \in [phase : Phases, stuck : SUBSET Jobs, todo : SUBSET Msg]
    /\ consumer \in [pc : ConsumerSteps, seen : Status, path : Paths]
    /\ ingesting \in SUBSET Jobs
    /\ requests \in [Requests -> [op : RequestOps, jobs : SUBSET Jobs,
                                  todo : SUBSET Msg]]
    /\ requeue \in [queue : WorkQueues \cup {"none"}, msg : Msg \cup {NoMsg}]
    /\ abandoned \in [Jobs -> SUBSET Reasons]
    /\ spent \in Nat

Init ==
    /\ status = [j \in Jobs |-> "absent"]
    /\ path = [j \in Jobs |-> "raw"]
    /\ rows = [j \in Jobs |-> 0]
    /\ source = [j \in Jobs |-> "raw"]
    /\ queue = [q \in Queues |-> [m \in Msg |-> 0]]
    /\ results = <<>>
    /\ md = [w \in MDWorkers |-> IdleWorker]
    /\ oc = [w \in OCWorkers |-> IdleWorker]
    /\ orch = Running
    /\ consumer = IdleConsumer
    /\ ingesting = {}
    /\ requests = [r \in Requests |-> IdleRequest]
    /\ requeue = NoRequeue
    /\ abandoned = [j \in Jobs |-> {}]
    /\ spent = 0
===============================================================================
