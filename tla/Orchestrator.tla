----------------------------- MODULE Orchestrator -----------------------------
(***************************************************************************)
(* The orchestrator process itself: the insert of a new clip (watcher and  *)
(* scan), its crash and its restart with recover_stuck_jobs, the operator's*)
(* dead-letter endpoints, and what the broker does on its own.             *)
(***************************************************************************)
EXTENDS JobState

OrchUnchanged == UNCHANGED <<source, results, md, oc>>

-------------------------------------------------------------------------------
(* Ingest: the row is committed, then the message is published.            *)

IngestCommit(j) ==
    /\ OrchUp
    /\ status[j] = "absent"
    /\ status' = [status EXCEPT ![j] = "queued"]
    /\ ingesting' = ingesting \cup {j}
    /\ UNCHANGED <<path, rows, queue, orch, consumer, requests, requeue, abandoned, spent>>
    /\ OrchUnchanged

(* Mutants: the publish is repeated although it went through; a publish    *)
(* waits until it is the only one.                                         *)
IngestPublishAgain(j) ==
    /\ OrchUp
    /\ j \in ingesting
    /\ Publish("ingest", [job |-> j, path |-> "raw"])
    /\ queue["ingest"][[job |-> j, path |-> "raw"]] < 2
    /\ ingesting' \in {ingesting, ingesting \ {j}}
    /\ UNCHANGED <<table, orch, consumer, requests, requeue, abandoned, spent>>
    /\ OrchUnchanged
IngestPublishAlone(j) ==
    /\ OrchUp
    /\ ingesting = {j}
    /\ Publish("ingest", [job |-> j, path |-> "raw"])
    /\ ingesting' = ingesting \ {j}
    /\ UNCHANGED <<table, orch, consumer, requests, requeue, abandoned, spent>>
    /\ OrchUnchanged

IngestPublish(j) ==
    /\ OrchUp
    /\ j \in ingesting
    /\ Publish("ingest", [job |-> j, path |-> "raw"])
    /\ ingesting' = ingesting \ {j}
    /\ UNCHANGED <<table, orch, consumer, requests, requeue, abandoned, spent>>
    /\ OrchUnchanged

(* Publishing failed for good; the error is logged and the row stays.      *)
IngestFail(j) ==
    /\ OrchUp
    /\ j \in ingesting
    /\ Disturb("publish_error")
    /\ Abandon(j, "unpublished")
    /\ ingesting' = ingesting \ {j}
    /\ UNCHANGED <<table, queue, orch, consumer, requests, requeue>>
    /\ OrchUnchanged

-------------------------------------------------------------------------------
(* Crash and restart.                                                      *)

(* Everything in memory is gone. What was committed and not yet published  *)
(* is not published; an unacked dead letter goes back to its queue.        *)
OrchCrash ==
    LET owed == ingesting \cup UNION {requests[r].jobs : r \in
                                        {x \in Requests : requests[x].op = "publish"}}
    IN  /\ orch.phase # "down"
        /\ Disturb("orch_crash")
        /\ orch' = [phase |-> "down", stuck |-> {}, todo |-> {}]
        /\ consumer' = IdleConsumer
        /\ ingesting' = {}
        /\ requests' = [r \in Requests |-> IdleRequest]
        /\ requeue' = NoRequeue
        /\ IF requeue = NoRequeue THEN UNCHANGED queue
                                  ELSE Publish(DeadLetters[requeue.queue], requeue.msg)
        /\ abandoned' = [j \in Jobs |-> IF j \in owed
                                        THEN abandoned[j] \cup {"unpublished"}
                                        ELSE abandoned[j]]
        /\ UNCHANGED table
        /\ OrchUnchanged

(* recover_stuck_jobs: loads the stuck jobs, publishes them one by one ... *)
RecoveryLoad ==
    LET S == {j \in Jobs : status[j] \in Stuck}
    IN  /\ orch.phase = "down"
        /\ orch' = [phase |-> "recovering", stuck |-> S,
                    todo |-> {[job |-> j, path |-> path[j]] : j \in S}]
        /\ UNCHANGED <<table, queue, memory, abandoned, spent>>
        /\ OrchUnchanged

RecoveryPublish(m) ==
    /\ orch.phase = "recovering"
    /\ m \in orch.todo
    /\ Publish("ingest", m)
    /\ orch' = [orch EXCEPT !.todo = @ \ {m}]
    /\ UNCHANGED <<table, memory, abandoned, spent>>
    /\ OrchUnchanged

(* ... and commits all of them at the end: they are submitted anew. Then   *)
(* the consumer, the watcher and the API start.                            *)
RecoveryCommit ==
    /\ orch.phase = "recovering"
    /\ orch.todo = {}
    /\ SetStatus(orch.stuck, "queued")
    /\ abandoned' = [j \in Jobs |-> IF j \in orch.stuck THEN {} ELSE abandoned[j]]
    /\ orch' = Running
    /\ UNCHANGED <<path, rows, queue, memory, spent>>
    /\ OrchUnchanged

(* A failing publish or commit rolls the statuses back; what was published *)
(* stays published, and the orchestrator starts all the same.              *)
RecoveryAbort ==
    /\ orch.phase = "recovering"
    /\ Disturb("recovery_error")
    /\ orch' = Running
    /\ UNCHANGED <<table, queue, memory, abandoned>>
    /\ OrchUnchanged

-------------------------------------------------------------------------------
(* Dead letters.                                                           *)

(* One message of dlx_requeue: published to its source queue, then acked.  *)
RequeuePublish(q, m) ==
    /\ OrchUp
    /\ requeue = NoRequeue
    /\ Ready(DeadLetters[q], m)
    /\ Disturb("requeue")
    /\ Transfer(DeadLetters[q], q, m)
    /\ requeue' = [queue |-> q, msg |-> m]
    /\ UNCHANGED <<table, orch, consumer, ingesting, requests, abandoned>>
    /\ OrchUnchanged

RequeueAck ==
    /\ OrchUp
    /\ requeue # NoRequeue
    /\ requeue' = NoRequeue
    /\ UNCHANGED <<table, queue, orch, consumer, ingesting, requests, abandoned, spent>>
    /\ OrchUnchanged

DlxPurge(q) ==
    /\ OrchUp
    /\ Disturb("dlx_purge")
    /\ Purge(DeadLetters[q])
    /\ UNCHANGED <<table, orch, memory>>
    /\ OrchUnchanged

(* x-message-ttl: after a day in a work queue the broker dead-letters.     *)
Expire(q, m) ==
    /\ Ready(q, m)
    /\ Disturb("expiry")
    /\ Transfer(q, DeadLetters[q], m)
    /\ UNCHANGED <<table, orch, memory, abandoned>>
    /\ OrchUnchanged

RecoveryStep == RecoveryLoad \/ RecoveryCommit \/ \E m \in Msg : RecoveryPublish(m)
===============================================================================
