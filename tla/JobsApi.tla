------------------------------- MODULE JobsApi --------------------------------
(***************************************************************************)
(* orchestrator/app/api/jobs.py: what users do to jobs. A handler loads    *)
(* the job, checks its status, then writes and commits; handlers run       *)
(* beside each other, the result consumer and the workers. A request       *)
(* remembers the step it is at (op), the jobs it is about, and what it     *)
(* still has to publish.                                                   *)
(***************************************************************************)
EXTENDS JobState

ApiUnchanged ==
    UNCHANGED <<source, results, md, oc, orch, consumer, ingesting, requeue>>

(* The message that resume_job, bulk_resume and recovery publish.          *)
JobMsg(j) == [job |-> j, path |-> path[j]]

At(r, op) == OrchUp /\ requests[r].op = op
Done(r) == requests' = [requests EXCEPT ![r] = IdleRequest]
Then(r, op) == requests' = [requests EXCEPT ![r].op = op]

(* The loading half of a handler: the request now goes by what it has seen. *)
Begin(r, op, S, todo) ==
    /\ At(r, "none")
    /\ S # {}
    /\ requests' = [requests EXCEPT ![r] = [op |-> op, jobs |-> S, todo |-> todo]]
    /\ UNCHANGED <<table, queue, abandoned>>
    /\ ApiUnchanged

PauseLoad(r, j) ==
    /\ status[j] \in Pauseable
    /\ Disturb("pause")
    /\ Begin(r, "pause", {j}, {})

PauseCommit(r) ==
    /\ At(r, "pause")
    /\ SetStatus(requests[r].jobs, "paused")
    /\ Done(r)
    /\ UNCHANGED <<path, rows, queue, abandoned, spent>>
    /\ ApiUnchanged

CancelLoad(r, j) ==
    /\ status[j] \notin Terminal \cup Gone
    /\ Disturb("cancel")
    /\ Begin(r, "cancel", {j}, {})

CancelCommit(r) ==
    /\ At(r, "cancel")
    /\ SetStatus(requests[r].jobs, "failed")
    /\ Done(r)
    /\ UNCHANGED <<path, rows, queue, abandoned, spent>>
    /\ ApiUnchanged

ResumeLoad(r, j) ==
    /\ status[j] = "paused"
    /\ Disturb("resume")
    /\ Begin(r, "resume", {j}, {})

(* Mutant: the status is set and nothing is published.                     *)
ResumeCommitOnly(r) ==
    LET S == {j \in requests[r].jobs : status[j] \notin Gone}
    IN  /\ At(r, "resume")
        /\ SetStatus(S, "queued")
        /\ abandoned' = [j \in Jobs |-> IF j \in S THEN {} ELSE abandoned[j]]
        /\ Done(r)
        /\ UNCHANGED <<path, rows, queue, spent>>
        /\ ApiUnchanged

(* Commits first: from here on the job is submitted anew. A row deleted    *)
(* meanwhile ends the request.                                             *)
ResumeCommit(r) ==
    LET S == {j \in requests[r].jobs : status[j] \notin Gone}
    IN  /\ At(r, "resume")
        /\ SetStatus(S, "queued")
        /\ abandoned' = [j \in Jobs |-> IF j \in S THEN {} ELSE abandoned[j]]
        /\ IF S = {} THEN Done(r) ELSE Then(r, "publish")
        /\ UNCHANGED <<path, rows, queue, spent>>
        /\ ApiUnchanged

(* The job is read back before it is published.                            *)
ResumePublish(r) ==
    /\ At(r, "publish")
    /\ \E j \in requests[r].jobs :
          IF status[j] \in Gone THEN UNCHANGED queue
                                ELSE Publish("ingest", JobMsg(j))
    /\ Done(r)
    /\ UNCHANGED <<table, abandoned, spent>>
    /\ ApiUnchanged

(* Three attempts to publish have failed: the request ends in an error and *)
(* the commit stands.                                                      *)
ResumeFail(r) ==
    /\ At(r, "publish")
    /\ Disturb("publish_error")
    /\ \E j \in requests[r].jobs : Abandon(j, "unpublished")
    /\ Done(r)
    /\ UNCHANGED <<table, queue>>
    /\ ApiUnchanged

(* The bulk version publishes every message before its one commit.         *)
BulkResumeLoad(r) ==
    LET S == {j \in Jobs : status[j] = "paused"}
    IN  /\ Disturb("bulk_resume")
        /\ Begin(r, "bulk_resume", S, {JobMsg(j) : j \in S})

BulkResumePublish(r, m) ==
    /\ At(r, "bulk_resume")
    /\ m \in requests[r].todo
    /\ Publish("ingest", m)
    /\ requests' = [requests EXCEPT ![r].todo = @ \ {m}]
    /\ UNCHANGED <<table, abandoned, spent>>
    /\ ApiUnchanged

(* One row gone from under the session rolls all of them back.             *)
BulkResumeCommit(r) ==
    /\ At(r, "bulk_resume")
    /\ requests[r].todo = {}
    /\ IF \E j \in requests[r].jobs : status[j] \in Gone
       THEN UNCHANGED status
       ELSE SetStatus(requests[r].jobs, "queued")
    /\ Done(r)
    /\ UNCHANGED <<path, rows, queue, abandoned, spent>>
    /\ ApiUnchanged

(* The bulk updates decide and write in one SQL statement.                 *)
BulkPause(r) ==
    /\ At(r, "none")
    /\ Disturb("bulk_pause")
    /\ SetStatus({j \in Jobs : status[j] \in Pauseable}, "paused")
    /\ UNCHANGED <<path, rows, queue, abandoned, requests>>
    /\ ApiUnchanged

BulkKill(r) ==
    LET S == {j \in Jobs : status[j] \in Active \cup {"paused"}}
    IN  /\ At(r, "none")
        /\ Disturb("bulk_kill")
        /\ S # {}
        /\ SetStatus(S, "failed")
        /\ Then(r, "purge_ingest")
        /\ UNCHANGED <<path, rows, queue, abandoned>>
        /\ ApiUnchanged

(* After the commit: the queues hold by now what was published meanwhile.  *)
KillPurgeIngest(r) ==
    /\ At(r, "purge_ingest")
    /\ Purge("ingest")
    /\ Then(r, "purge_motion")
    /\ UNCHANGED <<table, spent>>
    /\ ApiUnchanged

KillPurgeMotion(r) ==
    /\ At(r, "purge_motion")
    /\ Purge("motion_results")
    /\ Done(r)
    /\ UNCHANGED <<table, spent>>
    /\ ApiUnchanged

RemoveLoad(r, j) ==
    /\ status[j] \notin Active \cup Gone
    /\ Disturb("remove")
    /\ Begin(r, "remove", {j}, {})

BulkDeleteLoad(r) ==
    /\ Disturb("bulk_delete")
    /\ Begin(r, "remove", {j \in Jobs : status[j] \in {"failed", "paused"}}, {})

(* Mutant: the detections are deleted in a transaction of their own.       *)
RemoveCommitInTwo(r) ==
    /\ At(r, "remove")
    /\ IF \E j \in requests[r].jobs : rows[j] > 0
       THEN rows' = [j \in Jobs |-> IF j \in requests[r].jobs THEN 0 ELSE rows[j]]
            /\ UNCHANGED <<status, requests>>
       ELSE SetStatus(requests[r].jobs, "deleted") /\ Done(r) /\ UNCHANGED rows
    /\ UNCHANGED <<path, queue, abandoned, spent>>
    /\ ApiUnchanged

(* The delete cascades to tracks and detections.                           *)
RemoveCommit(r) ==
    /\ At(r, "remove")
    /\ SetStatus(requests[r].jobs, "deleted")
    /\ rows' = [j \in Jobs |-> IF j \in requests[r].jobs THEN 0 ELSE rows[j]]
    /\ Done(r)
    /\ UNCHANGED <<path, queue, abandoned, spent>>
    /\ ApiUnchanged

UserBegins(r) ==
    \/ \E j \in Jobs : \/ PauseLoad(r, j) \/ CancelLoad(r, j)
                       \/ ResumeLoad(r, j) \/ RemoveLoad(r, j)
    \/ BulkResumeLoad(r) \/ BulkDeleteLoad(r) \/ BulkPause(r) \/ BulkKill(r)

RequestStep(r) ==
    \/ PauseCommit(r) \/ CancelCommit(r) \/ RemoveCommit(r)
    \/ ResumeCommit(r) \/ ResumePublish(r)
    \/ \E m \in Msg : BulkResumePublish(r, m)
    \/ BulkResumeCommit(r)
    \/ KillPurgeIngest(r) \/ KillPurgeMotion(r)
===============================================================================
