----------------------------- MODULE JobPipeline ------------------------------
(***************************************************************************)
(* The pipeline: workers, result consumer, jobs API and orchestrator over  *)
(* the jobs table, the source clips and the queues.                        *)
(***************************************************************************)
EXTENDS MdWorker, OcWorker, ResultConsumer, JobsApi, Orchestrator

Next ==
    \/ \E w \in MDWorkers : MDStep(w) \/ MDCrash(w)
    \/ \E w \in OCWorkers : OCStep(w) \/ OCCrash(w)
    \/ ConsumerStep \/ ConsumerRollback \/ ConsumerReconnect
    \/ \E r \in Requests : UserBegins(r) \/ RequestStep(r) \/ ResumeFail(r)
    \/ \E j \in Jobs : IngestCommit(j) \/ IngestPublish(j) \/ IngestFail(j)
    \/ OrchCrash \/ RecoveryStep \/ RecoveryAbort
    \/ \E q \in WorkQueues : \/ DlxPurge(q)
                             \/ \E m \in Msg : RequeuePublish(q, m) \/ Expire(q, m)
    \/ RequeueAck

Spec == Init /\ [][Next]_vars

(* Every loop goes on: the consume loop of a worker, the consumer thread,  *)
(* a handler once it runs, a started publish, and the container restart    *)
(* policy. Nobody has to drop a clip, fail, or use the API.                *)
Fairness ==
    /\ \A w \in MDWorkers : WF_vars(MDStep(w))
    /\ \A w \in OCWorkers : WF_vars(OCStep(w))
    /\ WF_vars(ConsumerStep)
    /\ \A r \in Requests : WF_vars(RequestStep(r))
    /\ \A j \in Jobs : WF_vars(IngestPublish(j))
    /\ WF_vars(RecoveryStep)
    /\ WF_vars(RequeueAck)

FairSpec == Spec /\ Fairness

-------------------------------------------------------------------------------
(* Safety.                                                                 *)

(* Where the work on a job can be: in a queue, dead letters included; in   *)
(* the hands of a worker that has not handed it on; in a final result that *)
(* is still to be applied; in a publish that the orchestrator owes.        *)
InQueue(j) == \E q \in Queues : j \in Listed(q)
InMD(j) == \E w \in MDWorkers : md[w].pc \in {"taken", "accepted", "started"} /\ md[w].msg.job = j
InOC(j) == \E w \in OCWorkers : oc[w].pc \in {"started", "failing"} /\ oc[w].msg.job = j
InResults(j) == \E i \in 1..Len(results) : results[i] = [job |-> j, kind |-> "final"]
Owed(j) ==
    \/ j \in ingesting
    \/ \E r \in Requests : requests[r].op = "publish" /\ j \in requests[r].jobs

Carried(j) == InQueue(j) \/ InMD(j) \/ InOC(j) \/ InResults(j) \/ Owed(j)

(* No job is lost silently: whatever crashes, expires or is redelivered, a *)
(* job of the table is on its way, has its result stored, or was given up  *)
(* since its last submission at one of the five places where the code      *)
(* gives up (skip, ignored result, purge, rollback, commit without         *)
(* publish). Acks come after the publish they stand for (workers), and     *)
(* recovery publishes before it commits (orchestrator).                    *)
NoSilentLoss ==
    \A j \in Jobs : status[j] \notin Gone =>
        Carried(j) \/ rows[j] > 0 \/ abandoned[j] # {}

(* A completed job has its detections: no interleaving of the consumer's   *)
(* transaction with deletes, cancels and redelivered results separates     *)
(* status from the rows.                                                   *)
CompletedHasRows ==
    \A j \in Jobs : status[j] = "completed" => rows[j] > 0

(* The table never names a processed_ file before the rename has happened, *)
(* through rollbacks, crashes between rename and commit, and reruns.       *)
StoredNameExists ==
    \A j \in Jobs : path[j] = "processed" => source[j] = "processed"

(* While recovery runs, each job it is about to submit anew is unpublished *)
(* yet, on its way, or has its result: publishing before the commit is     *)
(* safe only because no worker can be told to skip the message meanwhile.  *)
RecoveryKeepsWork ==
    orch.phase = "recovering" =>
        \A j \in orch.stuck :
            \/ \E p \in Paths : [job |-> j, path |-> p] \in orch.todo
            \/ Carried(j)
            \/ rows[j] > 0

(* A cancelled or failed job comes back to life only through a transaction *)
(* that read it before: the consumer's or a resume's. No message that      *)
(* arrives after the cancel, no recovery and no bulk update revives it.    *)
RevivedOnlyByStaleWriter ==
    [][\A j \in Jobs : status[j] = "failed" /\ status'[j] \notin {"failed", "deleted"} =>
          \/ consumer.pc # "idle" /\ Current.job = j /\ consumer.seen # "failed"
          \/ \E r \in Requests : /\ requests[r].op \in {"resume", "bulk_resume", "pause"}
                                 /\ j \in requests[r].jobs]_vars

-------------------------------------------------------------------------------
(* The abstract view of a job, for instances without crash, redelivery,    *)
(* resume or restart.                                                      *)

Described(j) ==
    \/ \E q \in {"motion_results", "dlx.motion_results"} : j \in Listed(q)
    \/ InOC(j)
    \/ InResults(j)

StageOf(j) ==
    CASE status[j] = "absent" -> "absent"
      [] status[j] = "deleted" -> "removed"
      [] status[j] \notin Gone /\ rows[j] > 1 -> "recorded twice"
      [] status[j] \notin Gone /\ rows[j] = 1 -> "recorded"
      [] status[j] \notin Gone /\ rows[j] = 0 /\ abandoned[j] # {} -> "dropped"
      [] OTHER -> IF Described(j) THEN "described" ELSE "submitted"

Delivery == INSTANCE JobDelivery WITH stage <- [j \in Jobs |-> StageOf(j)]

(* Without crash, redelivery, resume or restart, through cancels, pauses,  *)
(* kills, deletes, failing steps and dead-letter requeues, a result is     *)
(* stored at most once, only for a described clip, and never after the     *)
(* pipeline has given the job up.                                          *)
DeliversAtMostOnce == Delivery!Spec

-------------------------------------------------------------------------------
(* Liveness.                                                               *)

Parked(j) == \E q \in WorkQueues : j \in Listed(DeadLetters[q])

(* Every job that enters the table settles: its result is stored, it is    *)
(* given up, parked with the dead letters, or deleted. No queue, worker or *)
(* half-done request keeps it for ever.                                    *)
EveryJobSettles ==
    \A j \in Jobs : (status[j] \notin Gone) ~>
        (rows[j] > 0 \/ abandoned[j] # {} \/ Parked(j) \/ status[j] = "deleted")

(* OC crashes, orchestrator restarts, lost acks and failed renames delay a *)
(* result and may repeat it, but every job gets one.                       *)
EveryJobRecorded == \A j \in Jobs : (status[j] = "queued") ~> (rows[j] > 0)

-------------------------------------------------------------------------------
(* What the repository says and the code does not do.                      *)

(* api/jobs.py: a terminal status is one where nothing can be done except  *)
(* remove.                                                                 *)
TerminalIsFinal ==
    [][\A j \in Jobs : status[j] \in Terminal =>
          status'[j] \in {status[j], "deleted"}]_vars

(* api/jobs.py: a paused job will not be processed until resumed, so no    *)
(* step but a resume takes it back to an active status.                    *)
PausedUntilResumed ==
    [][\A j \in Jobs : status[j] = "paused" /\ status'[j] \in Active \cup {"completed"} =>
          \E r \in Requests : requests[r].op \in {"resume", "bulk_resume"}]_vars

(* supervisor.py: the unacked message of a parked worker redelivers, so no *)
(* work is lost: an active job is on its way or has its result.            *)
ParkLosesNoWork ==
    \A j \in Jobs : status[j] \in Active => Carried(j) \/ rows[j] > 0

(* api/dlx.py: requeued messages go back so they can be reprocessed: the   *)
(* job gets its result, or returns to the dead letters.                    *)
RequeuedIsReprocessed ==
    \A j \in Jobs : (requeue # NoRequeue /\ requeue.msg.job = j) ~>
        (rows[j] > 0 \/ Parked(j))
===============================================================================
