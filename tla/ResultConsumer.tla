---------------------------- MODULE ResultConsumer ----------------------------
(***************************************************************************)
(* orchestrator/app/services/result_consumer.py: the thread that applies   *)
(* oc_results to the jobs table, one message at a time. A transaction      *)
(* loads the job, decides on what it loaded, and writes later; the request *)
(* threads of the jobs API may commit in between, and nothing checks that  *)
(* the row is still what was loaded.                                       *)
(***************************************************************************)
EXTENDS JobState

ConsumerUnchanged == UNCHANGED <<queue, md, oc, orch, ingesting, requests, requeue>>

HasResult == OrchUp /\ results # <<>>
Current == Head(results)
InFlight(pc) == HasResult /\ consumer.pc = pc
Final == Current.kind = "final"

(* Mutant: a failed job takes every update.                                *)
UnwantedUnlessFailed(s, kind) == s \in Gone \cup {"paused"}

(* The early returns: no such job, held or cancelled meanwhile. A repeated *)
(* failure report is the one update that a failed job still takes.         *)
Unwanted(s, kind) ==
    \/ s \in Gone \cup {"paused"}
    \/ s = "failed" /\ kind # "failed"

(* Mutant: an unwanted message is neither acked nor rejected.              *)
ConsumerIgnoreUnacked ==
    /\ InFlight("idle")
    /\ Unwanted(status[Current.job], Current.kind)
    /\ IF Final THEN Abandon(Current.job, "ignored") ELSE UNCHANGED abandoned
    /\ UNCHANGED <<table, source, results, consumer, spent>>
    /\ ConsumerUnchanged

ConsumerIgnore ==
    /\ InFlight("idle")
    /\ Unwanted(status[Current.job], Current.kind)
    /\ IF Final THEN Abandon(Current.job, "ignored") ELSE UNCHANGED abandoned
    /\ results' = Tail(results)
    /\ UNCHANGED <<table, source, consumer, spent>>
    /\ ConsumerUnchanged

ConsumerLoad ==
    /\ InFlight("idle")
    /\ ~Unwanted(status[Current.job], Current.kind)
    /\ consumer' = [pc |-> "loaded", seen |-> status[Current.job], path |-> path[Current.job]]
    /\ UNCHANGED <<table, source, results, abandoned, spent>>
    /\ ConsumerUnchanged

(* A status update. The ORM leaves out a column that keeps the value it    *)
(* was loaded with, and an update of a row deleted meanwhile rolls back.   *)
ConsumerUpdate ==
    /\ InFlight("loaded")
    /\ ~Final
    /\ IF consumer.seen = Current.kind
       THEN UNCHANGED status
       ELSE SetStatus({Current.job}, Current.kind)
    /\ consumer' = [consumer EXCEPT !.pc = "committed"]
    /\ UNCHANGED <<path, rows, source, results, abandoned, spent>>
    /\ ConsumerUnchanged

(* Mutant: file_path is set whether the rename works or not.               *)
ConsumerRenameUnchecked ==
    LET j == Current.job
        found == consumer.path = "raw" /\ source[j] = "raw"
    IN  /\ InFlight("loaded")
        /\ Final
        /\ status[j] \notin Gone
        /\ \/ /\ found
              /\ source' = [source EXCEPT ![j] = "processed"]
              /\ UNCHANGED spent
           \/ /\ IF found THEN Disturb("rename_error") ELSE UNCHANGED spent
              /\ UNCHANGED source
        /\ consumer' = [consumer EXCEPT !.pc = "renamed", !.path = "processed"]
        /\ UNCHANGED <<table, results, abandoned>>
        /\ ConsumerUnchanged

(* A final result of a job deleted meanwhile: the flush finds no row, and  *)
(* the transaction rolls back before it renames anything.                  *)
ConsumerStale ==
    /\ InFlight("loaded")
    /\ Final
    /\ status[Current.job] \in Gone
    /\ consumer' = [consumer EXCEPT !.pc = "committed"]
    /\ UNCHANGED <<table, source, results, abandoned, spent>>
    /\ ConsumerUnchanged

(* The flush, and _mark_source_processed: renames the clip before the      *)
(* transaction ends. A clip that is not there, or an I/O error, leaves     *)
(* file_path as it was.                                                    *)
ConsumerRename ==
    LET j == Current.job
        found == consumer.path = "raw" /\ source[j] = "raw"
    IN  /\ InFlight("loaded")
        /\ Final
        /\ status[j] \notin Gone
        /\ \/ /\ found
              /\ source' = [source EXCEPT ![j] = "processed"]
              /\ consumer' = [consumer EXCEPT !.pc = "renamed", !.path = "processed"]
              /\ UNCHANGED spent
           \/ /\ IF found THEN Disturb("rename_error") ELSE UNCHANGED spent
              /\ consumer' = [consumer EXCEPT !.pc = "renamed"]
              /\ UNCHANGED source
        /\ UNCHANGED <<table, results, abandoned>>
        /\ ConsumerUnchanged

(* Detections, tracks, status and file_path in one commit. A job loaded as *)
(* completed keeps the status it has by now, unless a new track made the   *)
(* session flush it as oc_processing first.                                *)
ConsumerComplete ==
    LET j == Current.job
    IN  /\ InFlight("renamed")
        /\ \/ status' = [status EXCEPT ![j] = "completed"]
           \/ consumer.seen = "completed" /\ UNCHANGED status
        /\ path' = [path EXCEPT ![j] = consumer.path]
        /\ rows' = [rows EXCEPT ![j] = @ + 1]
        /\ consumer' = [consumer EXCEPT !.pc = "committed"]
        /\ UNCHANGED <<source, results, abandoned, spent>>
        /\ ConsumerUnchanged

(* Any database error is logged and swallowed; the message is acked.       *)
ConsumerRollback ==
    /\ InFlight("loaded") \/ InFlight("renamed")
    /\ Disturb("db_error")
    /\ IF Final THEN Abandon(Current.job, "rolled_back") ELSE UNCHANGED abandoned
    /\ results' = Tail(results)
    /\ consumer' = IdleConsumer
    /\ UNCHANGED <<table, source>>
    /\ ConsumerUnchanged

ConsumerAck ==
    /\ InFlight("committed")
    /\ results' = Tail(results)
    /\ consumer' = IdleConsumer
    /\ UNCHANGED <<table, source, abandoned, spent>>
    /\ ConsumerUnchanged

(* The connection is lost between the commit and the ack: RabbitMQ         *)
(* redelivers the message.                                                 *)
ConsumerReconnect ==
    /\ InFlight("committed")
    /\ Disturb("conn_lost")
    /\ consumer' = IdleConsumer
    /\ UNCHANGED <<table, source, results, abandoned>>
    /\ ConsumerUnchanged

ConsumerStep ==
    \/ ConsumerIgnore \/ ConsumerLoad \/ ConsumerUpdate \/ ConsumerStale
    \/ ConsumerRename \/ ConsumerComplete \/ ConsumerAck
===============================================================================
