------------------------------- MODULE MdWorker -------------------------------
(***************************************************************************)
(* md-worker/worker/main.py: one worker takes one message of `ingest` at a *)
(* time (prefetch 1), asks the orchestrator whether the job should still   *)
(* be processed, reads the clip and publishes one job descriptor to        *)
(* `motion_results`. The message is acknowledged last.                     *)
(***************************************************************************)
EXTENDS JobState

MDUnchanged == UNCHANGED <<table, source, oc, orch, memory>>

MDHas(w, pc) == md[w].pc = pc
MDGoto(w, pc) == md' = [md EXCEPT ![w].pc = pc]
MDRelease(w) == md' = [md EXCEPT ![w] = IdleWorker]

(* Mutant: the check fails closed.                                         *)
JobIsProcessableFailClosed(j) == OrchUp /\ status[j] \in Processable

(* The answer of GET /internal/jobs/{id}/status. An orchestrator that is   *)
(* down or still starting refuses the connection, and any error means yes. *)
JobIsProcessable(j) == OrchUp => status[j] \in Processable

MDTake(w, m) ==
    /\ MDHas(w, "idle")
    /\ Ready("ingest", m)
    /\ Deliver("ingest", m)
    /\ md' = [md EXCEPT ![w] = [pc |-> "taken", msg |-> m]]
    /\ UNCHANGED <<results, abandoned, spent>>
    /\ MDUnchanged

(* process_job up to the early return: the job is found processable, or    *)
(* the 3 s check ends in an error and fails open.                          *)
MDAccept(w) ==
    /\ MDHas(w, "taken")
    /\ \/ JobIsProcessable(md[w].msg.job) /\ UNCHANGED spent
       \/ Disturb("check_timeout")
    /\ MDGoto(w, "accepted")
    /\ UNCHANGED <<queue, results, abandoned>>
    /\ MDUnchanged

(* Mutant: the early return forgets the ack.                               *)
MDSkipUnacked(w) ==
    /\ MDHas(w, "taken")
    /\ ~JobIsProcessable(md[w].msg.job)
    /\ UNCHANGED <<md, queue, results, abandoned, spent>>
    /\ MDUnchanged

(* "md_job_skipped": the message is acknowledged and gone.                 *)
MDSkip(w) ==
    /\ MDHas(w, "taken")
    /\ ~JobIsProcessable(md[w].msg.job)
    /\ Abandon(md[w].msg.job, "skipped")
    /\ MDRelease(w)
    /\ UNCHANGED <<queue, results, spent>>
    /\ MDUnchanged

(* Tells the orchestrator that motion detection has started.               *)
MDStart(w) ==
    /\ MDHas(w, "accepted")
    /\ Report(md[w].msg.job, "md_processing")
    /\ MDGoto(w, "started")
    /\ UNCHANGED <<queue, abandoned, spent>>
    /\ MDUnchanged

(* detect_motion has read the clip; its frames go out as one descriptor.   *)
MDDescribe(w) ==
    /\ MDHas(w, "started")
    /\ ClipFound(md[w].msg)
    /\ Publish("motion_results", md[w].msg)
    /\ MDGoto(w, "detected")
    /\ UNCHANGED <<results, abandoned, spent>>
    /\ MDUnchanged

(* detect_motion raised: the clip is not there, or cannot be decoded. The  *)
(* message is rejected to the dead letters and nobody is told.             *)
MDError(w) ==
    /\ MDHas(w, "started")
    /\ \/ ~ClipFound(md[w].msg) /\ UNCHANGED spent
       \/ Disturb("md_error")
    /\ Publish(DeadLetters["ingest"], md[w].msg)
    /\ MDRelease(w)
    /\ UNCHANGED <<results, abandoned>>
    /\ MDUnchanged

(* Tells the orchestrator that the descriptor is out: only after it is.    *)
MDReport(w) ==
    /\ MDHas(w, "detected")
    /\ Report(md[w].msg.job, "md_complete")
    /\ MDGoto(w, "reported")
    /\ UNCHANGED <<queue, abandoned, spent>>
    /\ MDUnchanged

(* Mutants: the last ack consumes a second message; the message is nacked  *)
(* with requeue instead of acked.                                          *)
MDAckTwice(w) ==
    /\ MDHas(w, "reported")
    /\ Deliver("ingest", md[w].msg)
    /\ MDRelease(w)
    /\ UNCHANGED <<results, abandoned, spent>>
    /\ MDUnchanged
MDAckRequeue(w) ==
    /\ MDHas(w, "reported")
    /\ Publish("ingest", md[w].msg)
    /\ MDRelease(w)
    /\ UNCHANGED <<results, abandoned, spent>>
    /\ MDUnchanged

MDAck(w) ==
    /\ MDHas(w, "reported")
    /\ MDRelease(w)
    /\ UNCHANGED <<queue, results, abandoned, spent>>
    /\ MDUnchanged

(* The process is killed, parked by the node agent before the job is done, *)
(* or loses its connection: RabbitMQ redelivers the unacked message.       *)
MDCrash(w) ==
    /\ ~MDHas(w, "idle")
    /\ Disturb("md_crash")
    /\ Publish("ingest", md[w].msg)
    /\ MDRelease(w)
    /\ UNCHANGED <<results, abandoned>>
    /\ MDUnchanged

MDStep(w) ==
    \/ \E m \in Msg : MDTake(w, m)
    \/ MDAccept(w) \/ MDSkip(w) \/ MDStart(w) \/ MDDescribe(w) \/ MDError(w) \/ MDReport(w) \/ MDAck(w)
===============================================================================
