------------------------------- MODULE OcWorker -------------------------------
(***************************************************************************)
(* oc-worker/worker/main.py: one worker takes one job descriptor of        *)
(* `motion_results` at a time, tracks the objects of the clip and publishes*)
(* one final result with all detections. It does not ask whether the job   *)
(* should still be processed.                                              *)
(***************************************************************************)
EXTENDS JobState

OCUnchanged == UNCHANGED <<table, source, md, orch, memory, abandoned>>

OCHas(w, pc) == oc[w].pc = pc
OCGoto(w, pc) == oc' = [oc EXCEPT ![w].pc = pc]
OCRelease(w) == oc' = [oc EXCEPT ![w] = IdleWorker]

(* The clip is opened only when there are motion frames to look at.        *)
ClipReadable(m) == ClipFound(m) \/ m.job \in StillClips

OCStart(w, m) ==
    /\ OCHas(w, "idle")
    /\ Ready("motion_results", m)
    /\ Deliver("motion_results", m)
    /\ Report(m.job, "oc_processing")
    /\ oc' = [oc EXCEPT ![w] = [pc |-> "started", msg |-> m]]
    /\ UNCHANGED spent
    /\ OCUnchanged

(* All uploads have ended; one message with every detection of the job.    *)
OCFinish(w) ==
    /\ OCHas(w, "started")
    /\ ClipReadable(oc[w].msg)
    /\ Report(oc[w].msg.job, "final")
    /\ OCGoto(w, "reported")
    /\ UNCHANGED <<queue, spent>>
    /\ OCUnchanged

(* Anything raised on the way: the job is reported failed ...              *)
OCError(w) ==
    /\ OCHas(w, "started")
    /\ \/ ~ClipReadable(oc[w].msg) /\ UNCHANGED spent
       \/ Disturb("oc_error")
    /\ Report(oc[w].msg.job, "failed")
    /\ OCGoto(w, "failing")
    /\ UNCHANGED queue
    /\ OCUnchanged

(* ... and its descriptor rejected to the dead letters.                    *)
OCReject(w) ==
    /\ OCHas(w, "failing")
    /\ Publish(DeadLetters["motion_results"], oc[w].msg)
    /\ OCRelease(w)
    /\ UNCHANGED <<results, spent>>
    /\ OCUnchanged

OCAck(w) ==
    /\ OCHas(w, "reported")
    /\ OCRelease(w)
    /\ UNCHANGED <<queue, results, spent>>
    /\ OCUnchanged

(* Mutant: descriptors are consumed with auto_ack.                         *)
OCCrashAutoAck(w) ==
    /\ ~OCHas(w, "idle")
    /\ Disturb("oc_crash")
    /\ OCRelease(w)
    /\ UNCHANGED <<queue, results>>
    /\ OCUnchanged

(* As MDCrash: the unacked descriptor is redelivered.                      *)
OCCrash(w) ==
    /\ ~OCHas(w, "idle")
    /\ Disturb("oc_crash")
    /\ Publish("motion_results", oc[w].msg)
    /\ OCRelease(w)
    /\ UNCHANGED results
    /\ OCUnchanged

OCStep(w) ==
    \/ \E m \in Msg : OCStart(w, m)
    \/ OCFinish(w) \/ OCError(w) \/ OCReject(w) \/ OCAck(w)
===============================================================================
