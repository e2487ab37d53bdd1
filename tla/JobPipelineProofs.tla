-------------------------- MODULE JobPipelineProofs ---------------------------
(***************************************************************************)
(* Safety of the pipeline for every set of jobs, workers and requests and  *)
(* every choice of disturbances.                                           *)
(***************************************************************************)
EXTENDS JobPipeline, SequenceTheorems, TLAPS

(* What is in somebody's hands is a message, and a resume is about one job. *)
Hands ==
    /\ \A w \in MDWorkers : md[w].pc # "idle" => md[w].msg \in Msg
    /\ \A w \in OCWorkers : oc[w].pc # "idle" => oc[w].msg \in Msg
    /\ requeue = NoRequeue \/ (requeue.queue \in WorkQueues /\ requeue.msg \in Msg)
    /\ \A r \in Requests : requests[r].op \in {"resume", "publish"} =>
                              \E j \in Jobs : requests[r].jobs = {j}

Shape == TypeOK /\ Hands

-------------------------------------------------------------------------------
(* The queue operators keep the queues well-typed.                         *)

LEMMA PublishType ==
    ASSUME queue \in [Queues -> [Msg -> Nat]], NEW q \in Queues, NEW m \in Msg,
           Publish(q, m)
    PROVE  queue' \in [Queues -> [Msg -> Nat]]
  BY DEF Publish

LEMMA DeliverType ==
    ASSUME queue \in [Queues -> [Msg -> Nat]], NEW q \in Queues, NEW m \in Msg,
           Ready(q, m), Deliver(q, m)
    PROVE  queue' \in [Queues -> [Msg -> Nat]]
  BY DEF Deliver, Ready

LEMMA TransferType ==
    ASSUME queue \in [Queues -> [Msg -> Nat]], NEW from \in Queues, NEW to \in Queues,
           NEW m \in Msg, from # to, Ready(from, m), Transfer(from, to, m)
    PROVE  queue' \in [Queues -> [Msg -> Nat]]
<1>1. queue[from] \in [Msg -> Nat] /\ queue[to] \in [Msg -> Nat]
  OBVIOUS
<1>2. [queue[from] EXCEPT ![m] = @ - 1] \in [Msg -> Nat]
  BY <1>1 DEF Ready
<1>3. [queue[to] EXCEPT ![m] = @ + 1] \in [Msg -> Nat]
  BY <1>1
<1>4. queue' = [queue EXCEPT ![from] = [queue[from] EXCEPT ![m] = @ - 1],
                             ![to] = [queue[to] EXCEPT ![m] = @ + 1]]
  BY DEF Transfer
<1> QED
  BY <1>2, <1>3, <1>4

LEMMA PurgeType ==
    ASSUME queue \in [Queues -> [Msg -> Nat]], abandoned \in [Jobs -> SUBSET Reasons],
           NEW q \in Queues, Purge(q)
    PROVE  /\ queue' \in [Queues -> [Msg -> Nat]]
           /\ abandoned' \in [Jobs -> SUBSET Reasons]
  BY DEF Purge, Reasons

LEMMA DeadLettersType ==
    ASSUME NEW q \in WorkQueues
    PROVE  DeadLetters[q] \in Queues /\ q \in Queues /\ DeadLetters[q] # q
  BY DEF DeadLetters, WorkQueues, Queues

LEMMA MDShape ==
    ASSUME Shape, NEW w \in MDWorkers, MDStep(w) \/ MDCrash(w)
    PROVE  Shape'
<1> USE DEF Shape, TypeOK, Hands
<1>1. ASSUME NEW m \in Msg, MDTake(w, m) PROVE Shape'
  <2>1. queue' \in [Queues -> [Msg -> Nat]]
    BY <1>1, DeliverType DEF MDTake, Queues
  <2>2. md' \in [MDWorkers -> [pc : MDSteps, msg : Msg \cup {NoMsg}]]
    BY <1>1 DEF MDTake, MDSteps
  <2> QED
    BY <1>1, <2>1, <2>2 DEF MDTake, MDUnchanged, table, memory
<1>2. CASE MDAccept(w)
  <2>1. spent' \in Nat
    BY <1>2 DEF MDAccept, Disturb
  <2> QED
    BY <1>2, <2>1 DEF MDAccept, MDUnchanged, table, memory, MDHas, MDGoto, MDSteps
<1>9. CASE MDSkip(w)
  BY <1>9 DEF MDSkip, MDUnchanged, table, memory, MDHas, MDRelease, IdleWorker, MDSteps,
     Abandon, Reasons, Msg
<1>3. CASE MDStart(w)
  <2>1. results' \in Seq(Result)
    BY <1>3 DEF MDStart, Report, Result, ResultKinds, Msg, MDHas
  <2> QED
    BY <1>3, <2>1 DEF MDStart, MDUnchanged, table, memory, MDHas, MDGoto, MDSteps
<1>4. CASE MDDescribe(w)
  BY <1>4, PublishType DEF MDDescribe, MDUnchanged, table, memory, MDHas, MDGoto, MDSteps,
     Queues
<1>5. CASE MDError(w)
  <2>1. queue' \in [Queues -> [Msg -> Nat]]
    BY <1>5, PublishType, DeadLettersType DEF MDError, MDHas, WorkQueues
  <2>2. spent' \in Nat
    BY <1>5 DEF MDError, Disturb
  <2> QED
    BY <1>5, <2>1, <2>2 DEF MDError, MDUnchanged, table, memory, MDRelease, IdleWorker,
       MDSteps
<1>6. CASE MDReport(w)
  <2>1. results' \in Seq(Result)
    BY <1>6 DEF MDReport, Report, Result, ResultKinds, Msg, MDHas
  <2> QED
    BY <1>6, <2>1 DEF MDReport, MDUnchanged, table, memory, MDHas, MDGoto, MDSteps
<1>7. CASE MDAck(w)
  BY <1>7 DEF MDAck, MDUnchanged, table, memory, MDRelease, IdleWorker, MDSteps
<1>8. CASE MDCrash(w)
  <2>1. queue' \in [Queues -> [Msg -> Nat]]
    BY <1>8, PublishType DEF MDCrash, MDHas, Queues
  <2>2. spent' \in Nat
    BY <1>8 DEF MDCrash, Disturb
  <2> QED
    BY <1>8, <2>1, <2>2 DEF MDCrash, MDUnchanged, table, memory, MDRelease, IdleWorker,
       MDSteps
<1> QED
  BY <1>1, <1>2, <1>3, <1>4, <1>5, <1>6, <1>7, <1>8, <1>9 DEF MDStep

LEMMA OCShape ==
    ASSUME Shape, NEW w \in OCWorkers, OCStep(w) \/ OCCrash(w)
    PROVE  Shape'
<1> USE DEF Shape, TypeOK, Hands
<1>1. ASSUME NEW m \in Msg, OCStart(w, m) PROVE Shape'
  <2>1. queue' \in [Queues -> [Msg -> Nat]]
    BY <1>1, DeliverType DEF OCStart, Queues
  <2>2. results' \in Seq(Result)
    BY <1>1 DEF OCStart, Report, Result, ResultKinds, Msg
  <2> QED
    BY <1>1, <2>1, <2>2 DEF OCStart, OCUnchanged, table, memory, OCSteps
<1>2. CASE OCFinish(w)
  <2>1. results' \in Seq(Result)
    BY <1>2 DEF OCFinish, Report, Result, ResultKinds, Msg, OCHas
  <2> QED
    BY <1>2, <2>1 DEF OCFinish, OCUnchanged, table, memory, OCHas, OCGoto, OCSteps
<1>3. CASE OCError(w)
  <2>1. results' \in Seq(Result)
    BY <1>3 DEF OCError, Report, Result, ResultKinds, Msg, OCHas
  <2>2. spent' \in Nat
    BY <1>3 DEF OCError, Disturb
  <2> QED
    BY <1>3, <2>1, <2>2 DEF OCError, OCUnchanged, table, memory, OCHas, OCGoto, OCSteps
<1>4. CASE OCReject(w)
  BY <1>4, PublishType, DeadLettersType DEF OCReject, OCUnchanged, table, memory, OCHas,
     OCRelease, IdleWorker, OCSteps, WorkQueues
<1>5. CASE OCAck(w)
  BY <1>5 DEF OCAck, OCUnchanged, table, memory, OCRelease, IdleWorker, OCSteps
<1>6. CASE OCCrash(w)
  <2>1. queue' \in [Queues -> [Msg -> Nat]]
    BY <1>6, PublishType DEF OCCrash, OCHas, Queues
  <2>2. spent' \in Nat
    BY <1>6 DEF OCCrash, Disturb
  <2> QED
    BY <1>6, <2>1, <2>2 DEF OCCrash, OCUnchanged, table, memory, OCRelease, IdleWorker,
       OCSteps
<1> QED
  BY <1>1, <1>2, <1>3, <1>4, <1>5, <1>6 DEF OCStep

LEMMA SetStatusType ==
    ASSUME status \in [Jobs -> Status], NEW S, NEW new \in Status, SetStatus(S, new)
    PROVE  status' \in [Jobs -> Status]
  BY DEF SetStatus

LEMMA CurrentType ==
    ASSUME results \in Seq(Result), results # <<>>
    PROVE  /\ Current \in Result
           /\ Current.job \in Jobs
           /\ Current.kind \in ResultKinds
           /\ Tail(results) \in Seq(Result)
<1>1. Current \in Result /\ Tail(results) \in Seq(Result)
  BY HeadTailProperties DEF Current
<1> QED
  BY <1>1 DEF Result

LEMMA ConsumerShape ==
    ASSUME Shape, ConsumerStep \/ ConsumerRollback \/ ConsumerReconnect
    PROVE  Shape'
<1> USE DEF Shape, TypeOK, Hands
<1>0. HasResult /\ UNCHANGED <<queue, md, oc, orch, ingesting, requests, requeue>>
  BY DEF ConsumerStep, ConsumerRollback, ConsumerReconnect, ConsumerIgnore, ConsumerLoad,
     ConsumerUpdate, ConsumerStale, ConsumerRename, ConsumerComplete, ConsumerAck, InFlight,
     ConsumerUnchanged
<1>1. /\ Current.job \in Jobs /\ Current.kind \in ResultKinds
      /\ Tail(results) \in Seq(Result)
  BY <1>0, CurrentType DEF HasResult
<1>2. ASSUME NEW why \in Reasons, Abandon(Current.job, why)
      PROVE  abandoned' \in [Jobs -> SUBSET Reasons]
  BY <1>1, <1>2 DEF Abandon
<1>3. IdleConsumer \in [pc : ConsumerSteps, seen : Status, path : Paths]
  BY DEF IdleConsumer, ConsumerSteps, Status, Gone, Paths
<1>4. CASE ConsumerIgnore
  <2>1. abandoned' \in [Jobs -> SUBSET Reasons]
    BY <1>2, <1>4 DEF ConsumerIgnore, Reasons
  <2> QED
    BY <1>0, <1>1, <1>4, <2>1 DEF ConsumerIgnore, table
<1>5. CASE ConsumerLoad
  BY <1>0, <1>1, <1>5 DEF ConsumerLoad, table, ConsumerSteps
<1>6. CASE ConsumerUpdate
  <2>1. Current.kind \in Status
    BY <1>1, <1>6 DEF ConsumerUpdate, Final, ResultKinds, Status, Active, Terminal
  <2>2. status' \in [Jobs -> Status]
    BY <2>1, <1>6, SetStatusType DEF ConsumerUpdate
  <2> QED
    BY <1>0, <1>6, <2>2 DEF ConsumerUpdate, ConsumerSteps
<1>7. CASE ConsumerRename
  <2>1. spent' \in Nat
    BY <1>7 DEF ConsumerRename, Disturb
  <2>2. source' \in [Jobs -> Paths]
    <3>1. source' = source \/ source' = [source EXCEPT ![Current.job] = "processed"]
      BY <1>7 DEF ConsumerRename
    <3> QED
      BY <3>1 DEF Paths
  <2>3. consumer' \in [pc : ConsumerSteps, seen : Status, path : Paths]
    BY <1>7 DEF ConsumerRename, Paths, ConsumerSteps
  <2> QED
    BY <1>0, <1>7, <2>1, <2>2, <2>3 DEF ConsumerRename, table
<1>8. CASE ConsumerComplete
  <2>1. /\ status' \in [Jobs -> Status] /\ path' \in [Jobs -> Paths]
        /\ rows' \in [Jobs -> Nat]
    <3>1. /\ status' = status \/ status' = [status EXCEPT ![Current.job] = "completed"]
          /\ path' = [path EXCEPT ![Current.job] = consumer.path]
          /\ rows' = [rows EXCEPT ![Current.job] = @ + 1]
      BY <1>8 DEF ConsumerComplete
    <3>2. consumer.path \in Paths /\ "completed" \in Status
      BY DEF Status, Terminal
    <3>3. status' \in [Jobs -> Status]
      <4>1. [status EXCEPT ![Current.job] = "completed"] \in [Jobs -> Status]
        BY <3>2
      <4> QED
        BY <3>1, <4>1
    <3>4. path' \in [Jobs -> Paths]
      BY <3>1, <3>2
    <3>5. rows' \in [Jobs -> Nat]
      <4>1. rows[Current.job] + 1 \in Nat
        BY <1>1
      <4> QED
        BY <3>1, <4>1
    <3> QED
      BY <3>3, <3>4, <3>5
  <2> QED
    BY <1>0, <1>8, <2>1 DEF ConsumerComplete, ConsumerSteps
<1>9. CASE ConsumerRollback
  <2>1. abandoned' \in [Jobs -> SUBSET Reasons]
    BY <1>2, <1>9 DEF ConsumerRollback, Reasons
  <2>2. spent' \in Nat
    BY <1>9 DEF ConsumerRollback, Disturb
  <2> QED
    BY <1>0, <1>1, <1>3, <1>9, <2>1, <2>2 DEF ConsumerRollback, table
<1>10. CASE ConsumerAck
  BY <1>0, <1>1, <1>3, <1>10 DEF ConsumerAck, table
<1>11. CASE ConsumerReconnect
  BY <1>0, <1>3, <1>11 DEF ConsumerReconnect, table, Disturb
<1>12. CASE ConsumerStale
  BY <1>0, <1>12 DEF ConsumerStale, table, ConsumerSteps
<1> QED
  BY <1>4, <1>5, <1>6, <1>7, <1>8, <1>9, <1>10, <1>11, <1>12 DEF ConsumerStep

LEMMA ApiShape ==
    ASSUME Shape, NEW r \in Requests, UserBegins(r) \/ RequestStep(r) \/ ResumeFail(r)
    PROVE  Shape'
<1> USE DEF Shape, TypeOK, Hands
<1> DEFINE RequestType == [op : RequestOps, jobs : SUBSET Jobs, todo : SUBSET Msg]
<1>1. ASSUME NEW kind, Disturb(kind) PROVE spent' \in Nat
  BY <1>1 DEF Disturb
<1>2. \A j \in Jobs : JobMsg(j) \in Msg
  BY DEF JobMsg, Msg
<1>3. ASSUME NEW op \in RequestOps, NEW S \in SUBSET Jobs, NEW todo \in SUBSET Msg,
             op \in {"resume", "publish"} => \E j \in Jobs : S = {j},
             spent' \in Nat, Begin(r, op, S, todo)
      PROVE  Shape'
  BY <1>3 DEF Begin, ApiUnchanged, table
<1>0. ASSUME NEW op \in {"pause", "cancel", "resume", "remove"}, NEW j \in Jobs, NEW kind,
             Disturb(kind), Begin(r, op, {j}, {})
      PROVE  Shape'
  <2>1. op \in RequestOps /\ {j} \in SUBSET Jobs /\ {} \in SUBSET Msg
    BY DEF RequestOps
  <2> QED
    BY <1>0, <1>1, <1>3, <2>1
<1>4. ASSUME spent' \in Nat,
             status' \in [Jobs -> Status], path' = path, rows' \in [Jobs -> Nat],
             queue' \in [Queues -> [Msg -> Nat]],
             abandoned' \in [Jobs -> SUBSET Reasons],
             ApiUnchanged,
             NEW q \in RequestType,
             q.op \in {"resume", "publish"} => \E j \in Jobs : q.jobs = {j},
             requests' = [requests EXCEPT ![r] = q]
      PROVE  Shape'
  BY <1>4 DEF ApiUnchanged
<1>5. IdleRequest \in RequestType /\ IdleRequest.op = "none"
  BY DEF IdleRequest, RequestOps
<1>6. ASSUME NEW op \in RequestOps,
             op = "publish" => requests[r].op = "resume",
             op # "resume",
             spent' \in Nat,
             status' \in [Jobs -> Status], path' = path, rows' \in [Jobs -> Nat],
             queue' \in [Queues -> [Msg -> Nat]],
             abandoned' \in [Jobs -> SUBSET Reasons],
             ApiUnchanged, Then(r, op)
      PROVE  Shape'
  <2>1. /\ [requests[r] EXCEPT !.op = op] \in RequestType
        /\ [requests[r] EXCEPT !.op = op].op = op
        /\ [requests[r] EXCEPT !.op = op].jobs = requests[r].jobs
    OBVIOUS
  <2>2. requests' = [requests EXCEPT ![r] = [requests[r] EXCEPT !.op = op]]
    BY <1>6 DEF Then
  <2> QED
    BY <1>4, <1>6, <2>1, <2>2
<1>7. ASSUME spent' \in Nat,
             status' \in [Jobs -> Status], path' = path, rows' \in [Jobs -> Nat],
             queue' \in [Queues -> [Msg -> Nat]],
             abandoned' \in [Jobs -> SUBSET Reasons],
             ApiUnchanged, Done(r)
      PROVE  Shape'
  BY <1>4, <1>5, <1>7 DEF Done
<1>8. {"queued", "paused", "failed", "deleted"} \subseteq Status
  BY DEF Status, Active, Terminal, Gone
<1>9. {"ingest", "motion_results"} \subseteq Queues
  BY DEF Queues
<1>10. CASE UserBegins(r)
  <2>1. ASSUME NEW j \in Jobs, PauseLoad(r, j) PROVE Shape'
    BY <1>0, <2>1 DEF PauseLoad
  <2>2. ASSUME NEW j \in Jobs, CancelLoad(r, j) PROVE Shape'
    BY <1>0, <2>2 DEF CancelLoad
  <2>3. ASSUME NEW j \in Jobs, ResumeLoad(r, j) PROVE Shape'
    BY <1>0, <2>3 DEF ResumeLoad
  <2>4. ASSUME NEW j \in Jobs, RemoveLoad(r, j) PROVE Shape'
    BY <1>0, <2>4 DEF RemoveLoad
  <2>5. CASE BulkResumeLoad(r)
    <3> DEFINE S == {j \in Jobs : status[j] = "paused"}
    <3>1. {JobMsg(j) : j \in S} \in SUBSET Msg
      BY <1>2
    <3>2. Begin(r, "bulk_resume", S, {JobMsg(j) : j \in S}) /\ spent' \in Nat
      BY <1>1, <2>5 DEF BulkResumeLoad
    <3> QED
      BY <1>3, <3>1, <3>2 DEF RequestOps
  <2>6. CASE BulkDeleteLoad(r)
    <3> DEFINE S == {j \in Jobs : status[j] \in {"failed", "paused"}}
    <3>1. Begin(r, "remove", S, {}) /\ spent' \in Nat /\ {} \in SUBSET Msg
      BY <1>1, <2>6 DEF BulkDeleteLoad
    <3> QED
      BY <1>3, <3>1 DEF RequestOps
  <2>7. CASE BulkPause(r)
    <3>1. status' \in [Jobs -> Status]
      BY <1>8, <2>7, SetStatusType DEF BulkPause
    <3> QED
      BY <1>1, <2>7, <3>1 DEF BulkPause, ApiUnchanged
  <2>8. CASE BulkKill(r)
    <3>1. status' \in [Jobs -> Status]
      BY <1>8, <2>8, SetStatusType DEF BulkKill
    <3> QED
      BY <1>1, <1>6, <2>8, <3>1 DEF BulkKill, RequestOps
  <2> QED
    BY <1>10, <2>1, <2>2, <2>3, <2>4, <2>5, <2>6, <2>7, <2>8 DEF UserBegins
<1>11. CASE PauseCommit(r)
  <2>1. status' \in [Jobs -> Status]
    BY <1>8, <1>11, SetStatusType DEF PauseCommit
  <2> QED
    BY <1>7, <1>11, <2>1 DEF PauseCommit
<1>12. CASE CancelCommit(r)
  <2>1. status' \in [Jobs -> Status]
    BY <1>8, <1>12, SetStatusType DEF CancelCommit
  <2> QED
    BY <1>7, <1>12, <2>1 DEF CancelCommit
<1>13. CASE RemoveCommit(r)
  <2>1. status' \in [Jobs -> Status]
    BY <1>8, <1>13, SetStatusType DEF RemoveCommit
  <2>2. rows' \in [Jobs -> Nat]
    BY <1>13 DEF RemoveCommit
  <2> QED
    BY <1>7, <1>13, <2>1, <2>2 DEF RemoveCommit
<1>14. CASE ResumeCommit(r)
  <2> DEFINE S == {j \in requests[r].jobs : status[j] \notin Gone}
  <2>1. status' \in [Jobs -> Status]
    BY <1>8, <1>14, SetStatusType DEF ResumeCommit
  <2>2. abandoned' \in [Jobs -> SUBSET Reasons]
    BY <1>14 DEF ResumeCommit
  <2>3. CASE S = {}
    BY <1>7, <1>14, <2>1, <2>2, <2>3 DEF ResumeCommit
  <2>4. CASE S # {}
    BY <1>6, <1>14, <2>1, <2>2, <2>4 DEF ResumeCommit, At, RequestOps
  <2> QED
    BY <2>3, <2>4
<1>15. CASE ResumePublish(r)
  <2>1. queue' \in [Queues -> [Msg -> Nat]]
    <3>1. PICK j \in requests[r].jobs :
             IF status[j] \in Gone THEN UNCHANGED queue ELSE Publish("ingest", JobMsg(j))
      BY <1>15 DEF ResumePublish
    <3>2. j \in Jobs
      OBVIOUS
    <3> QED
      BY <1>2, <1>9, <3>1, <3>2, PublishType
  <2> QED
    BY <1>7, <1>15, <2>1 DEF ResumePublish, table
<1>16. CASE ResumeFail(r)
  <2>1. abandoned' \in [Jobs -> SUBSET Reasons]
    BY <1>16 DEF ResumeFail, Abandon, Reasons
  <2> QED
    BY <1>1, <1>7, <1>16, <2>1 DEF ResumeFail, table
<1>17. ASSUME NEW m \in Msg, BulkResumePublish(r, m) PROVE Shape'
  <2>1. queue' \in [Queues -> [Msg -> Nat]]
    BY <1>9, <1>17, PublishType DEF BulkResumePublish
  <2>2. [requests[r] EXCEPT !.todo = @ \ {m}] \in RequestType
    <3>1. requests[r] \in RequestType /\ requests[r].todo \ {m} \in SUBSET Msg
      OBVIOUS
    <3> QED
      BY <3>1
  <2>3. requests' = [requests EXCEPT ![r] = [requests[r] EXCEPT !.todo = @ \ {m}]]
    BY <1>17 DEF BulkResumePublish
  <2>4. [requests[r] EXCEPT !.todo = @ \ {m}].op = "bulk_resume"
    BY <1>17 DEF BulkResumePublish, At
  <2> QED
    BY <1>4, <1>17, <2>1, <2>2, <2>3, <2>4 DEF BulkResumePublish, table
<1>18. CASE BulkResumeCommit(r)
  <2>1. status' \in [Jobs -> Status]
    BY <1>8, <1>18, SetStatusType DEF BulkResumeCommit
  <2> QED
    BY <1>7, <1>18, <2>1 DEF BulkResumeCommit
<1>19. CASE KillPurgeIngest(r)
  BY <1>6, <1>9, <1>19, PurgeType DEF KillPurgeIngest, table, RequestOps
<1>20. CASE KillPurgeMotion(r)
  BY <1>7, <1>9, <1>20, PurgeType DEF KillPurgeMotion, table
<1> QED
  BY <1>10, <1>11, <1>12, <1>13, <1>14, <1>15, <1>16, <1>17, <1>18, <1>19, <1>20
  DEF RequestStep

OrchestratorNext ==
    \/ \E j \in Jobs : IngestCommit(j) \/ IngestPublish(j) \/ IngestFail(j)
    \/ OrchCrash \/ RecoveryStep \/ RecoveryAbort
    \/ \E q \in WorkQueues : \/ DlxPurge(q)
                             \/ \E m \in Msg : RequeuePublish(q, m) \/ Expire(q, m)
    \/ RequeueAck

LEMMA OrchestratorShape ==
    ASSUME Shape, OrchestratorNext
    PROVE  Shape'
<1> USE DEF Shape, TypeOK, Hands
<1>1. ASSUME NEW kind, Disturb(kind) PROVE spent' \in Nat
  BY <1>1 DEF Disturb
<1>2. {"ingest", "motion_results"} \subseteq Queues /\ "queued" \in Status
  BY DEF Queues, Status, Active
<1>3. Running \in [phase : Phases, stuck : SUBSET Jobs, todo : SUBSET Msg]
  BY DEF Running, Phases
<1>4. ASSUME NEW j \in Jobs, IngestCommit(j) PROVE Shape'
  <2>1. status' \in [Jobs -> Status] /\ ingesting' \in SUBSET Jobs
    BY <1>2, <1>4 DEF IngestCommit
  <2> QED
    BY <1>4, <2>1 DEF IngestCommit, OrchUnchanged
<1>5. ASSUME NEW j \in Jobs, IngestPublish(j) PROVE Shape'
  <2>1. [job |-> j, path |-> "raw"] \in Msg
    BY DEF Msg, Paths
  <2>2. queue' \in [Queues -> [Msg -> Nat]]
    BY <1>2, <1>5, <2>1, PublishType DEF IngestPublish
  <2> QED
    BY <1>5, <2>2 DEF IngestPublish, OrchUnchanged, table
<1>6. ASSUME NEW j \in Jobs, IngestFail(j) PROVE Shape'
  <2>1. abandoned' \in [Jobs -> SUBSET Reasons]
    BY <1>6 DEF IngestFail, Abandon, Reasons
  <2> QED
    BY <1>1, <1>6, <2>1 DEF IngestFail, OrchUnchanged, table
<1>7. CASE OrchCrash
  <2>1. queue' \in [Queues -> [Msg -> Nat]]
    BY <1>7, PublishType, DeadLettersType DEF OrchCrash
  <2>2. abandoned' \in [Jobs -> SUBSET Reasons]
    BY <1>7 DEF OrchCrash, Reasons
  <2>3. consumer' \in [pc : ConsumerSteps, seen : Status, path : Paths]
    BY <1>7 DEF OrchCrash, IdleConsumer, ConsumerSteps, Status, Gone, Paths
  <2>4. /\ requests' \in [Requests -> [op : RequestOps, jobs : SUBSET Jobs, todo : SUBSET Msg]]
        /\ \A r \in Requests : requests'[r].op = "none"
    <3>1. IdleRequest \in [op : RequestOps, jobs : SUBSET Jobs, todo : SUBSET Msg]
      BY DEF IdleRequest, RequestOps
    <3> QED
      BY <1>7, <3>1 DEF OrchCrash, IdleRequest
  <2>5. orch' \in [phase : Phases, stuck : SUBSET Jobs, todo : SUBSET Msg]
    BY <1>7 DEF OrchCrash, Phases
  <2>6. requeue' = NoRequeue /\ NoRequeue \in [queue : WorkQueues \cup {"none"},
                                             msg : Msg \cup {NoMsg}]
    BY <1>7 DEF OrchCrash, NoRequeue
  <2>7. spent' \in Nat
    BY <1>1, <1>7 DEF OrchCrash
  <2>8. ingesting' \in SUBSET Jobs
    BY <1>7 DEF OrchCrash
  <2> QED
    BY <1>7, <2>1, <2>2, <2>3, <2>4, <2>5, <2>6, <2>7, <2>8
    DEF OrchCrash, OrchUnchanged, table
<1>8. CASE RecoveryLoad
  <2> DEFINE S == {j \in Jobs : status[j] \in Stuck}
  <2>1. {[job |-> j, path |-> path[j]] : j \in S} \in SUBSET Msg
    BY DEF Msg
  <2>2. orch' = [phase |-> "recovering", stuck |-> S,
                 todo |-> {[job |-> j, path |-> path[j]] : j \in S}]
    BY <1>8 DEF RecoveryLoad
  <2>3. orch' \in [phase : Phases, stuck : SUBSET Jobs, todo : SUBSET Msg]
    BY <2>1, <2>2 DEF Phases
  <2> QED
    BY <1>8, <2>3 DEF RecoveryLoad, OrchUnchanged, table, memory
<1>9. ASSUME NEW m \in Msg, RecoveryPublish(m) PROVE Shape'
  <2>1. queue' \in [Queues -> [Msg -> Nat]]
    BY <1>2, <1>9, PublishType DEF RecoveryPublish
  <2>2. orch.todo \ {m} \in SUBSET Msg
    OBVIOUS
  <2>3. orch' \in [phase : Phases, stuck : SUBSET Jobs, todo : SUBSET Msg]
    BY <1>9, <2>2 DEF RecoveryPublish
  <2> QED
    BY <1>9, <2>1, <2>3 DEF RecoveryPublish, OrchUnchanged, table, memory
<1>10. CASE RecoveryCommit
  <2>1. status' \in [Jobs -> Status]
    BY <1>2, <1>10, SetStatusType DEF RecoveryCommit
  <2>2. abandoned' \in [Jobs -> SUBSET Reasons]
    BY <1>10 DEF RecoveryCommit
  <2> QED
    BY <1>3, <1>10, <2>1, <2>2 DEF RecoveryCommit, OrchUnchanged, memory
<1>11. CASE RecoveryAbort
  BY <1>1, <1>3, <1>11 DEF RecoveryAbort, OrchUnchanged, table, memory
<1>12. ASSUME NEW q \in WorkQueues, DlxPurge(q) PROVE Shape'
  <2>1. /\ queue' \in [Queues -> [Msg -> Nat]]
        /\ abandoned' \in [Jobs -> SUBSET Reasons]
    BY <1>12, DeadLettersType, PurgeType DEF DlxPurge
  <2> QED
    BY <1>1, <1>12, <2>1 DEF DlxPurge, OrchUnchanged, table, memory
<1>13. ASSUME NEW q \in WorkQueues, NEW m \in Msg, RequeuePublish(q, m) PROVE Shape'
  <2>1. queue' \in [Queues -> [Msg -> Nat]]
    BY <1>13, DeadLettersType, TransferType DEF RequeuePublish
  <2> QED
    BY <1>1, <1>13, <2>1 DEF RequeuePublish, OrchUnchanged, table
<1>14. ASSUME NEW q \in WorkQueues, NEW m \in Msg, Expire(q, m) PROVE Shape'
  <2>1. queue' \in [Queues -> [Msg -> Nat]]
    BY <1>14, DeadLettersType, TransferType DEF Expire
  <2> QED
    BY <1>1, <1>14, <2>1 DEF Expire, OrchUnchanged, table, memory
<1>15. CASE RequeueAck
  BY <1>15 DEF RequeueAck, OrchUnchanged, table, NoRequeue
<1> QED
  BY <1>4, <1>5, <1>6, <1>7, <1>8, <1>9, <1>10, <1>11, <1>12, <1>13, <1>14, <1>15
  DEF OrchestratorNext, RecoveryStep

LEMMA InitShape == Init => Shape
<1> SUFFICES ASSUME Init PROVE Shape
  OBVIOUS
<1> USE DEF Init
<1>1. /\ status \in [Jobs -> Status] /\ path \in [Jobs -> Paths]
      /\ rows \in [Jobs -> Nat] /\ source \in [Jobs -> Paths]
      /\ queue \in [Queues -> [Msg -> Nat]] /\ results \in Seq(Result)
  BY DEF Status, Gone, Paths
<1>2. /\ md \in [MDWorkers -> [pc : MDSteps, msg : Msg \cup {NoMsg}]]
      /\ oc \in [OCWorkers -> [pc : OCSteps, msg : Msg \cup {NoMsg}]]
  BY DEF IdleWorker, MDSteps, OCSteps
<1>3. orch \in [phase : Phases, stuck : SUBSET Jobs, todo : SUBSET Msg]
  BY DEF Running, Phases
<1>4. consumer \in [pc : ConsumerSteps, seen : Status, path : Paths]
  BY DEF IdleConsumer, ConsumerSteps, Status, Gone, Paths
<1>5. requests \in [Requests -> [op : RequestOps, jobs : SUBSET Jobs, todo : SUBSET Msg]]
  BY DEF IdleRequest, RequestOps
<1>6. requeue \in [queue : WorkQueues \cup {"none"}, msg : Msg \cup {NoMsg}]
  BY DEF NoRequeue
<1>7. Hands
  BY DEF Hands, IdleWorker, IdleRequest
<1> QED
  BY <1>1, <1>2, <1>3, <1>4, <1>5, <1>6, <1>7 DEF Shape, TypeOK

(* The next-state relation by component, as the lemmas above split it.     *)
LEMMA NextCases ==
    ASSUME Next
    PROVE  \/ \E w \in MDWorkers : MDStep(w) \/ MDCrash(w)
           \/ \E w \in OCWorkers : OCStep(w) \/ OCCrash(w)
           \/ ConsumerStep \/ ConsumerRollback \/ ConsumerReconnect
           \/ \E r \in Requests : UserBegins(r) \/ RequestStep(r) \/ ResumeFail(r)
           \/ OrchestratorNext
  BY DEF Next, OrchestratorNext

LEMMA ShapeKept == Shape /\ [Next]_vars => Shape'
<1> SUFFICES ASSUME Shape, [Next]_vars PROVE Shape'
  OBVIOUS
<1>1. CASE Next
  BY <1>1, NextCases, MDShape, OCShape, ConsumerShape, ApiShape, OrchestratorShape
<1>2. CASE UNCHANGED vars
  BY <1>2 DEF vars, Shape, TypeOK, Hands
<1> QED
  BY <1>1, <1>2

(* Type correctness of every part of the pipeline, and that whoever is at  *)
(* work has a message in hand.                                             *)
THEOREM TypeCorrect == Spec => []TypeOK
<1>1. Spec => []Shape
  BY InitShape, ShapeKept, PTL DEF Spec
<1>2. Shape => TypeOK
  BY DEF Shape
<1> QED
  BY <1>1, <1>2, PTL

-------------------------------------------------------------------------------
(* The jobs table and the consumer's transaction.                          *)

WorkerNext ==
    \/ \E w \in MDWorkers : MDStep(w) \/ MDCrash(w)
    \/ \E w \in OCWorkers : OCStep(w) \/ OCCrash(w)
ConsumerNext == ConsumerStep \/ ConsumerRollback \/ ConsumerReconnect
ApiNext == \E r \in Requests : UserBegins(r) \/ RequestStep(r) \/ ResumeFail(r)

LEMMA NextSplit ==
    ASSUME Next
    PROVE  WorkerNext \/ ConsumerNext \/ ApiNext \/ OrchestratorNext
  BY NextCases DEF WorkerNext, ConsumerNext, ApiNext

(* Workers touch neither the table nor the orchestrator, and add at most   *)
(* one report to oc_results.                                               *)
LEMMA WorkerFrame ==
    ASSUME Shape, WorkerNext
    PROVE  /\ UNCHANGED <<table, source, orch, consumer, ingesting, requests, requeue>>
           /\ \/ UNCHANGED results
              \/ \E e \in Result : results' = Append(results, e)
<1> USE DEF Shape, TypeOK, Hands
<1>1. ASSUME NEW j \in Jobs, NEW kind \in ResultKinds, Report(j, kind)
      PROVE  \E e \in Result : results' = Append(results, e)
  BY <1>1 DEF Report, Result
<1>2. {"md_processing", "md_complete", "oc_processing", "failed", "final"} \subseteq ResultKinds
  BY DEF ResultKinds
<1>3. \A m \in Msg : m.job \in Jobs
  BY DEF Msg
<1>4. ASSUME NEW w \in MDWorkers, MDStep(w) \/ MDCrash(w)
      PROVE  /\ UNCHANGED <<table, source, orch, consumer, ingesting, requests, requeue>>
             /\ \/ UNCHANGED results
                \/ \E e \in Result : results' = Append(results, e)
  BY <1>1, <1>2, <1>3, <1>4 DEF MDStep, MDTake, MDAccept, MDSkip, MDStart, MDDescribe, MDError,
     MDReport, MDAck, MDCrash, MDUnchanged, MDHas, memory
<1>5. ASSUME NEW w \in OCWorkers, OCStep(w) \/ OCCrash(w)
      PROVE  /\ UNCHANGED <<table, source, orch, consumer, ingesting, requests, requeue>>
             /\ \/ UNCHANGED results
                \/ \E e \in Result : results' = Append(results, e)
  BY <1>1, <1>2, <1>3, <1>5 DEF OCStep, OCStart, OCFinish, OCError, OCReject, OCAck,
     OCCrash, OCUnchanged, OCHas, memory
<1> QED
  BY <1>4, <1>5 DEF WorkerNext

(* The message at the head stays at the head while reports are added.      *)
LEMMA HeadKept ==
    ASSUME results \in Seq(Result), results # <<>>,
           UNCHANGED results \/ \E e \in Result : results' = Append(results, e)
    PROVE  results' # <<>> /\ Current' = Current
<1>1. CASE UNCHANGED results
  BY <1>1 DEF Current
<1>2. ASSUME NEW e \in Result, results' = Append(results, e)
      PROVE  results' # <<>> /\ Current' = Current
  BY <1>2, HeadTailAppend DEF Current
<1> QED
  BY <1>1, <1>2

(* What requests, ingest and recovery leave alone in the table: nobody but *)
(* the consumer completes a job, a deleted job stays deleted, and a locked  *)
(* one is not deleted.                                                     *)
TableKept ==
    /\ path' = path /\ source' = source /\ results' = results
    /\ consumer' = consumer \/ consumer' = IdleConsumer
    /\ \A j \in Jobs :
          /\ status'[j] = "completed" => status[j] = "completed"
          /\ status[j] = "deleted" => status'[j] = "deleted"
          /\ status'[j] = "deleted" /\ Locked(j) => status[j] = "deleted"
          /\ status[j] # "absent" => status'[j] # "absent"
          /\ rows'[j] = rows[j] \/ status'[j] \in Gone

LEMMA ApiKeepsTable ==
    ASSUME Shape, ApiNext
    PROVE  TableKept
<1> USE DEF Shape, TypeOK
<1>1. PICK r \in Requests : UserBegins(r) \/ RequestStep(r) \/ ResumeFail(r)
  BY DEF ApiNext
<1>2. ASSUME UNCHANGED table, ApiUnchanged PROVE TableKept
  BY <1>2 DEF TableKept, table, ApiUnchanged
<1>3. ASSUME NEW S, NEW new \in {"queued", "paused", "failed", "deleted"},
             SetStatus(S, new), path' = path, ApiUnchanged,
             rows' = rows \/ (new = "deleted" /\
                              rows' = [j \in Jobs |-> IF j \in S THEN 0 ELSE rows[j]])
      PROVE  TableKept
  BY <1>3 DEF TableKept, SetStatus, ApiUnchanged, Gone, Locked
<1>4. CASE UserBegins(r)
  BY <1>2, <1>3, <1>4 DEF UserBegins, PauseLoad, CancelLoad, ResumeLoad, RemoveLoad,
     BulkResumeLoad, BulkDeleteLoad, BulkPause, BulkKill, Begin
<1>5. CASE RequestStep(r)
  <2>1. CASE PauseCommit(r) \/ CancelCommit(r) \/ RemoveCommit(r) \/ ResumeCommit(r)
    BY <1>3, <2>1 DEF PauseCommit, CancelCommit, RemoveCommit, ResumeCommit
  <2>2. CASE BulkResumeCommit(r)
    BY <1>2, <1>3, <2>2 DEF BulkResumeCommit, table
  <2>3. CASE ResumePublish(r) \/ (\E m \in Msg : BulkResumePublish(r, m))
               \/ KillPurgeIngest(r) \/ KillPurgeMotion(r)
    BY <1>2, <2>3 DEF ResumePublish, BulkResumePublish, KillPurgeIngest, KillPurgeMotion
  <2> QED
    BY <1>5, <2>1, <2>2, <2>3 DEF RequestStep
<1>6. CASE ResumeFail(r)
  BY <1>2, <1>6 DEF ResumeFail
<1> QED
  BY <1>1, <1>4, <1>5, <1>6

LEMMA OrchestratorKeepsTable ==
    ASSUME Shape, OrchestratorNext
    PROVE  TableKept
<1> USE DEF Shape, TypeOK
<1>1. ASSUME UNCHANGED table, OrchUnchanged,
             consumer' = consumer \/ consumer' = IdleConsumer
      PROVE  TableKept
  BY <1>1 DEF TableKept, table, OrchUnchanged
<1>2. ASSUME NEW j \in Jobs, IngestCommit(j) PROVE TableKept
  BY <1>2 DEF TableKept, IngestCommit, OrchUnchanged, Gone
<1>3. CASE RecoveryCommit
  BY <1>3 DEF TableKept, RecoveryCommit, SetStatus, OrchUnchanged, memory, Gone
<1>4. CASE \/ \E j \in Jobs : IngestPublish(j) \/ IngestFail(j)
           \/ OrchCrash \/ RecoveryLoad \/ RecoveryAbort \/ RequeueAck
           \/ \E m \in Msg : RecoveryPublish(m)
           \/ \E q \in WorkQueues : DlxPurge(q)
           \/ \E q \in WorkQueues, m \in Msg : RequeuePublish(q, m) \/ Expire(q, m)
  BY <1>1, <1>4 DEF IngestPublish, IngestFail, OrchCrash, RecoveryLoad, RecoveryAbort,
     RequeueAck, RecoveryPublish, DlxPurge, RequeuePublish, Expire, memory
<1> QED
  BY <1>2, <1>3, <1>4 DEF OrchestratorNext, RecoveryStep

(* The transaction in progress: it is about a job that has been inserted;  *)
(* it renames before it writes the new name; and a final result that is    *)
(* committed has its rows, unless the job was deleted.                     *)
Transaction ==
    consumer.pc # "idle" =>
        /\ results # <<>>
        /\ status[Current.job] # "absent"
        /\ consumer.pc = "renamed" => status[Current.job] # "deleted"
        /\ consumer.path = "processed" => source[Current.job] = "processed"
        /\ consumer.pc = "committed" /\ Final =>
              status[Current.job] = "deleted" \/ rows[Current.job] > 0

TableInv == Shape /\ StoredNameExists /\ CompletedHasRows /\ Transaction

LEMMA ConsumerKeepsTable ==
    ASSUME TableInv, ConsumerNext
    PROVE  (StoredNameExists /\ CompletedHasRows /\ Transaction)'
<1> USE DEF TableInv, Shape, TypeOK
<1>0. results # <<>> /\ Current.job \in Jobs /\ Current.kind \in ResultKinds
  BY CurrentType DEF ConsumerNext, ConsumerStep, ConsumerRollback, ConsumerReconnect,
     ConsumerIgnore, ConsumerLoad, ConsumerUpdate, ConsumerStale, ConsumerRename, ConsumerComplete,
     ConsumerAck, InFlight, HasResult
<1>1. CASE consumer' = IdleConsumer /\ UNCHANGED <<table, source>>
  BY <1>1 DEF StoredNameExists, CompletedHasRows, Transaction, IdleConsumer, table
<1>2. CASE ConsumerIgnore
  BY <1>2, <1>0 DEF ConsumerIgnore, InFlight, StoredNameExists, CompletedHasRows, Transaction,
     table
<1>3. CASE ConsumerLoad
  BY <1>3, <1>0 DEF ConsumerLoad, StoredNameExists, CompletedHasRows, Transaction, table,
     Unwanted, Gone, Current, Final
<1>4. CASE ConsumerUpdate
  <2>1. \A j \in Jobs : status'[j] = status[j] \/
                        (status[j] \notin Gone /\ status'[j] = Current.kind)
    BY <1>4 DEF ConsumerUpdate, SetStatus
  <2>2. Current.kind \notin {"completed", "absent", "deleted"}
    BY <1>0 DEF ResultKinds
  <2>3. /\ UNCHANGED <<path, rows, source, results>> /\ ~Final
        /\ consumer'.path = consumer.path /\ consumer'.pc = "committed"
        /\ consumer.pc = "loaded"
    BY <1>4 DEF ConsumerUpdate, InFlight
  <2>4. Transaction'
    BY <1>0, <2>1, <2>2, <2>3 DEF Transaction, Current, Final, Gone
  <2> QED
    BY <2>1, <2>2, <2>3, <2>4 DEF StoredNameExists, CompletedHasRows
<1>5. CASE ConsumerRename
  <2>1. /\ UNCHANGED <<table, results>> /\ consumer.pc = "loaded"
        /\ consumer'.pc = "renamed" /\ status[Current.job] \notin Gone
    BY <1>5 DEF ConsumerRename, InFlight
  <2>2. \/ /\ source' = [source EXCEPT ![Current.job] = "processed"]
           /\ consumer'.path = "processed"
        \/ source' = source /\ consumer'.path = consumer.path
    BY <1>5 DEF ConsumerRename
  <2>3. \A j \in Jobs : source[j] = "processed" => source'[j] = "processed"
    BY <2>2
  <2>4. StoredNameExists' /\ CompletedHasRows'
    BY <2>1, <2>3 DEF StoredNameExists, CompletedHasRows, table
  <2>5. consumer'.path = "processed" => source'[Current.job] = "processed"
    BY <1>0, <2>1, <2>2 DEF Transaction
  <2>6. Transaction'
    BY <2>1, <2>5 DEF Transaction, table, Current, Gone
  <2> QED
    BY <2>4, <2>6
<1>6. CASE ConsumerComplete
  <2>1. /\ UNCHANGED <<source, results>> /\ consumer.pc = "renamed"
        /\ consumer'.pc = "committed" /\ consumer'.path = consumer.path
    BY <1>6 DEF ConsumerComplete, InFlight
  <2>2. /\ status' = status \/ status' = [status EXCEPT ![Current.job] = "completed"]
        /\ path' = [path EXCEPT ![Current.job] = consumer.path]
        /\ rows' = [rows EXCEPT ![Current.job] = @ + 1]
    BY <1>6 DEF ConsumerComplete
  <2>3. StoredNameExists'
    BY <1>0, <2>1, <2>2 DEF StoredNameExists, Transaction
  <2>4. rows'[Current.job] > 0 /\ rows' \in [Jobs -> Nat]
    BY <1>0, <2>2
  <2>5. CompletedHasRows'
    BY <1>0, <2>2, <2>4 DEF CompletedHasRows
  <2>6. Transaction'
    BY <1>0, <2>1, <2>2, <2>4 DEF Transaction, Current, Final
  <2> QED
    BY <2>3, <2>5, <2>6
<1>7. CASE ConsumerStale
  <2>1. /\ UNCHANGED <<table, source, results>> /\ consumer.pc = "loaded"
        /\ consumer'.pc = "committed" /\ consumer'.path = consumer.path
        /\ status[Current.job] \in Gone
    BY <1>7 DEF ConsumerStale, InFlight
  <2>2. Transaction'
    BY <1>0, <2>1 DEF Transaction, table, Current, Gone
  <2> QED
    BY <2>1, <2>2 DEF StoredNameExists, CompletedHasRows, table
<1> QED
  BY <1>1, <1>2, <1>3, <1>4, <1>5, <1>6, <1>7 DEF ConsumerNext, ConsumerStep, ConsumerRollback,
     ConsumerReconnect, ConsumerAck

LEMMA TableInvKept == TableInv /\ [Next]_vars => TableInv'
<1> SUFFICES ASSUME TableInv, [Next]_vars PROVE TableInv'
  OBVIOUS
<1>1. Shape'
  BY ShapeKept DEF TableInv
<1>2. ASSUME TableKept PROVE (StoredNameExists /\ CompletedHasRows /\ Transaction)'
  <2> USE <1>2 DEF TableInv, TableKept
  <2>1. StoredNameExists' /\ CompletedHasRows'
    BY DEF StoredNameExists, CompletedHasRows, Gone
  <2>2. ASSUME consumer' = IdleConsumer PROVE Transaction'
    BY <2>2 DEF Transaction, IdleConsumer
  <2>3. ASSUME consumer' = consumer, consumer.pc # "idle" PROVE Transaction'
    <3>1. Current.job \in Jobs /\ Current' = Current
      BY <2>3, CurrentType DEF Transaction, Shape, TypeOK, Current
    <3>2. /\ status'[Current.job] # "absent"
          /\ consumer.pc = "renamed" => status'[Current.job] # "deleted"
      BY <2>3, <3>1 DEF Transaction, Locked, Current
    <3>3. consumer.path = "processed" => source'[Current.job] = "processed"
      BY <2>3 DEF Transaction
    <3>4. consumer.pc = "committed" /\ Final =>
              status'[Current.job] = "deleted" \/ rows'[Current.job] > 0
      BY <2>3, <3>1, <3>2 DEF Transaction, Gone
    <3> QED
      BY <2>3, <3>1, <3>2, <3>3, <3>4 DEF Transaction, Final
  <2>4. ASSUME consumer' = consumer, consumer.pc = "idle" PROVE Transaction'
    BY <2>4 DEF Transaction
  <2> QED
    BY <2>1, <2>2, <2>3, <2>4
<1>3. CASE WorkerNext
  <2>1. /\ UNCHANGED <<table, source, consumer>>
        /\ UNCHANGED results \/ \E e \in Result : results' = Append(results, e)
    BY <1>3, WorkerFrame DEF TableInv
  <2>2. ASSUME consumer.pc # "idle" PROVE results' # <<>> /\ Current' = Current
    BY <2>1, <2>2, HeadKept DEF TableInv, Transaction, Shape, TypeOK
  <2> QED
    BY <1>1, <2>1, <2>2 DEF TableInv, Transaction, StoredNameExists, CompletedHasRows, table,
       Final
<1>4. CASE ConsumerNext
  BY <1>1, <1>4, ConsumerKeepsTable DEF TableInv
<1>5. CASE ApiNext \/ OrchestratorNext
  BY <1>1, <1>2, <1>5, ApiKeepsTable, OrchestratorKeepsTable DEF TableInv
<1>6. CASE UNCHANGED vars
  BY <1>1, <1>6 DEF vars, TableInv, Transaction, StoredNameExists, CompletedHasRows, Current,
     Final
<1> QED
  BY <1>3, <1>4, <1>5, <1>6, NextSplit

LEMMA TableInvAlways == Spec => []TableInv
<1>1. Init => TableInv
  BY InitShape DEF Init, TableInv, StoredNameExists, CompletedHasRows, Transaction,
     IdleConsumer
<1> QED
  BY <1>1, TableInvKept, PTL DEF Spec

(* A completed job has its detections in the database.                     *)
THEOREM CompletedIsStored == Spec => []CompletedHasRows
<1>1. TableInv => CompletedHasRows
  BY DEF TableInv
<1> QED
  BY <1>1, TableInvAlways, PTL

(* The jobs table never names a renamed clip before the rename.            *)
THEOREM StoredNames == Spec => []StoredNameExists
<1>1. TableInv => StoredNameExists
  BY DEF TableInv
<1> QED
  BY <1>1, TableInvAlways, PTL
===============================================================================
