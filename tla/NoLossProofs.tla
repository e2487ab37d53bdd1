----------------------------- MODULE NoLossProofs -----------------------------
(***************************************************************************)
(* NoSilentLoss, RecoveryKeepsWork and RevivedOnlyByStaleWriter for every  *)
(* instance. The argument follows the work on one job: Carried says where  *)
(* it is, and each step hands it on before it lets go of it, or records    *)
(* why it gives it up.                                                     *)
(***************************************************************************)
EXTENDS JobPipelineProofs

-------------------------------------------------------------------------------
(* What the broker operations do to the jobs a queue lists.                *)

LEMMA PublishListed ==
    ASSUME queue \in [Queues -> [Msg -> Nat]], NEW q \in Queues, NEW m \in Msg,
           Publish(q, m), NEW j \in Jobs, InQueue(j) \/ j = m.job
    PROVE  InQueue(j)'
<1>1. Ready(q, m)' /\ \A r \in Queues, n \in Msg : Ready(r, n) => Ready(r, n)'
  BY DEF Publish, Ready
<1>2. \E p \in Paths : m = [job |-> m.job, path |-> p]
  BY DEF Msg
<1>3. \A p \in Paths : [job |-> j, path |-> p] \in Msg
  BY DEF Msg
<1>4. CASE InQueue(j)
  BY <1>1, <1>3, <1>4 DEF InQueue, Listed
<1>5. CASE j = m.job
  BY <1>1, <1>2, <1>5 DEF InQueue, Listed
<1> QED
  BY <1>4, <1>5

LEMMA DeliverListed ==
    ASSUME queue \in [Queues -> [Msg -> Nat]], NEW q \in Queues, NEW m \in Msg,
           Deliver(q, m), NEW j \in Jobs, InQueue(j), j # m.job
    PROVE  InQueue(j)'
<1>1. \A r \in Queues, n \in Msg : n # m /\ Ready(r, n) => Ready(r, n)'
  BY DEF Deliver, Ready
<1>2. \A p \in Paths : [job |-> j, path |-> p] \in Msg /\ [job |-> j, path |-> p] # m
  BY DEF Msg
<1> QED
  BY <1>1, <1>2 DEF InQueue, Listed

LEMMA TransferListed ==
    ASSUME queue \in [Queues -> [Msg -> Nat]], NEW from \in Queues, NEW to \in Queues,
           from # to, NEW m \in Msg, Transfer(from, to, m), NEW j \in Jobs, InQueue(j)
    PROVE  InQueue(j)'
<1>1. Ready(to, m)' /\ \A r \in Queues, n \in Msg : n # m /\ Ready(r, n) => Ready(r, n)'
  BY DEF Transfer, Ready
<1>2. \A p \in Paths : [job |-> j, path |-> p] \in Msg
  BY DEF Msg
<1>3. PICK r \in Queues, p \in Paths : Ready(r, [job |-> j, path |-> p])
  BY DEF InQueue, Listed
<1>4. CASE [job |-> j, path |-> p] = m
  BY <1>1, <1>4 DEF InQueue, Listed
<1>5. CASE [job |-> j, path |-> p] # m
  BY <1>1, <1>2, <1>3, <1>5 DEF InQueue, Listed
<1> QED
  BY <1>4, <1>5

LEMMA PurgeListed ==
    ASSUME queue \in [Queues -> [Msg -> Nat]], abandoned \in [Jobs -> SUBSET Reasons],
           NEW q \in Queues, Purge(q), NEW j \in Jobs
    PROVE  /\ InQueue(j) => InQueue(j)' \/ abandoned'[j] # {}
           /\ abandoned[j] # {} => abandoned'[j] # {}
<1>1. abandoned'[j] = IF j \in Listed(q) THEN abandoned[j] \cup {"purged"} ELSE abandoned[j]
  BY DEF Purge
<1>2. ASSUME InQueue(j), j \notin Listed(q) PROVE InQueue(j)'
  <2>1. PICK r \in Queues : j \in Listed(r)
    BY <1>2 DEF InQueue
  <2>2. r # q
    BY <1>2, <2>1
  <2>3. queue'[r] = queue[r]
    BY <2>2 DEF Purge
  <2> QED
    BY <2>1, <2>3 DEF InQueue, Listed, Ready
<1> QED
  BY <1>1, <1>2

-------------------------------------------------------------------------------
(* What becomes of the results that are still to be applied.               *)

LEMMA ReportKeeps ==
    ASSUME results \in Seq(Result), NEW i \in Jobs, NEW kind \in ResultKinds,
           Report(i, kind), NEW j \in Jobs, InResults(j) \/ (j = i /\ kind = "final")
    PROVE  InResults(j)'
<1> DEFINE e == [job |-> i, kind |-> kind]
<1>1. e \in Result /\ results' = Append(results, e)
  BY DEF Report, Result
<1>2. /\ Len(results) \in Nat /\ Len(results') = Len(results) + 1
      /\ \A k \in 1..Len(results) : results'[k] = results[k]
      /\ results'[Len(results) + 1] = e
  BY <1>1, AppendProperties, LenProperties
<1> HIDE DEF e
<1>3. CASE InResults(j)
  BY <1>2, <1>3 DEF InResults
<1>4. CASE j = i /\ kind = "final"
  BY <1>2, <1>4 DEF InResults, e
<1> QED
  BY <1>3, <1>4

LEMMA TailKeeps ==
    ASSUME results \in Seq(Result), results # <<>>, results' = Tail(results),
           NEW j \in Jobs, InResults(j)
    PROVE  InResults(j)' \/ Current = [job |-> j, kind |-> "final"]
<1>1. PICK i \in 1..Len(results) : results[i] = [job |-> j, kind |-> "final"]
  BY DEF InResults
<1>2. CASE i = 1
  BY <1>1, <1>2 DEF Current
<1>3. CASE i > 1
  <2>1. /\ Len(results) \in Nat /\ Len(results') = Len(results) - 1
        /\ \A k \in 1..Len(results') : results'[k] = results[k + 1]
    BY HeadTailProperties, LenProperties
  <2>2. i - 1 \in 1..Len(results') /\ results'[i - 1] = results[i]
    BY <1>1, <1>3, <2>1
  <2> QED
    BY <1>1, <2>2 DEF InResults
<1> QED
  BY <1>1, <1>2, <1>3, LenProperties

-------------------------------------------------------------------------------
(* Workers hand work on before they let go of it. Only a skip gives it up, *)
(* and a worker is told to skip only while the orchestrator is up.         *)

LEMMA MDCarries ==
    ASSUME Shape, NEW w \in MDWorkers, MDStep(w) \/ MDCrash(w), NEW j \in Jobs
    PROVE  /\ Carried(j) => Carried(j)' \/ (OrchUp /\ abandoned'[j] # {})
           /\ abandoned[j] # {} => abandoned'[j] # {}
<1> USE DEF Shape, TypeOK, Hands
<1>1. /\ InOC(j) => InOC(j)'
      /\ Owed(j) => Owed(j)'
  BY DEF MDStep, MDTake, MDAccept, MDSkip, MDStart, MDDescribe, MDError, MDReport, MDAck, MDCrash,
     MDUnchanged, memory, InOC, Owed
<1>2. \A m \in Msg : m.job \in Jobs
  BY DEF Msg
<1>3. "ingest" \in Queues /\ "motion_results" \in Queues /\ DeadLetters["ingest"] \in Queues
  BY DEF Queues, DeadLetters, WorkQueues
<1>5. ASSUME NEW m \in Msg, MDTake(w, m) PROVE Carried(j) => Carried(j)'
  <2>1. InQueue(j) => InQueue(j)' \/ j = m.job
    BY <1>3, <1>5, DeliverListed DEF MDTake
  <2>2. InMD(m.job)'
    BY <1>5 DEF MDTake, InMD
  <2>3. InMD(j) => InMD(j)'
    BY <1>5 DEF MDTake, MDHas, InMD
  <2>4. InResults(j) => InResults(j)'
    BY <1>5 DEF MDTake, InResults
  <2> QED
    BY <1>1, <2>1, <2>2, <2>3, <2>4 DEF Carried
<1>4. CASE MDAccept(w)
  <2>1. InMD(j) => InMD(j)'
    BY <1>4 DEF MDAccept, MDHas, MDGoto, InMD
  <2>2. UNCHANGED <<queue, results, abandoned>>
    BY <1>4 DEF MDAccept
  <2> QED
    BY <1>1, <2>1, <2>2 DEF Carried, InQueue, Listed, Ready, InResults
<1>6. ASSUME MDSkip(w)
      PROVE  Carried(j) => Carried(j)' \/ (OrchUp /\ abandoned'[j] # {})
  <2>1. InMD(j) => InMD(j)' \/ j = md[w].msg.job
    BY <1>6 DEF MDSkip, MDRelease, InMD
  <2>2. OrchUp /\ abandoned'[md[w].msg.job] # {}
    BY <1>2, <1>6 DEF MDSkip, MDHas, JobIsProcessable, Abandon
  <2>3. UNCHANGED <<queue, results>>
    BY <1>6 DEF MDSkip
  <2>4. (InQueue(j) => InQueue(j)') /\ (InResults(j) => InResults(j)')
    BY <2>3 DEF InQueue, Listed, Ready, InResults
  <2> QED
    BY <1>1, <2>1, <2>2, <2>4 DEF Carried
<1>7. CASE MDStart(w)
  <2>1. InMD(j) => InMD(j)'
    BY <1>7 DEF MDStart, MDHas, MDGoto, InMD
  <2>2. InResults(j) => InResults(j)'
    BY <1>2, <1>7, ReportKeeps DEF MDStart, MDHas, ResultKinds
  <2>3. UNCHANGED <<queue, abandoned>>
    BY <1>7 DEF MDStart
  <2> QED
    BY <1>1, <2>1, <2>2, <2>3 DEF Carried, InQueue, Listed, Ready
<1>8. ASSUME NEW q \in Queues, Publish(q, md[w].msg), md[w].msg \in Msg, UNCHANGED results,
             MDRelease(w) \/ MDGoto(w, "detected")
      PROVE  Carried(j) => Carried(j)'
  <2>1. InQueue(j) \/ j = md[w].msg.job => InQueue(j)'
    BY <1>8, PublishListed
  <2>2. InMD(j) => InMD(j)' \/ j = md[w].msg.job
    BY <1>8 DEF InMD, MDRelease, MDGoto
  <2>3. InResults(j) => InResults(j)'
    BY <1>8 DEF InResults
  <2> QED
    BY <1>1, <2>1, <2>2, <2>3 DEF Carried
<1>9. CASE MDDescribe(w) \/ MDError(w) \/ MDCrash(w)
  BY <1>3, <1>8, <1>9 DEF MDDescribe, MDError, MDCrash, MDHas
<1>10. CASE MDReport(w)
  <2>1. InMD(j) => InMD(j)'
    BY <1>10 DEF MDReport, MDHas, MDGoto, InMD
  <2>2. InResults(j) => InResults(j)'
    BY <1>2, <1>10, ReportKeeps DEF MDReport, MDHas, ResultKinds
  <2>3. UNCHANGED <<queue, abandoned>>
    BY <1>10 DEF MDReport
  <2> QED
    BY <1>1, <2>1, <2>2, <2>3 DEF Carried, InQueue, Listed, Ready
<1>11. CASE MDAck(w)
  <2>1. InMD(j) => InMD(j)'
    BY <1>11 DEF MDAck, MDHas, MDRelease, InMD
  <2>2. UNCHANGED <<queue, results, abandoned>>
    BY <1>11 DEF MDAck
  <2> QED
    BY <1>1, <2>1, <2>2 DEF Carried, InQueue, Listed, Ready, InResults
<1>12. abandoned[j] # {} => abandoned'[j] # {}
  <2>1. UNCHANGED abandoned \/ \E m \in Msg : Abandon(m.job, "skipped")
    BY DEF MDStep, MDTake, MDAccept, MDSkip, MDStart, MDDescribe, MDError, MDReport, MDAck,
       MDCrash, MDHas
  <2> QED
    BY <2>1 DEF Abandon
<1> QED
  BY <1>4, <1>5, <1>6, <1>7, <1>9, <1>10, <1>11, <1>12 DEF MDStep

LEMMA OCCarries ==
    ASSUME Shape, NEW w \in OCWorkers, OCStep(w) \/ OCCrash(w), NEW j \in Jobs, Carried(j)
    PROVE  Carried(j)'
<1> USE DEF Shape, TypeOK, Hands
<1>1. /\ InMD(j) => InMD(j)'
      /\ Owed(j) => Owed(j)'
  BY DEF OCStep, OCStart, OCFinish, OCError, OCReject, OCAck, OCCrash, OCUnchanged, memory,
     InMD, Owed
<1>2. \A m \in Msg : m.job \in Jobs
  BY DEF Msg
<1>3. "motion_results" \in Queues /\ DeadLetters["motion_results"] \in Queues
  BY DEF Queues, DeadLetters, WorkQueues
<1>4. ASSUME NEW m \in Msg, OCStart(w, m) PROVE Carried(j)'
  <2>1. InQueue(j) => InQueue(j)' \/ j = m.job
    BY <1>3, <1>4, DeliverListed DEF OCStart
  <2>2. InOC(m.job)'
    BY <1>4 DEF OCStart, InOC
  <2>3. InOC(j) => InOC(j)'
    BY <1>4 DEF OCStart, OCHas, InOC
  <2>4. InResults(j) => InResults(j)'
    BY <1>2, <1>4, ReportKeeps DEF OCStart, ResultKinds
  <2> QED
    BY <1>1, <2>1, <2>2, <2>3, <2>4 DEF Carried
<1>5. CASE OCFinish(w)
  <2>1. InResults(j) \/ j = oc[w].msg.job => InResults(j)'
    BY <1>2, <1>5, ReportKeeps DEF OCFinish, OCHas, ResultKinds
  <2>2. InOC(j) => InOC(j)' \/ j = oc[w].msg.job
    BY <1>5 DEF OCFinish, OCHas, OCGoto, InOC
  <2>3. UNCHANGED queue
    BY <1>5 DEF OCFinish
  <2> QED
    BY <1>1, <2>1, <2>2, <2>3 DEF Carried, InQueue, Listed, Ready
<1>6. CASE OCError(w)
  <2>1. InResults(j) => InResults(j)'
    BY <1>2, <1>6, ReportKeeps DEF OCError, OCHas, ResultKinds
  <2>2. InOC(j) => InOC(j)'
    BY <1>6 DEF OCError, OCHas, OCGoto, InOC
  <2>3. UNCHANGED queue
    BY <1>6 DEF OCError
  <2> QED
    BY <1>1, <2>1, <2>2, <2>3 DEF Carried, InQueue, Listed, Ready
<1>7. CASE OCReject(w) \/ OCCrash(w)
  <2>1. PICK q \in Queues : Publish(q, oc[w].msg) /\ oc[w].msg \in Msg
    BY <1>3, <1>7 DEF OCReject, OCCrash, OCHas
  <2>2. InQueue(j) \/ j = oc[w].msg.job => InQueue(j)'
    BY <2>1, PublishListed
  <2>3. InOC(j) => InOC(j)' \/ j = oc[w].msg.job
    BY <1>7 DEF OCReject, OCCrash, OCRelease, InOC
  <2>4. UNCHANGED results
    BY <1>7 DEF OCReject, OCCrash
  <2> QED
    BY <1>1, <2>2, <2>3, <2>4 DEF Carried, InResults
<1>8. CASE OCAck(w)
  <2>1. InOC(j) => InOC(j)'
    BY <1>8 DEF OCAck, OCHas, OCRelease, InOC
  <2>2. UNCHANGED <<queue, results>>
    BY <1>8 DEF OCAck
  <2> QED
    BY <1>1, <2>1, <2>2 DEF Carried, InQueue, Listed, Ready, InResults
<1> QED
  BY <1>4, <1>5, <1>6, <1>7, <1>8 DEF OCStep

-------------------------------------------------------------------------------
(* NoSilentLoss and RecoveryKeepsWork, one job at a time.                  *)

Accounted(j) == Carried(j) \/ rows[j] > 0 \/ abandoned[j] # {}
Recoverable(j) ==
    \/ \E p \in Paths : [job |-> j, path |-> p] \in orch.todo
    \/ Carried(j)
    \/ rows[j] > 0

LossInv ==
    /\ TableInv
    /\ \A j \in Jobs : status[j] \notin Gone => Accounted(j)
    /\ orch.phase = "recovering" => \A j \in orch.stuck : Recoverable(j)

(* The step as one job sees it: the job stays accounted for.               *)
KeepsAccount(j) ==
    status'[j] \notin Gone => /\ status[j] \notin Gone \/ Accounted(j)'
                              /\ Accounted(j) => Accounted(j)'

LEMMA WorkerKeepsWork ==
    ASSUME LossInv, WorkerNext, NEW j \in Jobs
    PROVE  /\ KeepsAccount(j)
           /\ orch' = orch
           /\ orch.phase = "recovering" /\ Recoverable(j) => Recoverable(j)'
<1> USE DEF LossInv, TableInv
<1>1. UNCHANGED <<table, orch>>
  BY WorkerFrame
<1>2. /\ Carried(j) => Carried(j)' \/ (OrchUp /\ abandoned'[j] # {})
      /\ abandoned[j] # {} => abandoned'[j] # {}
  <2>1. ASSUME NEW w \in OCWorkers, OCStep(w) \/ OCCrash(w) PROVE UNCHANGED abandoned
    BY <2>1 DEF OCStep, OCStart, OCFinish, OCError, OCReject, OCAck, OCCrash, OCUnchanged
  <2> QED
    BY <2>1, MDCarries, OCCarries DEF WorkerNext
<1> QED
  BY <1>1, <1>2 DEF KeepsAccount, Accounted, Recoverable, table, OrchUp

(* The consumer removes a final result only when it has stored it, or the  *)
(* job is gone, or it records that the result is given up.                 *)
LEMMA ConsumerKeepsWork ==
    ASSUME LossInv, ConsumerNext, NEW j \in Jobs
    PROVE  KeepsAccount(j) /\ orch' = orch /\ OrchUp
<1>0. /\ status \in [Jobs -> Status] /\ rows \in [Jobs -> Nat] /\ results \in Seq(Result)
      /\ abandoned \in [Jobs -> SUBSET Reasons]
      /\ Transaction
  BY DEF LossInv, TableInv, Shape, TypeOK
<1>1. HasResult /\ UNCHANGED orch
  BY DEF ConsumerNext, ConsumerStep, ConsumerRollback, ConsumerReconnect, ConsumerIgnore,
     ConsumerLoad, ConsumerUpdate, ConsumerStale, ConsumerRename, ConsumerComplete, ConsumerAck, InFlight,
     ConsumerUnchanged
<1>2. /\ InQueue(j) => InQueue(j)'
      /\ InMD(j) => InMD(j)'
      /\ InOC(j) => InOC(j)'
      /\ Owed(j) => Owed(j)'
  BY DEF ConsumerNext, ConsumerStep, ConsumerRollback, ConsumerReconnect, ConsumerIgnore,
     ConsumerLoad, ConsumerUpdate, ConsumerStale, ConsumerRename, ConsumerComplete, ConsumerAck,
     ConsumerUnchanged, InQueue, Listed, Ready, InMD, InOC, Owed
<1>3. Current \in Result /\ Current.job \in Jobs
  BY <1>0, <1>1, CurrentType DEF HasResult
<1>4. status'[j] \notin Gone => status[j] \notin Gone
  BY <1>0, <1>3 DEF ConsumerNext, ConsumerStep, ConsumerRollback, ConsumerReconnect, ConsumerIgnore,
     ConsumerLoad, ConsumerUpdate, ConsumerStale, ConsumerRename, ConsumerComplete, ConsumerAck, table,
     SetStatus, Transaction, InFlight, Gone
<1>5. rows[j] > 0 => rows'[j] > 0
  <2>1. rows' = rows \/ rows' = [rows EXCEPT ![Current.job] = @ + 1]
    BY DEF ConsumerNext, ConsumerStep, ConsumerRollback, ConsumerReconnect, ConsumerIgnore,
       ConsumerLoad, ConsumerUpdate, ConsumerStale, ConsumerRename, ConsumerComplete, ConsumerAck, table
  <2> QED
    BY <1>0, <1>3, <2>1
<1>6. abandoned[j] # {} => abandoned'[j] # {}
  BY <1>0, <1>3 DEF ConsumerNext, ConsumerStep, ConsumerRollback, ConsumerReconnect, ConsumerIgnore,
     ConsumerLoad, ConsumerUpdate, ConsumerStale, ConsumerRename, ConsumerComplete, ConsumerAck, Abandon
<1>7. ASSUME UNCHANGED results PROVE InResults(j) => InResults(j)'
  BY <1>7 DEF InResults
<1>8. ASSUME results' = Tail(results), InResults(j)
      PROVE  InResults(j)' \/ (Final /\ Current.job = j)
  BY <1>0, <1>1, <1>8, TailKeeps DEF HasResult, Final
<1>9. CASE ConsumerLoad \/ ConsumerUpdate \/ ConsumerStale \/ ConsumerRename
           \/ ConsumerComplete \/ ConsumerReconnect
  BY <1>1, <1>2, <1>4, <1>5, <1>6, <1>7, <1>9 DEF ConsumerLoad, ConsumerUpdate,
     ConsumerStale, ConsumerRename, ConsumerComplete, ConsumerReconnect, KeepsAccount, Accounted, Carried,
     HasResult
<1>10. CASE ConsumerIgnore \/ ConsumerRollback
  <2>1. results' = Tail(results) /\ (Final => abandoned'[Current.job] # {})
    <3>1. results' = Tail(results) /\ (Final => \E why : Abandon(Current.job, why))
      BY <1>10 DEF ConsumerIgnore, ConsumerRollback
    <3> QED
      BY <1>0, <1>3, <3>1 DEF Abandon
  <2>2. InResults(j) => InResults(j)' \/ abandoned'[j] # {}
    BY <1>8, <2>1
  <2> QED
    BY <1>1, <1>2, <1>4, <1>5, <1>6, <2>2 DEF KeepsAccount, Accounted, Carried, HasResult
<1>11. CASE ConsumerAck
  <2>1. results' = Tail(results) /\ UNCHANGED table /\ consumer.pc = "committed"
    BY <1>11 DEF ConsumerAck, InFlight
  <2>2. Final => status[Current.job] \in Gone \/ rows[Current.job] > 0
    BY <1>0, <2>1 DEF Transaction, Gone
  <2> QED
    BY <1>1, <1>2, <1>4, <1>5, <1>6, <1>8, <2>1, <2>2 DEF KeepsAccount, Accounted, Carried,
       HasResult, table
<1> QED
  BY <1>9, <1>10, <1>11 DEF ConsumerNext, ConsumerStep

(* What most requests do: they move no work, and owe no publish before or  *)
(* after the step.                                                         *)
LEMMA ApiFrameKeepsWork ==
    ASSUME LossInv, NEW r \in Requests, NEW j \in Jobs, ApiUnchanged,
           requests[r].op # "publish",
           \A s \in Requests : s # r => requests'[s] = requests[s],
           InQueue(j) => InQueue(j)' \/ abandoned'[j] # {},
           abandoned[j] # {} => abandoned'[j] # {},
           status'[j] \notin Gone => status[j] \notin Gone /\ rows'[j] = rows[j]
    PROVE  KeepsAccount(j)
<1>1. /\ InMD(j) => InMD(j)'
      /\ InOC(j) => InOC(j)'
      /\ InResults(j) => InResults(j)'
  BY DEF ApiUnchanged, InMD, InOC, InResults
<1>2. Owed(j) => Owed(j)'
  BY DEF ApiUnchanged, Owed
<1> QED
  BY <1>1, <1>2 DEF KeepsAccount, Accounted, Carried

LEMMA ApiKeepsWork ==
    ASSUME LossInv, ApiNext, NEW j \in Jobs
    PROVE  KeepsAccount(j) /\ orch' = orch /\ OrchUp
<1>0. /\ status \in [Jobs -> Status] /\ rows \in [Jobs -> Nat]
      /\ queue \in [Queues -> [Msg -> Nat]] /\ path \in [Jobs -> Paths]
      /\ abandoned \in [Jobs -> SUBSET Reasons]
      /\ requests \in [Requests -> [op : RequestOps, jobs : SUBSET Jobs, todo : SUBSET Msg]]
      /\ \A r \in Requests : requests[r].op \in {"resume", "publish"} =>
                                \E i \in Jobs : requests[r].jobs = {i}
  BY DEF LossInv, TableInv, Shape, TypeOK, Hands
<1>1. PICK r \in Requests : UserBegins(r) \/ RequestStep(r) \/ ResumeFail(r)
  BY DEF ApiNext
<1>2. OrchUp /\ ApiUnchanged /\ UNCHANGED orch
  BY <1>1 DEF UserBegins, RequestStep, ResumeFail, PauseLoad, CancelLoad, ResumeLoad,
     RemoveLoad, BulkResumeLoad, BulkDeleteLoad, BulkPause, BulkKill, PauseCommit,
     CancelCommit, RemoveCommit, ResumeCommit, ResumePublish, BulkResumePublish,
     BulkResumeCommit, KillPurgeIngest, KillPurgeMotion, Begin, At, ApiUnchanged
<1> SUFFICES KeepsAccount(j)
  BY <1>2
<1>3. \A s \in Requests : s # r => requests'[s] = requests[s]
  BY <1>0, <1>1 DEF UserBegins, RequestStep, ResumeFail, PauseLoad, CancelLoad, ResumeLoad,
     RemoveLoad, BulkResumeLoad, BulkDeleteLoad, BulkPause, BulkKill, PauseCommit,
     CancelCommit, RemoveCommit, ResumeCommit, ResumePublish, BulkResumePublish,
     BulkResumeCommit, KillPurgeIngest, KillPurgeMotion, Begin, Done, Then
<1>4. ASSUME NEW S, NEW new, SetStatus(S, new)
      PROVE  status'[j] \notin Gone => status[j] \notin Gone /\ (j \in S => status'[j] = new)
  BY <1>4 DEF SetStatus
<1>5. ASSUME UNCHANGED queue PROVE InQueue(j) => InQueue(j)'
  BY <1>5 DEF InQueue, Listed, Ready
<1>6. CASE UserBegins(r)
  <2>1. /\ UNCHANGED <<queue, rows, abandoned>> /\ requests[r].op = "none"
        /\ status' = status \/ \E S, new : SetStatus(S, new)
    BY <1>6 DEF UserBegins, PauseLoad, CancelLoad, ResumeLoad, RemoveLoad, BulkResumeLoad,
       BulkDeleteLoad, BulkPause, BulkKill, Begin, At, table
  <2> QED
    BY <1>2, <1>3, <1>4, <1>5, <2>1, ApiFrameKeepsWork
<1>7. CASE PauseCommit(r) \/ CancelCommit(r) \/ BulkResumeCommit(r)
  <2>1. /\ UNCHANGED <<queue, rows, abandoned>> /\ requests[r].op # "publish"
        /\ status' = status \/ \E S, new : SetStatus(S, new)
    BY <1>7 DEF PauseCommit, CancelCommit, BulkResumeCommit, At
  <2> QED
    BY <1>2, <1>3, <1>4, <1>5, <2>1, ApiFrameKeepsWork
<1>8. CASE RemoveCommit(r)
  <2>1. /\ UNCHANGED <<queue, abandoned>> /\ requests[r].op # "publish"
        /\ SetStatus(requests[r].jobs, "deleted")
        /\ rows' = [i \in Jobs |-> IF i \in requests[r].jobs THEN 0 ELSE rows[i]]
    BY <1>8 DEF RemoveCommit, At
  <2>2. status'[j] \notin Gone => status[j] \notin Gone /\ rows'[j] = rows[j]
    BY <1>4, <2>1 DEF Gone
  <2> QED
    BY <1>2, <1>3, <1>5, <2>1, <2>2, ApiFrameKeepsWork
<1>9. ASSUME NEW m \in Msg, BulkResumePublish(r, m) PROVE KeepsAccount(j)
  <2>1. /\ UNCHANGED <<table, abandoned>> /\ requests[r].op # "publish"
        /\ Publish("ingest", m)
    BY <1>9 DEF BulkResumePublish, At
  <2>2. InQueue(j) => InQueue(j)'
    BY <1>0, <2>1, PublishListed DEF Queues
  <2> QED
    BY <1>2, <1>3, <2>1, <2>2, ApiFrameKeepsWork DEF table
<1>10. CASE KillPurgeIngest(r) \/ KillPurgeMotion(r)
  <2>1. /\ UNCHANGED table /\ requests[r].op # "publish"
        /\ \E q \in Queues : Purge(q)
    BY <1>10 DEF KillPurgeIngest, KillPurgeMotion, At, Queues
  <2>2. /\ InQueue(j) => InQueue(j)' \/ abandoned'[j] # {}
        /\ abandoned[j] # {} => abandoned'[j] # {}
    BY <1>0, <2>1, PurgeListed
  <2> QED
    BY <1>2, <1>3, <2>1, <2>2, ApiFrameKeepsWork DEF table
(* A resume gives the job a fresh account, and owes the publish.           *)
<1>11. CASE ResumeCommit(r)
  <2> DEFINE S == {i \in requests[r].jobs : status[i] \notin Gone}
  <2>1. /\ SetStatus(S, "queued") /\ UNCHANGED <<rows, queue>>
        /\ requests[r].op = "resume"
        /\ abandoned' = [i \in Jobs |-> IF i \in S THEN {} ELSE abandoned[i]]
        /\ IF S = {} THEN Done(r) ELSE Then(r, "publish")
    BY <1>11 DEF ResumeCommit, At
  <2>2. CASE j \in S
    <3>1. requests'[r].op = "publish" /\ j \in requests'[r].jobs
      BY <1>0, <2>1, <2>2 DEF Then
    <3>2. Owed(j)'
      BY <3>1 DEF Owed
    <3> QED
      BY <3>2 DEF KeepsAccount, Accounted, Carried
  <2>3. CASE j \notin S
    <3>1. abandoned'[j] = abandoned[j] /\ (status'[j] \notin Gone => status[j] \notin Gone)
      BY <1>4, <2>1, <2>3
    <3> QED
      BY <1>2, <1>3, <1>5, <2>1, <3>1, ApiFrameKeepsWork
  <2> QED
    BY <2>2, <2>3
<1>12. ASSUME requests[r].op = "publish", UNCHANGED table, j \notin requests[r].jobs,
              InQueue(j) => InQueue(j)', abandoned[j] # {} => abandoned'[j] # {}
       PROVE  KeepsAccount(j)
  <2>1. Owed(j) => Owed(j)'
    BY <1>2, <1>3, <1>12 DEF ApiUnchanged, Owed
  <2>2. /\ InMD(j) => InMD(j)'
        /\ InOC(j) => InOC(j)'
        /\ InResults(j) => InResults(j)'
    BY <1>2 DEF ApiUnchanged, InMD, InOC, InResults
  <2> QED
    BY <1>12, <2>1, <2>2 DEF KeepsAccount, Accounted, Carried, table
<1>13. CASE ResumePublish(r)
  <2>1. PICK i \in Jobs : requests[r].jobs = {i} /\ requests[r].op = "publish"
    BY <1>0, <1>13 DEF ResumePublish, At
  <2>2. /\ UNCHANGED <<table, abandoned>>
        /\ IF status[i] \in Gone THEN UNCHANGED queue ELSE Publish("ingest", JobMsg(i))
    BY <1>13, <2>1 DEF ResumePublish
  <2>3. JobMsg(i) \in Msg /\ JobMsg(i).job = i /\ "ingest" \in Queues
    BY <1>0 DEF JobMsg, Msg, Queues
  <2>4. CASE j = i
    <3>1. status[j] \notin Gone => InQueue(j)'
      BY <1>0, <2>2, <2>3, <2>4, PublishListed
    <3> QED
      BY <2>2, <2>4, <3>1 DEF KeepsAccount, Accounted, Carried, table
  <2>5. CASE j # i
    <3>1. InQueue(j) => InQueue(j)'
      BY <1>0, <1>5, <2>2, <2>3, PublishListed
    <3> QED
      BY <1>12, <2>1, <2>2, <2>5, <3>1 DEF table
  <2> QED
    BY <2>4, <2>5
<1>14. CASE ResumeFail(r)
  <2>1. PICK i \in Jobs : requests[r].jobs = {i} /\ requests[r].op = "publish"
    BY <1>0, <1>14 DEF ResumeFail, At
  <2>2. UNCHANGED <<table, queue>> /\ Abandon(i, "unpublished")
    BY <1>14, <2>1 DEF ResumeFail
  <2>3. abandoned'[i] # {} /\ (abandoned[j] # {} => abandoned'[j] # {})
    BY <1>0, <2>2 DEF Abandon
  <2>4. CASE j = i
    BY <2>2, <2>3, <2>4 DEF KeepsAccount, Accounted, table
  <2>5. CASE j # i
    BY <1>5, <1>12, <2>1, <2>2, <2>3, <2>5 DEF table
  <2> QED
    BY <2>4, <2>5
<1> QED
  BY <1>1, <1>6, <1>7, <1>8, <1>9, <1>10, <1>11, <1>13, <1>14 DEF RequestStep

(* The orchestrator's steps move work between queues, or owe a publish, or *)
(* start and end a recovery.                                               *)
LEMMA OrchestratorKeepsWork ==
    ASSUME LossInv, OrchestratorNext, NEW j \in Jobs
    PROVE  /\ KeepsAccount(j)
           /\ orch'.phase = "recovering" /\ j \in orch'.stuck => Recoverable(j)'
<1>0. /\ status \in [Jobs -> Status] /\ rows \in [Jobs -> Nat] /\ path \in [Jobs -> Paths]
      /\ queue \in [Queues -> [Msg -> Nat]]
      /\ abandoned \in [Jobs -> SUBSET Reasons]
      /\ orch \in [phase : Phases, stuck : SUBSET Jobs, todo : SUBSET Msg]
      /\ ingesting \in SUBSET Jobs
      /\ requeue = NoRequeue \/ (requeue.queue \in WorkQueues /\ requeue.msg \in Msg)
      /\ Accounted(j) \/ status[j] \in Gone
      /\ orch.phase = "recovering" /\ j \in orch.stuck => Recoverable(j)
  BY DEF LossInv, TableInv, Shape, TypeOK, Hands
<1>1. /\ InMD(j) => InMD(j)'
      /\ InOC(j) => InOC(j)'
      /\ InResults(j) => InResults(j)'
  BY DEF OrchestratorNext, IngestCommit, IngestPublish, IngestFail, OrchCrash, RecoveryStep,
     RecoveryLoad, RecoveryPublish, RecoveryCommit, RecoveryAbort, RequeuePublish, RequeueAck,
     DlxPurge, Expire, OrchUnchanged, InMD, InOC, InResults
<1>2. ASSUME UNCHANGED queue PROVE InQueue(j) => InQueue(j)'
  BY <1>2 DEF InQueue, Listed, Ready
<1>3. ASSUME UNCHANGED <<ingesting, requests>> PROVE Owed(j) => Owed(j)'
  BY <1>3 DEF Owed
<1>4. ASSUME NEW i \in Jobs, IngestCommit(i) \/ IngestPublish(i) \/ IngestFail(i)
      PROVE  KeepsAccount(j) /\ orch'.phase = "up"
  <2>1. orch'.phase = "up" /\ UNCHANGED <<rows, requests>>
    BY <1>4 DEF IngestCommit, IngestPublish, IngestFail, OrchUp, table
  <2>2. CASE IngestCommit(i)
    <3>1. Owed(j) \/ j = i => Owed(j)'
      BY <2>1, <2>2 DEF IngestCommit, Owed
    <3>2. UNCHANGED <<queue, abandoned>> /\ (j # i => status'[j] = status[j])
      BY <2>2 DEF IngestCommit
    <3> QED
      BY <1>1, <1>2, <2>1, <3>1, <3>2 DEF KeepsAccount, Accounted, Carried
  <2>3. CASE IngestPublish(i)
    <3>1. [job |-> i, path |-> "raw"] \in Msg /\ "ingest" \in Queues
      BY DEF Msg, Paths, Queues
    <3>2. InQueue(j) \/ j = i => InQueue(j)'
      BY <1>0, <2>3, <3>1, PublishListed DEF IngestPublish
    <3>3. Owed(j) => Owed(j)' \/ j = i
      BY <2>1, <2>3 DEF IngestPublish, Owed
    <3>4. UNCHANGED <<status, abandoned>>
      BY <2>3 DEF IngestPublish, table
    <3> QED
      BY <1>1, <2>1, <3>2, <3>3, <3>4 DEF KeepsAccount, Accounted, Carried
  <2>4. CASE IngestFail(i)
    <3>1. Owed(j) => Owed(j)' \/ j = i
      BY <2>1, <2>4 DEF IngestFail, Owed
    <3>2. UNCHANGED <<status, queue>> /\ abandoned'[i] # {}
             /\ (abandoned[j] # {} => abandoned'[j] # {})
      BY <1>0, <2>4 DEF IngestFail, table, Abandon
    <3> QED
      BY <1>1, <1>2, <2>1, <3>1, <3>2 DEF KeepsAccount, Accounted, Carried
  <2> QED
    BY <1>4, <2>1, <2>2, <2>3, <2>4
<1>5. CASE OrchCrash
  <2>1. UNCHANGED table /\ orch'.phase = "down"
    BY <1>5 DEF OrchCrash
  <2>2. Owed(j) => abandoned'[j] # {}
    BY <1>5 DEF OrchCrash, Owed
  <2>3. abandoned[j] # {} => abandoned'[j] # {}
    BY <1>0, <1>5 DEF OrchCrash
  <2>4. InQueue(j) => InQueue(j)'
    <3>1. CASE requeue = NoRequeue
      BY <1>2, <1>5, <3>1 DEF OrchCrash
    <3>2. CASE requeue # NoRequeue
      BY <1>0, <1>5, <3>2, DeadLettersType, PublishListed DEF OrchCrash
    <3> QED
      BY <3>1, <3>2
  <2> QED
    BY <1>1, <2>1, <2>2, <2>3, <2>4 DEF KeepsAccount, Accounted, Carried, table
<1>6. CASE RecoveryLoad
  <2>1. UNCHANGED <<status, rows, queue, ingesting, requests, abandoned>>
    BY <1>6 DEF RecoveryLoad, table, memory
  <2>2. KeepsAccount(j)
    BY <1>1, <1>2, <1>3, <2>1 DEF KeepsAccount, Accounted, Carried
  <2>3. j \in orch'.stuck => [job |-> j, path |-> path[j]] \in orch'.todo
    BY <1>6 DEF RecoveryLoad
  <2> QED
    BY <1>0, <2>2, <2>3 DEF Recoverable
<1>7. ASSUME NEW m \in Msg, RecoveryPublish(m)
      PROVE  KeepsAccount(j) /\ (j \in orch'.stuck => Recoverable(j)')
  <2>1. /\ UNCHANGED <<status, rows, ingesting, requests, abandoned>>
        /\ orch' = [orch EXCEPT !.todo = @ \ {m}]
        /\ orch.phase = "recovering"
    BY <1>7 DEF RecoveryPublish, table, memory
  <2>2. InQueue(j) \/ j = m.job => InQueue(j)'
    BY <1>0, <1>7, PublishListed DEF RecoveryPublish, Queues
  <2>3. Carried(j) => Carried(j)'
    BY <1>1, <1>3, <2>1, <2>2 DEF Carried
  <2>4. ASSUME NEW p \in Paths, [job |-> j, path |-> p] \in orch.todo
        PROVE  [job |-> j, path |-> p] \in orch'.todo \/ Carried(j)'
    BY <1>0, <2>1, <2>2, <2>4 DEF Carried
  <2>5. KeepsAccount(j)
    BY <2>1, <2>3 DEF KeepsAccount, Accounted
  <2>6. orch'.stuck = orch.stuck
    BY <1>0, <2>1
  <2> QED
    BY <1>0, <2>1, <2>3, <2>4, <2>5, <2>6 DEF Recoverable
<1>8. CASE RecoveryCommit
  <2>1. /\ orch.phase = "recovering" /\ orch.todo = {} /\ orch'.phase = "up"
        /\ UNCHANGED <<rows, queue, ingesting, requests>>
        /\ SetStatus(orch.stuck, "queued")
        /\ abandoned' = [i \in Jobs |-> IF i \in orch.stuck THEN {} ELSE abandoned[i]]
    BY <1>8 DEF RecoveryCommit, Running, memory
  <2>2. Carried(j) => Carried(j)'
    BY <1>1, <1>2, <1>3, <2>1 DEF Carried
  <2>3. status'[j] \notin Gone => status[j] \notin Gone
    BY <2>1 DEF SetStatus
  <2>4. CASE j \in orch.stuck
    BY <1>0, <2>1, <2>2, <2>4 DEF Recoverable, KeepsAccount, Accounted
  <2>5. CASE j \notin orch.stuck
    BY <2>1, <2>2, <2>3, <2>5 DEF KeepsAccount, Accounted
  <2> QED
    BY <2>1, <2>4, <2>5
<1>9. CASE RecoveryAbort \/ RequeueAck
  <2>1. /\ UNCHANGED <<status, rows, queue, ingesting, requests, abandoned>>
        /\ orch'.phase = "up"
    BY <1>9 DEF RecoveryAbort, RequeueAck, Running, OrchUp, table, memory
  <2> QED
    BY <1>1, <1>2, <1>3, <2>1 DEF KeepsAccount, Accounted, Carried
<1>10. ASSUME NEW q \in WorkQueues, DlxPurge(q) PROVE KeepsAccount(j) /\ orch'.phase = "up"
  <2>1. UNCHANGED <<status, rows, ingesting, requests>> /\ orch'.phase = "up"
    BY <1>10 DEF DlxPurge, OrchUp, table, memory
  <2>2. /\ InQueue(j) => InQueue(j)' \/ abandoned'[j] # {}
        /\ abandoned[j] # {} => abandoned'[j] # {}
    BY <1>0, <1>10, DeadLettersType, PurgeListed DEF DlxPurge
  <2> QED
    BY <1>1, <1>3, <2>1, <2>2 DEF KeepsAccount, Accounted, Carried
<1>11. ASSUME NEW q \in WorkQueues, NEW m \in Msg, RequeuePublish(q, m) \/ Expire(q, m)
       PROVE  /\ KeepsAccount(j)
              /\ orch' = orch
              /\ Recoverable(j) => Recoverable(j)'
  <2>1. UNCHANGED <<status, rows, ingesting, requests, abandoned, orch>>
    BY <1>11 DEF RequeuePublish, Expire, table, memory
  <2>2. InQueue(j) => InQueue(j)'
    BY <1>0, <1>11, DeadLettersType, TransferListed DEF RequeuePublish, Expire
  <2>3. Carried(j) => Carried(j)'
    BY <1>1, <1>3, <2>1, <2>2 DEF Carried
  <2> QED
    BY <2>1, <2>3 DEF KeepsAccount, Accounted, Recoverable
<1> QED
  BY <1>0, <1>4, <1>5, <1>6, <1>7, <1>8, <1>9, <1>10, <1>11
     DEF OrchestratorNext, RecoveryStep, OrchCrash

LEMMA LossInvKept == LossInv /\ [Next]_vars => LossInv'
<1> SUFFICES ASSUME LossInv, [Next]_vars PROVE LossInv'
  OBVIOUS
<1>1. TableInv'
  BY TableInvKept DEF LossInv
<1>2. ASSUME Next, NEW j \in Jobs
      PROVE  /\ KeepsAccount(j)
             /\ orch'.phase = "recovering" /\ j \in orch'.stuck => Recoverable(j)'
  <2>1. CASE WorkerNext
    BY <2>1, WorkerKeepsWork DEF LossInv
  <2>2. CASE ConsumerNext
    BY <2>2, ConsumerKeepsWork DEF OrchUp
  <2>3. CASE ApiNext
    BY <2>3, ApiKeepsWork DEF OrchUp
  <2>4. CASE OrchestratorNext
    BY <2>4, OrchestratorKeepsWork
  <2> QED
    BY <1>2, <2>1, <2>2, <2>3, <2>4, NextSplit
<1>3. CASE Next
  <2>1. \A j \in Jobs : status'[j] \notin Gone => Accounted(j)'
    BY <1>2, <1>3 DEF KeepsAccount, LossInv
  <2>2. orch'.phase = "recovering" => \A j \in orch'.stuck : Recoverable(j)'
    BY <1>1, <1>2, <1>3 DEF TableInv, Shape, TypeOK
  <2> QED
    BY <1>1, <2>1, <2>2 DEF LossInv
<1>4. CASE UNCHANGED vars
  BY <1>1, <1>4 DEF vars, LossInv, Accounted, Recoverable, Carried, InQueue, Listed, Ready,
     InMD, InOC, InResults, Owed
<1> QED
  BY <1>3, <1>4

LEMMA LossInvAlways == Spec => []LossInv
<1>1. Init => LossInv
  <2> SUFFICES ASSUME Init PROVE LossInv
    OBVIOUS
  <2>1. TableInv
    BY InitShape DEF Init, TableInv, StoredNameExists, CompletedHasRows, Transaction,
       IdleConsumer
  <2> QED
    BY <2>1 DEF Init, LossInv, Gone, Running
<1> QED
  BY <1>1, LossInvKept, PTL DEF Spec

(* No job is lost silently, whatever crashes, expires or is redelivered,   *)
(* for any number of jobs, workers, requests and disturbances.             *)
THEOREM NoLoss == Spec => []NoSilentLoss
<1>1. LossInv => NoSilentLoss
  BY DEF LossInv, NoSilentLoss, Accounted
<1> QED
  BY <1>1, LossInvAlways, PTL

(* Recovery never resubmits a job whose work is nowhere.                   *)
THEOREM RecoveryIsSafe == Spec => []RecoveryKeepsWork
<1>1. LossInv => RecoveryKeepsWork
  BY DEF LossInv, RecoveryKeepsWork, Recoverable
<1> QED
  BY <1>1, LossInvAlways, PTL

-------------------------------------------------------------------------------
(* RevivedOnlyByStaleWriter. The consumer's transaction carries what it    *)
(* loaded, and recovery carries what it saw: both facts hold because       *)
(* nothing else writes them in between.                                    *)

(* A transaction that loaded a failed job is about another failure report, *)
(* and only a final result renames; the jobs that recovery has loaded are  *)
(* still stuck.                                                            *)
SeenInv ==
    /\ TableInv
    /\ consumer.pc # "idle" /\ consumer.seen = "failed" => Current.kind = "failed"
    /\ consumer.pc = "renamed" => Final
    /\ orch.phase = "recovering" => \A j \in orch.stuck : status[j] \in Stuck

LEMMA ConsumerKeepsSeen ==
    ASSUME SeenInv, ConsumerNext
    PROVE  /\ consumer'.pc # "idle" /\ consumer'.seen = "failed" => Current'.kind = "failed"
           /\ consumer'.pc = "renamed" => Final'
           /\ orch' = orch /\ OrchUp
<1>0. consumer \in [pc : ConsumerSteps, seen : Status, path : Paths]
  BY DEF SeenInv, TableInv, Shape, TypeOK
<1>1. orch' = orch /\ OrchUp
  BY DEF ConsumerNext, ConsumerStep, ConsumerRollback, ConsumerReconnect, ConsumerIgnore,
     ConsumerLoad, ConsumerUpdate, ConsumerStale, ConsumerRename, ConsumerComplete, ConsumerAck, InFlight,
     HasResult, ConsumerUnchanged
<1>2. CASE consumer' = IdleConsumer
  BY <1>1, <1>2 DEF IdleConsumer
<1>3. CASE ConsumerIgnore
  BY <1>1, <1>3 DEF ConsumerIgnore, InFlight
<1>4. CASE ConsumerLoad
  BY <1>1, <1>4 DEF ConsumerLoad, Unwanted, Current
<1>5. CASE ConsumerUpdate \/ ConsumerStale \/ ConsumerRename \/ ConsumerComplete
  <2>1. /\ consumer'.seen = consumer.seen /\ consumer.pc # "idle" /\ Current' = Current
        /\ consumer'.pc = "renamed" => Final
    BY <1>0, <1>5 DEF ConsumerUpdate, ConsumerStale, ConsumerRename, ConsumerComplete, InFlight, Current
  <2> QED
    BY <1>1, <2>1 DEF SeenInv, Final
<1> QED
  BY <1>2, <1>3, <1>4, <1>5 DEF ConsumerNext, ConsumerStep, ConsumerRollback,
     ConsumerReconnect, ConsumerAck

(* Requests and ingest run only while the orchestrator is up; recovery and *)
(* the broker leave the statuses alone until recovery commits.             *)
LEMMA OthersKeepSeen ==
    ASSUME SeenInv, ApiNext \/ OrchestratorNext
    PROVE  /\ (consumer' = consumer /\ results' = results) \/ consumer' = IdleConsumer
           /\ orch'.phase = "recovering" => \A j \in orch'.stuck : status'[j] \in Stuck
<1>0. orch \in [phase : Phases, stuck : SUBSET Jobs, todo : SUBSET Msg]
  BY DEF SeenInv, TableInv, Shape, TypeOK
<1>1. TableKept
  BY ApiKeepsTable, OrchestratorKeepsTable DEF SeenInv, TableInv
<1>2. ASSUME ApiNext PROVE orch'.phase = "up"
  BY <1>2 DEF ApiNext, UserBegins, RequestStep, ResumeFail, PauseLoad, CancelLoad,
     ResumeLoad, RemoveLoad, BulkResumeLoad, BulkDeleteLoad, BulkPause, BulkKill,
     PauseCommit, CancelCommit, RemoveCommit, ResumeCommit, ResumePublish,
     BulkResumePublish, BulkResumeCommit, KillPurgeIngest, KillPurgeMotion, Begin, At,
     ApiUnchanged, OrchUp
<1>3. CASE \/ \E j \in Jobs : IngestCommit(j) \/ IngestPublish(j) \/ IngestFail(j)
           \/ RequeueAck
           \/ \E q \in WorkQueues : DlxPurge(q) \/ \E m \in Msg : RequeuePublish(q, m)
  <2>1. orch.phase = "up" /\ orch' = orch
    BY <1>3 DEF IngestCommit, IngestPublish, IngestFail, RequeueAck, DlxPurge,
       RequeuePublish, OrchUp
  <2> QED
    BY <1>1, <2>1 DEF TableKept
<1>4. CASE RecoveryCommit \/ RecoveryAbort \/ OrchCrash
  <2>1. orch'.phase # "recovering"
    BY <1>4 DEF RecoveryCommit, RecoveryAbort, OrchCrash, Running
  <2> QED
    BY <1>1, <2>1 DEF TableKept
<1>5. CASE RecoveryLoad
  BY <1>1, <1>5 DEF TableKept, RecoveryLoad, table
<1>6. CASE \/ \E m \in Msg : RecoveryPublish(m)
           \/ \E q \in WorkQueues, m \in Msg : Expire(q, m)
  <2>1. status' = status /\ orch'.phase = orch.phase /\ orch'.stuck = orch.stuck
    BY <1>0, <1>6 DEF RecoveryPublish, Expire, table
  <2> QED
    BY <1>1, <2>1 DEF TableKept, SeenInv
<1> QED
  BY <1>1, <1>2, <1>3, <1>4, <1>5, <1>6 DEF OrchestratorNext, RecoveryStep, TableKept

LEMMA SeenInvKept == SeenInv /\ [Next]_vars => SeenInv'
<1> SUFFICES ASSUME SeenInv, [Next]_vars PROVE SeenInv'
  OBVIOUS
<1>1. TableInv'
  BY TableInvKept DEF SeenInv
<1>2. CASE WorkerNext
  <2>1. /\ UNCHANGED <<table, consumer, orch>>
        /\ UNCHANGED results \/ \E e \in Result : results' = Append(results, e)
    BY <1>2, WorkerFrame DEF SeenInv, TableInv
  <2>2. consumer.pc # "idle" => Current' = Current
    BY <2>1, HeadKept DEF SeenInv, TableInv, Transaction, Shape, TypeOK
  <2> QED
    BY <1>1, <2>1, <2>2 DEF SeenInv, table, Final
<1>3. CASE ConsumerNext
  BY <1>1, <1>3, ConsumerKeepsSeen DEF SeenInv, OrchUp
<1>4. CASE ApiNext \/ OrchestratorNext
  BY <1>1, <1>4, OthersKeepSeen DEF SeenInv, IdleConsumer, Current, Final
<1>5. CASE UNCHANGED vars
  BY <1>1, <1>5 DEF vars, SeenInv, Current, Final
<1> QED
  BY <1>2, <1>3, <1>4, <1>5, NextSplit

LEMMA SeenInvAlways == Spec => []SeenInv
<1>1. Init => SeenInv
  <2> SUFFICES ASSUME Init PROVE SeenInv
    OBVIOUS
  <2>1. TableInv
    BY InitShape DEF Init, TableInv, StoredNameExists, CompletedHasRows, Transaction,
       IdleConsumer
  <2> QED
    BY <2>1 DEF Init, SeenInv, IdleConsumer, Running
<1> QED
  BY <1>1, SeenInvKept, PTL DEF Spec

-------------------------------------------------------------------------------
(* The step itself: who may write over failed.                             *)

StaleWriter(j) ==
    \/ consumer.pc # "idle" /\ Current.job = j /\ consumer.seen # "failed"
    \/ \E r \in Requests : /\ requests[r].op \in {"resume", "bulk_resume", "pause"}
                           /\ j \in requests[r].jobs

LEMMA RevivedByStaleWriter ==
    ASSUME SeenInv, [Next]_vars, NEW j \in Jobs, status[j] = "failed",
           status'[j] \notin {"failed", "deleted"}
    PROVE  StaleWriter(j)
<1>1. ASSUME UNCHANGED table PROVE FALSE
  BY <1>1 DEF table
<1>2. ASSUME NEW S, NEW new, SetStatus(S, new), new \notin {"failed", "deleted"} => j \notin S
      PROVE  FALSE
  BY <1>2 DEF SetStatus
<1>3. CASE WorkerNext
  BY <1>1, <1>3, WorkerFrame DEF SeenInv, TableInv
<1>4. CASE ConsumerNext
  <2>1. /\ status \in [Jobs -> Status] /\ Current.job \in Jobs
        /\ consumer.pc # "idle" /\ consumer.seen = "failed" => Current.kind = "failed"
    BY <1>4, CurrentType DEF SeenInv, TableInv, Shape, TypeOK, ConsumerNext, ConsumerStep,
       ConsumerRollback, ConsumerReconnect, ConsumerIgnore, ConsumerLoad, ConsumerUpdate,
       ConsumerStale, ConsumerRename, ConsumerComplete, ConsumerAck, InFlight, HasResult
  <2>2. CASE ConsumerUpdate
    <3>1. consumer.pc = "loaded" /\ consumer.seen # Current.kind /\ j = Current.job
      BY <2>2 DEF ConsumerUpdate, InFlight, SetStatus
    <3> QED
      BY <2>1, <3>1 DEF StaleWriter
  <2>3. CASE ConsumerComplete
    <3>1. consumer.pc = "renamed" /\ j = Current.job
      BY <1>1, <2>1, <2>3 DEF ConsumerComplete, InFlight
    <3>2. Current.kind = "final"
      BY <3>1 DEF SeenInv, Final
    <3> QED
      BY <2>1, <3>1, <3>2 DEF StaleWriter
  <2>4. CASE ConsumerIgnore \/ ConsumerLoad \/ ConsumerStale \/ ConsumerRename \/ ConsumerAck
             \/ ConsumerRollback \/ ConsumerReconnect
    BY <1>1, <2>4 DEF ConsumerIgnore, ConsumerLoad, ConsumerStale, ConsumerRename, ConsumerAck,
       ConsumerRollback, ConsumerReconnect
  <2> QED
    BY <1>4, <2>2, <2>3, <2>4 DEF ConsumerNext, ConsumerStep
<1>5. CASE ApiNext
  <2>1. PICK r \in Requests : UserBegins(r) \/ RequestStep(r) \/ ResumeFail(r)
    BY <1>5 DEF ApiNext
  <2>2. CASE BulkPause(r) \/ BulkKill(r) \/ CancelCommit(r) \/ RemoveCommit(r)
    BY <1>2, <2>2 DEF BulkPause, BulkKill, CancelCommit, RemoveCommit, Pauseable
  <2>3. CASE PauseCommit(r) \/ ResumeCommit(r) \/ BulkResumeCommit(r)
    <3>1. requests[r].op \in {"pause", "resume", "bulk_resume"}
      BY <2>3 DEF PauseCommit, ResumeCommit, BulkResumeCommit, At
    <3>2. j \in requests[r].jobs
      BY <1>2, <2>3 DEF PauseCommit, ResumeCommit, BulkResumeCommit
    <3> QED
      BY <3>1, <3>2 DEF StaleWriter
  <2>4. CASE UNCHANGED table
    BY <1>1, <2>4
  <2> QED
    BY <2>1, <2>2, <2>3, <2>4 DEF UserBegins, RequestStep, ResumeFail, PauseLoad, CancelLoad,
       ResumeLoad, RemoveLoad, BulkResumeLoad, BulkDeleteLoad, ResumePublish,
       BulkResumePublish, KillPurgeIngest, KillPurgeMotion, Begin
<1>6. CASE OrchestratorNext
  <2>1. ASSUME NEW i \in Jobs, IngestCommit(i) PROVE FALSE
    BY <2>1 DEF IngestCommit
  <2>2. CASE RecoveryCommit
    BY <1>2, <2>2 DEF RecoveryCommit, SeenInv, Stuck
  <2>3. CASE UNCHANGED table
    BY <1>1, <2>3
  <2> QED
    BY <1>6, <2>1, <2>2, <2>3 DEF OrchestratorNext, IngestPublish, IngestFail, OrchCrash,
       RecoveryStep, RecoveryLoad, RecoveryPublish, RecoveryAbort, RequeuePublish, RequeueAck,
       DlxPurge, Expire
<1>7. CASE UNCHANGED vars
  BY <1>1, <1>7 DEF vars, table
<1> QED
  BY <1>3, <1>4, <1>5, <1>6, <1>7, NextSplit

(* A cancelled or failed job comes back to life only through a transaction *)
(* that read it before it failed, for every instance.                      *)
THEOREM RevivalNeedsStaleWriter == Spec => RevivedOnlyByStaleWriter
<1>1. SeenInv /\ [Next]_vars =>
        [\A j \in Jobs : status[j] = "failed" /\ status'[j] \notin {"failed", "deleted"} =>
            \/ consumer.pc # "idle" /\ Current.job = j /\ consumer.seen # "failed"
            \/ \E r \in Requests : /\ requests[r].op \in {"resume", "bulk_resume", "pause"}
                                   /\ j \in requests[r].jobs]_vars
  BY RevivedByStaleWriter DEF StaleWriter
<1> QED
  BY <1>1, SeenInvAlways, PTL DEF Spec, RevivedOnlyByStaleWriter
===============================================================================
