---------------------------- MODULE RegistryProofs -----------------------------
(***************************************************************************)
(* The safety properties of the worker registry for every set of workers   *)
(* and every bound: indices clash only where one was kept, a suspension    *)
(* holds, and a worker shown at work is at work.                           *)
(***************************************************************************)
EXTENDS WorkerRegistry, FiniteSetTheorems, SequenceTheorems, TLAPS

(* The last that the consumer has heard, or will hear, of the jobs of w.   *)
Latest(w) == IF reports[w] = <<>> THEN registry[w].status ELSE reports[w][Len(reports[w])]

(* What holds of each worker on its own.                                   *)
WorkerInv(w) ==
    /\ process[w].main = "down" => ~process[w].busy
    /\ w \notin unreported /\ Latest(w) = "processing" => process[w].busy
    /\ registry[w].status = "unknown" => ~registry[w].suspended
    /\ Present(w) /\ w \notin keptIndex => registry[w].device = "known"

RegistryInv ==
    /\ RegistryTypeOK
    /\ \A w \in Workers : WorkerInv(w)
    /\ IndicesClashOnlyIfKept

Entry == [status : {"unknown", "idle", "processing", "offline"}, suspended : BOOLEAN,
          index : Nat, device : {"?", "known"}, heard : 0..LostAfter]
Process == [main : {"down", "run", "stopping", "leaving"}, beat : {"wait", "publish", "poll"},
            busy : BOOLEAN, suspended : BOOLEAN]

LEMMA RegistryInitInv == RegistryInit => RegistryInv
<1> SUFFICES ASSUME RegistryInit PROVE RegistryInv
  OBVIOUS
<1>1. RegistryTypeOK
  <2>1. 0 \in 0..LostAfter
    BY RegistryAssumption
  <2>2. Unknown \in Entry /\ Down \in Process
    BY <2>1 DEF Unknown, Down, Entry, Process
  <2>3. <<>> \in Seq({"online", "heartbeat", "offline"}) /\ <<>> \in Seq({"processing", "idle"})
    OBVIOUS
  <2> QED
    BY <2>2, <2>3 DEF RegistryInit, RegistryTypeOK, Entry, Process
<1>2. ASSUME NEW w \in Workers PROVE WorkerInv(w) /\ ~Present(w)
  BY <1>2 DEF RegistryInit, WorkerInv, Latest, Present, Unknown, Down
<1>3. IndicesClashOnlyIfKept
  BY <1>2 DEF IndicesClashOnlyIfKept
<1> QED
  BY <1>1, <1>2, <1>3 DEF RegistryInv

(* A step that leaves the registry alone and changes the process, the      *)
(* reports and the mark of one worker only.                                *)
ProcessFrame(w) ==
    /\ kind' = kind /\ registry' = registry /\ keptIndex' = keptIndex
    /\ process' \in [Workers -> Process] /\ registryEvents' \in Nat
    /\ lifecycle' \in [Workers -> Seq({"online", "heartbeat", "offline"})]
    /\ reports' \in [Workers -> Seq({"processing", "idle"})]
    /\ unreported' \subseteq Workers
    /\ \A v \in Workers \ {w} : /\ process'[v] = process[v] /\ reports'[v] = reports[v]
                                /\ v \in unreported' <=> v \in unreported

LEMMA ProcessKeeps ==
    ASSUME RegistryInv, NEW w \in Workers, ProcessFrame(w),
           process'[w].main = "down" => ~process'[w].busy,
           w \notin unreported' /\ Latest(w)' = "processing" => process'[w].busy
    PROVE  RegistryInv'
<1>1. RegistryTypeOK'
  BY DEF RegistryInv, RegistryTypeOK, ProcessFrame, Process
<1>2. ASSUME NEW v \in Workers PROVE WorkerInv(v)'
  <2>0. registry' = registry /\ keptIndex' = keptIndex /\ WorkerInv(v)
    BY DEF ProcessFrame, RegistryInv
  <2>1. CASE v = w
    BY <2>0, <2>1 DEF WorkerInv, Present
  <2>2. CASE v # w
    <3>1. process'[v] = process[v] /\ reports'[v] = reports[v] /\ (v \in unreported' <=> v \in unreported)
      BY <2>2 DEF ProcessFrame
    <3> QED
      BY <2>0, <3>1 DEF WorkerInv, Present, Latest
  <2> QED
    BY <2>1, <2>2
<1>3. IndicesClashOnlyIfKept'
  BY DEF RegistryInv, IndicesClashOnlyIfKept, ProcessFrame, Present
<1> QED
  BY <1>1, <1>2, <1>3 DEF RegistryInv

LEMMA RegistryTypeFacts ==
    ASSUME RegistryInv, NEW w \in Workers
    PROVE  /\ process \in [Workers -> Process] /\ process[w] \in Process
           /\ registry \in [Workers -> Entry] /\ registry[w] \in Entry
           /\ lifecycle \in [Workers -> Seq({"online", "heartbeat", "offline"})]
           /\ reports \in [Workers -> Seq({"processing", "idle"})]
           /\ reports[w] \in Seq({"processing", "idle"})
           /\ lifecycle[w] \in Seq({"online", "heartbeat", "offline"})
           /\ unreported \subseteq Workers /\ keptIndex \subseteq Workers
           /\ registryEvents \in Nat /\ kind \in [Workers -> {"md", "oc"}]
           /\ WorkerInv(w)
BY DEF RegistryInv, RegistryTypeOK, Process, Entry

LEMMA AnnounceType ==
    ASSUME RegistryInv, NEW w \in Workers, NEW e \in {"online", "heartbeat", "offline"},
           Announce(w, e)
    PROVE  lifecycle' \in [Workers -> Seq({"online", "heartbeat", "offline"})]
<1>1. Append(lifecycle[w], e) \in Seq({"online", "heartbeat", "offline"})
  BY RegistryTypeFacts
<1> QED
  BY <1>1, RegistryTypeFacts DEF Announce

LEMMA AppendLast ==
    ASSUME NEW S, NEW s \in Seq(S), NEW e \in S
    PROVE  /\ Append(s, e) \in Seq(S) /\ Append(s, e) # <<>>
           /\ Append(s, e)[Len(Append(s, e))] = e
<1>1. Len(Append(s, e)) = Len(s) + 1 /\ Append(s, e) \in Seq(S) /\ Len(s) \in Nat
  OBVIOUS
<1>2. Append(s, e) # <<>> /\ Append(s, e)[Len(s) + 1] = e
  BY <1>1
<1> QED
  BY <1>1, <1>2

LEMMA ReportType ==
    ASSUME RegistryInv, NEW w \in Workers, NEW e \in {"processing", "idle"}, Report(w, e)
    PROVE  /\ reports' \in [Workers -> Seq({"processing", "idle"})]
           /\ reports'[w] # <<>> /\ reports'[w][Len(reports'[w])] = e
           /\ \A v \in Workers \ {w} : reports'[v] = reports[v]
<1> DEFINE S == {"processing", "idle"}
<1>0. reports[w] \in Seq(S) /\ e \in S
  BY RegistryTypeFacts
<1> HIDE DEF S
<1>1. /\ Append(reports[w], e) \in Seq(S)
      /\ Append(reports[w], e) # <<>>
      /\ Append(reports[w], e)[Len(Append(reports[w], e))] = e
  BY <1>0, AppendLast
<1> USE DEF S
<1>2. reports' = [reports EXCEPT ![w] = Append(@, e)]
  BY DEF Report
<1>3. reports'[w] = Append(reports[w], e)
  BY <1>2, RegistryTypeFacts
<1> QED
  BY <1>1, <1>2, <1>3, RegistryTypeFacts

LEMMA RegistryEventType ==
    ASSUME RegistryInv, RegistryEvent
    PROVE  registryEvents' \in Nat
BY DEF RegistryInv, RegistryTypeOK, RegistryEvent

(* Threads that neither take nor end a job.                                *)
LEMMA ThreadsKeep ==
    ASSUME RegistryInv, NEW w \in Workers,
           \/ WorkerStarts(w) \/ Wake(w) \/ Beat(w) \/ PollSuspension(w) \/ PollFails(w)
           \/ StopRequested(w) \/ PublishOffline(w) \/ WorkerExits(w)
    PROVE  RegistryInv'
<1> USE RegistryTypeFacts
<1>1. /\ kind' = kind /\ registry' = registry /\ keptIndex' = keptIndex /\ reports' = reports
      /\ unreported' = unreported
  BY DEF WorkerStarts, Wake, Beat, PollSuspension, PollFails, StopRequested, PublishOffline,
     WorkerExits
<1>2. registryEvents' \in Nat
  BY RegistryEventType DEF WorkerStarts, Wake, Beat, PollSuspension, PollFails, StopRequested,
     PublishOffline, WorkerExits
<1>3. lifecycle' \in [Workers -> Seq({"online", "heartbeat", "offline"})]
  BY AnnounceType DEF WorkerStarts, Wake, Beat, PollSuspension, PollFails, StopRequested,
     PublishOffline, WorkerExits
<1>4. /\ process' \in [Workers -> Process]
      /\ \A v \in Workers \ {w} : process'[v] = process[v]
      /\ process'[w].busy = process[w].busy
      /\ process'[w].main = "down" => ~process[w].busy
  <2>0. registry[w].suspended \in BOOLEAN
    BY DEF Entry
  <2>1. PICK p \in Process : /\ process' = [process EXCEPT ![w] = p]
                             /\ p.busy = process[w].busy
                             /\ p.main = "down" => ~process[w].busy
    <3>1. CASE WorkerStarts(w)
      <4>1. [Down EXCEPT !.main = "run"] \in Process /\ ~[Down EXCEPT !.main = "run"].busy
        BY DEF Down, Process
      <4> QED
        BY <3>1, <4>1 DEF WorkerStarts, WorkerInv, Down, Process
    <3>2. CASE WorkerExits(w)
      BY <3>2 DEF WorkerExits, Down, Process
    <3>3. CASE Wake(w)
      <4> DEFINE p == [process[w] EXCEPT !.beat = "publish"]
      <4>1. p \in Process /\ p.busy = process[w].busy /\ (p.main = "down" => ~process[w].busy)
        BY DEF Process, WorkerInv
      <4>2. process' = [process EXCEPT ![w] = p]
        BY <3>3 DEF Wake, Process
      <4> QED
        BY <4>1, <4>2
    <3>4. CASE Beat(w)
      <4> DEFINE p == [process[w] EXCEPT !.beat = "poll"]
      <4>1. p \in Process /\ p.busy = process[w].busy /\ (p.main = "down" => ~process[w].busy)
        BY DEF Process, WorkerInv
      <4>2. process' = [process EXCEPT ![w] = p]
        BY <3>4 DEF Beat, Process
      <4> QED
        BY <4>1, <4>2
    <3>5. CASE PollSuspension(w)
      <4> DEFINE p == [process[w] EXCEPT !.beat = "wait", !.suspended = registry[w].suspended]
      <4>1. p \in Process /\ p.busy = process[w].busy /\ (p.main = "down" => ~process[w].busy)
        BY <2>0 DEF Process, WorkerInv
      <4>2. process' = [process EXCEPT ![w] = p]
        BY <3>5 DEF PollSuspension, Process
      <4> QED
        BY <4>1, <4>2
    <3>6. CASE PollFails(w)
      <4> DEFINE p == [process[w] EXCEPT !.beat = "wait"]
      <4>1. p \in Process /\ p.busy = process[w].busy /\ (p.main = "down" => ~process[w].busy)
        BY DEF Process, WorkerInv
      <4>2. process' = [process EXCEPT ![w] = p]
        BY <3>6 DEF PollFails, Process
      <4> QED
        BY <4>1, <4>2
    <3>7. CASE StopRequested(w)
      <4> DEFINE p == [process[w] EXCEPT !.main = "stopping"]
      <4>1. p \in Process /\ p.busy = process[w].busy /\ (p.main = "down" => ~process[w].busy)
        BY DEF Process, WorkerInv
      <4>2. process' = [process EXCEPT ![w] = p]
        BY <3>7 DEF StopRequested, Process
      <4> QED
        BY <4>1, <4>2
    <3>8. CASE PublishOffline(w)
      <4> DEFINE p == [process[w] EXCEPT !.main = "leaving"]
      <4>1. p \in Process /\ p.busy = process[w].busy /\ (p.main = "down" => ~process[w].busy)
        BY DEF Process, WorkerInv
      <4>2. process' = [process EXCEPT ![w] = p]
        BY <3>8 DEF PublishOffline, Process
      <4> QED
        BY <4>1, <4>2
    <3> QED
      BY <3>1, <3>2, <3>3, <3>4, <3>5, <3>6, <3>7, <3>8
  <2> QED
    BY <2>1
<1>5. ProcessFrame(w)
  BY <1>1, <1>2, <1>3, <1>4 DEF ProcessFrame
<1>6. Latest(w)' = Latest(w)
  BY <1>1 DEF Latest
<1> QED
  BY <1>1, <1>4, <1>5, <1>6, ProcessKeeps DEF WorkerInv

LEMMA JobsKeep ==
    ASSUME RegistryInv, NEW w \in Workers, TakeJob(w) \/ FinishJob(w) \/ WorkerCrashes(w)
    PROVE  RegistryInv'
<1> USE RegistryTypeFacts
<1>1. /\ kind' = kind /\ registry' = registry /\ keptIndex' = keptIndex /\ lifecycle' = lifecycle
      /\ registryEvents' \in Nat
  BY RegistryEventType DEF TakeJob, FinishJob, WorkerCrashes
<1>2. CASE TakeJob(w)
  <2>1. /\ process' \in [Workers -> Process] /\ process'[w].busy
        /\ process'[w].main = process[w].main /\ process[w].main = "run"
        /\ \A v \in Workers \ {w} : process'[v] = process[v]
    BY <1>2 DEF TakeJob, Accepts, Process
  <2>2. Report(w, "processing") /\ unreported' = unreported
    BY <1>2 DEF TakeJob
  <2>3. ProcessFrame(w)
    BY <1>1, <2>1, <2>2, ReportType DEF ProcessFrame
  <2> QED
    BY <2>1, <2>3, ProcessKeeps
<1>3. CASE FinishJob(w)
  <2>1. /\ process' \in [Workers -> Process]
        /\ ~process'[w].busy
        /\ \A v \in Workers \ {w} : process'[v] = process[v]
    BY <1>3 DEF FinishJob, Process
  <2>2. CASE Report(w, "idle") /\ unreported' = unreported \ {w}
    <3>1. ProcessFrame(w)
      BY <1>1, <2>1, <2>2, ReportType DEF ProcessFrame
    <3>2. Latest(w)' = "idle"
      BY <2>2, ReportType DEF Latest
    <3> QED
      BY <2>1, <3>1, <3>2, ProcessKeeps
  <2>3. CASE reports' = reports /\ unreported' = unreported \cup {w}
    <3>1. ProcessFrame(w)
      BY <1>1, <2>1, <2>3 DEF ProcessFrame
    <3> QED
      BY <2>1, <2>3, <3>1, ProcessKeeps
  <2> QED
    BY <1>3, <2>2, <2>3 DEF FinishJob
<1>4. CASE WorkerCrashes(w)
  <2>1. Down \in Process /\ ~Down.busy
    BY DEF Down, Process
  <2>2. /\ process' \in [Workers -> Process] /\ process'[w] = Down
        /\ \A v \in Workers \ {w} : process'[v] = process[v]
        /\ reports' = reports
        /\ unreported' = IF process[w].busy THEN unreported \cup {w} ELSE unreported
    BY <1>4, <2>1 DEF WorkerCrashes
  <2>3. ProcessFrame(w)
    BY <1>1, <2>2 DEF ProcessFrame
  <2>4. Latest(w)' = Latest(w)
    BY <1>1, <2>2 DEF Latest
  <2> QED
    BY <2>1, <2>2, <2>3, <2>4, ProcessKeeps DEF WorkerInv
<1> QED
  BY <1>2, <1>3, <1>4

-------------------------------------------------------------------------------
(* The registry's side: a step that changes one entry.                     *)

EntryFrame(w) ==
    /\ kind' = kind /\ process' = process /\ unreported' = unreported
    /\ registryEvents' \in Nat
    /\ lifecycle' \in [Workers -> Seq({"online", "heartbeat", "offline"})]
    /\ reports' \in [Workers -> Seq({"processing", "idle"})]
    /\ registry' \in [Workers -> Entry]
    /\ keptIndex' \subseteq Workers
    /\ \A v \in Workers \ {w} :
        /\ registry'[v] = registry[v] /\ reports'[v] = reports[v]
        /\ v \in keptIndex' <=> v \in keptIndex

(* An entry that was not kept has its index from before, or one that no    *)
(* other worker has.                                                       *)
IndexDrawn(w) ==
    \/ /\ Present(w) /\ w \notin keptIndex
       /\ registry'[w].index = registry[w].index /\ registry'[w].device = registry[w].device
    \/ \A v \in Workers \ {w} :
            /\ Present(v) /\ kind[v] = kind[w] /\ registry[v].device = registry'[w].device
            => registry[v].index # registry'[w].index

LEMMA EntryKeeps ==
    ASSUME RegistryInv, NEW w \in Workers, EntryFrame(w),
           w \notin unreported /\ Latest(w)' = "processing" => process[w].busy,
           registry'[w].status = "unknown" => ~registry'[w].suspended,
           Present(w)' /\ w \notin keptIndex' => registry'[w].device = "known" /\ IndexDrawn(w)
    PROVE  RegistryInv'
<1>1. RegistryTypeOK'
  BY RegistryTypeFacts DEF RegistryInv, RegistryTypeOK, EntryFrame, Entry
<1>2. ASSUME NEW v \in Workers PROVE WorkerInv(v)'
  <2>0. process' = process /\ unreported' = unreported /\ WorkerInv(v)
    BY DEF EntryFrame, RegistryInv
  <2>1. CASE v = w
    BY <2>0, <2>1 DEF WorkerInv
  <2>2. CASE v # w
    <3>1. registry'[v] = registry[v] /\ reports'[v] = reports[v] /\ (v \in keptIndex' <=> v \in keptIndex)
      BY <2>2 DEF EntryFrame
    <3> QED
      BY <2>0, <3>1 DEF WorkerInv, Present, Latest
  <2> QED
    BY <2>1, <2>2
<1>3. IndicesClashOnlyIfKept'
  <2> DEFINE Clash(u, v) == /\ Present(u) /\ Present(v) /\ kind[u] = kind[v]
                            /\ registry[u].device = registry[v].device
                            /\ registry[u].index = registry[v].index
  <2>0. kind' = kind
    BY DEF EntryFrame
  <2>1. ASSUME NEW u \in Workers, NEW v \in Workers, u # v, Clash(u, v)', u # w, v # w
        PROVE  u \in keptIndex' \/ v \in keptIndex'
    <3>1. /\ registry'[u] = registry[u] /\ registry'[v] = registry[v]
          /\ (u \in keptIndex' <=> u \in keptIndex) /\ (v \in keptIndex' <=> v \in keptIndex)
      BY <2>1 DEF EntryFrame
    <3>2. Clash(u, v)
      BY <2>0, <2>1, <3>1 DEF Present
    <3> QED
      BY <2>1, <3>1, <3>2 DEF RegistryInv, IndicesClashOnlyIfKept
  <2>2. ASSUME NEW v \in Workers, v # w, Clash(w, v)', w \notin keptIndex', v \notin keptIndex'
        PROVE  FALSE
    <3>1. registry'[v] = registry[v] /\ v \notin keptIndex
      BY <2>2 DEF EntryFrame
    <3>2. IndexDrawn(w) /\ Present(v)
      BY <2>2, <3>1 DEF Present
    <3> QED
      BY <2>0, <2>2, <3>1, <3>2 DEF IndexDrawn, RegistryInv, IndicesClashOnlyIfKept
  <2> QED
    BY <2>1, <2>2 DEF IndicesClashOnlyIfKept
<1> QED
  BY <1>1, <1>2, <1>3 DEF RegistryInv

LEMMA TailType ==
    ASSUME NEW S, NEW s \in Seq(S), s # <<>>
    PROVE  /\ Tail(s) \in Seq(S) /\ Head(s) \in S
           /\ IF Tail(s) = <<>> THEN Head(s) = s[Len(s)]
                                ELSE Tail(s)[Len(Tail(s))] = s[Len(s)]
<1>1. /\ Tail(s) \in Seq(S) /\ Head(s) = s[1] /\ s[1] \in S
      /\ Len(Tail(s)) = Len(s) - 1 /\ Len(s) \in Nat /\ Len(s) > 0
  OBVIOUS
<1>2. CASE Len(s) = 1
  <2>1. Len(Tail(s)) = 0
    BY <1>1, <1>2
  <2>2. Tail(s) = <<>>
    BY <1>1, <2>1, EmptySeq
  <2> QED
    BY <1>1, <1>2, <2>2
<1>3. CASE Len(s) > 1
  <2>0. Len(Tail(s)) # 0
    BY <1>1, <1>3
  <2>1. Tail(s) # <<>>
    BY <2>0, EmptySeq, Zenon
  <2>2. \A i \in 1..Len(Tail(s)) : Tail(s)[i] = s[i + 1]
    BY HeadTailProperties
  <2>3. Tail(s)[Len(s) - 1] = s[(Len(s) - 1) + 1]
    BY <1>1, <1>3, <2>2
  <2> QED
    BY <1>1, <2>1, <2>3
<1> QED
  BY <1>1, <1>2, <1>3

LEMMA EnterEntry ==
    ASSUME RegistryInv, NEW w \in Workers, Enter(w)
    PROVE  /\ registry' \in [Workers -> Entry]
           /\ registry'[w].status = "idle" /\ registry'[w].device = "known"
           /\ \A v \in Workers \ {w} : registry'[v] = registry[v]
           /\ keptIndex' = keptIndex \ {w}
           /\ IndexDrawn(w)
<1>1. PICK i \in Indices :
        /\ NextIndex(i, w, "known")
        /\ registry' = [registry EXCEPT ![w] =
                [status |-> "idle", suspended |-> FALSE, index |-> i,
                 device |-> "known", heard |-> LostAfter]]
  BY DEF Enter
<1>2. i \in Nat /\ LostAfter \in 0..LostAfter
  BY FS_CardinalityType, RegistryAssumption DEF Indices
<1>3. [status |-> "idle", suspended |-> FALSE, index |-> i,
       device |-> "known", heard |-> LostAfter] \in Entry
  BY <1>2 DEF Entry
<1>4. /\ registry' \in [Workers -> Entry]
      /\ registry'[w].status = "idle" /\ registry'[w].device = "known" /\ registry'[w].index = i
      /\ \A v \in Workers \ {w} : registry'[v] = registry[v]
  BY <1>1, <1>3, RegistryTypeFacts
<1>5. IndexDrawn(w)
  BY <1>1, <1>4 DEF IndexDrawn, NextIndex, Taken
<1> QED
  BY <1>4, <1>5 DEF Enter

LEMMA HandleEventKeeps ==
    ASSUME RegistryInv, NEW w \in Workers, HandleEvent(w)
    PROVE  RegistryInv'
<1> USE RegistryTypeFacts
<1> DEFINE L == {"online", "heartbeat", "offline"}
<1>1. /\ kind' = kind /\ process' = process /\ unreported' = unreported /\ reports' = reports
      /\ registryEvents' \in Nat
      /\ lifecycle' \in [Workers -> Seq(L)]
  <2>1. lifecycle[w] \in Seq(L) /\ lifecycle[w] # <<>>
    BY DEF HandleEvent
  <2> HIDE DEF L
  <2>2. Tail(lifecycle[w]) \in Seq(L)
    BY <2>1, TailType
  <2> USE DEF L
  <2> QED
    BY <2>2 DEF HandleEvent
<1>0. LostAfter \in 0..LostAfter /\ registry[w] \in Entry
  BY RegistryAssumption
<1>2. \/ OnOnline(w) \/ OnHeartbeat(w) \/ OnOffline(w)
  BY DEF HandleEvent
<1>3. CASE Enter(w)
  <2>1. EntryFrame(w)
    BY <1>1, <1>3, EnterEntry DEF EntryFrame
  <2>2. Latest(w)' = "processing" => Latest(w) = "processing"
    BY <1>1, <1>3, EnterEntry DEF Latest
  <2> QED
    BY <1>3, <2>1, <2>2, EnterEntry, EntryKeeps DEF WorkerInv
<1>4. ASSUME NEW e \in Entry, registry' = [registry EXCEPT ![w] = e],
             e.status = "processing" => registry[w].status = "processing",
             e.status = "unknown" => registry[w].status = "unknown",
             e.suspended = registry[w].suspended, e.index = registry[w].index,
             e.device = registry[w].device \/ e.device = "known",
             e.status \in {"idle", "processing"} => KeepIndex(w) /\ registry[w].status # "unknown",
             keptIndex' = keptIndex \/ KeepIndex(w)
      PROVE  RegistryInv'
  <2>1. registry'[w] = e /\ registry' \in [Workers -> Entry] /\ \A v \in Workers \ {w} : registry'[v] = registry[v]
    BY <1>4
  <2>2. /\ keptIndex' \subseteq Workers
        /\ \A v \in Workers \ {w} : v \in keptIndex' <=> v \in keptIndex
    BY <1>4 DEF KeepIndex
  <2>3. EntryFrame(w)
    BY <1>1, <2>1, <2>2 DEF EntryFrame
  <2>4. Latest(w)' = "processing" => Latest(w) = "processing"
    BY <1>1, <1>4, <2>1 DEF Latest
  <2>5. registry'[w].status = "unknown" => ~registry'[w].suspended
    BY <1>4, <2>1 DEF WorkerInv
  <2>6. ASSUME Present(w)', w \notin keptIndex'
        PROVE  registry'[w].device = "known" /\ IndexDrawn(w)
    <3>1. Present(w) /\ w \notin keptIndex
      BY <1>0, <1>4, <2>1, <2>6 DEF Present, KeepIndex, Entry
    <3> QED
      BY <1>4, <2>1, <3>1 DEF WorkerInv, IndexDrawn
  <2> QED
    BY <1>1, <2>3, <2>4, <2>5, <2>6, EntryKeeps DEF WorkerInv
<1>5. CASE OnOnline(w) /\ registry[w].status # "unknown"
  <2> DEFINE e == [registry[w] EXCEPT !.status = "idle", !.device = "known", !.heard = LostAfter]
  <2>1. /\ e \in Entry /\ e.status = "idle" /\ e.suspended = registry[w].suspended
        /\ e.index = registry[w].index /\ e.device = "known"
    BY <1>0 DEF Entry
  <2>2. registry' = [registry EXCEPT ![w] = e] /\ KeepIndex(w)
    BY <1>5 DEF OnOnline, Entry
  <2> QED
    BY <1>4, <1>5, <2>1, <2>2
<1>6. CASE OnHeartbeat(w) /\ registry[w].status # "unknown"
  <2> DEFINE e == [registry[w] EXCEPT !.heard = LostAfter,
                                      !.status = IF @ = "offline" THEN "idle" ELSE @]
  <2>1. /\ e \in Entry /\ e.suspended = registry[w].suspended
        /\ e.index = registry[w].index /\ e.device = registry[w].device
        /\ e.status = IF registry[w].status = "offline" THEN "idle" ELSE registry[w].status
    BY <1>0 DEF Entry
  <2>2. registry' = [registry EXCEPT ![w] = e] /\ KeepIndex(w)
    BY <1>6 DEF OnHeartbeat, Entry
  <2> HIDE DEF e
  <2> QED
    BY <1>4, <1>6, <2>1, <2>2
<1>7. CASE OnOffline(w)
  <2> DEFINE e == [registry[w] EXCEPT !.status = IF @ = "unknown" THEN @ ELSE "offline"]
  <2>1. /\ e \in Entry /\ e.suspended = registry[w].suspended
        /\ e.index = registry[w].index /\ e.device = registry[w].device
        /\ e.status = IF registry[w].status = "unknown" THEN "unknown" ELSE "offline"
    BY <1>0 DEF Entry
  <2>2. registry' = [registry EXCEPT ![w] = e] /\ keptIndex' = keptIndex
    BY <1>7 DEF OnOffline, Entry
  <2> HIDE DEF e
  <2> QED
    BY <1>4, <1>7, <2>1, <2>2
<1> QED
  BY <1>2, <1>3, <1>5, <1>6, <1>7 DEF OnOnline, OnHeartbeat

LEMMA HandleReportKeeps ==
    ASSUME RegistryInv, NEW w \in Workers, HandleReport(w)
    PROVE  RegistryInv'
<1> USE RegistryTypeFacts
<1> DEFINE R == {"processing", "idle"}
<1> DEFINE status == Head(reports[w])
<1>1. /\ Tail(reports[w]) \in Seq(R) /\ status \in R
      /\ IF Tail(reports[w]) = <<>> THEN status = reports[w][Len(reports[w])]
           ELSE Tail(reports[w])[Len(Tail(reports[w]))] = reports[w][Len(reports[w])]
  <2>1. reports[w] \in Seq(R) /\ reports[w] # <<>>
    BY DEF HandleReport
  <2> HIDE DEF R
  <2> QED
    BY <2>1, TailType
<1> HIDE DEF status
<1>2. /\ kind' = kind /\ process' = process /\ unreported' = unreported /\ lifecycle' = lifecycle
      /\ registryEvents' \in Nat
      /\ reports' = [reports EXCEPT ![w] = Tail(@)] /\ reports[w] # <<>>
      /\ Update(w, status)
  BY DEF HandleReport, status
<1>3. /\ reports' \in [Workers -> Seq(R)] /\ reports'[w] = Tail(reports[w])
      /\ \A v \in Workers \ {w} : reports'[v] = reports[v]
  BY <1>1, <1>2
<1>4. PICK e \in Entry : /\ registry' = [registry EXCEPT ![w] = e] /\ e.status = status
                         /\ e.index = registry[w].index /\ e.device = registry[w].device
  <2> DEFINE e == [registry[w] EXCEPT !.status = status, !.heard = LostAfter]
  <2>1. LostAfter \in 0..LostAfter /\ registry[w] \in Entry
    BY RegistryAssumption
  <2>2. /\ e \in Entry /\ e.status = status
        /\ e.index = registry[w].index /\ e.device = registry[w].device
    BY <1>1, <2>1 DEF Entry
  <2>3. registry' = [registry EXCEPT ![w] = e]
    BY <1>2, <2>1 DEF Update, Entry
  <2> QED
    BY <2>2, <2>3
<1>5. /\ registry' \in [Workers -> Entry] /\ registry'[w] = e
      /\ \A v \in Workers \ {w} : registry'[v] = registry[v]
  BY <1>4
<1>6. /\ keptIndex' \subseteq Workers
      /\ \A v \in Workers \ {w} : v \in keptIndex' <=> v \in keptIndex
      /\ w \notin keptIndex' => Present(w) /\ w \notin keptIndex
  BY <1>2 DEF Update
<1>7. EntryFrame(w)
  BY <1>2, <1>3, <1>5, <1>6 DEF EntryFrame
<1>8. Latest(w)' = Latest(w)
  BY <1>1, <1>2, <1>3, <1>4, <1>5 DEF Latest
<1>9. registry'[w].status # "unknown"
  BY <1>1, <1>4, <1>5
<1>10. w \notin keptIndex' => registry'[w].device = "known" /\ IndexDrawn(w)
  BY <1>4, <1>5, <1>6 DEF WorkerInv, IndexDrawn
<1> QED
  BY <1>7, <1>8, <1>9, <1>10, EntryKeeps DEF WorkerInv

(* The buttons, the liveness loop and a restart touch no thread.           *)
LEMMA OperatorsKeep ==
    ASSUME RegistryInv,
           \/ \E w \in Workers, on \in BOOLEAN : SuspendWorker(w, on)
           \/ CheckLiveness \/ RegistryLost
    PROVE  RegistryInv'
<1> USE RegistryTypeFacts
<1>1. UNCHANGED workerVars /\ unreported' = unreported /\ registryEvents' \in Nat
  BY RegistryEventType DEF SuspendWorker, CheckLiveness, RegistryLost
<1>2. ASSUME registry' \in [Workers -> Entry], keptIndex' = keptIndex,
             \A w \in Workers : /\ registry'[w].index = registry[w].index
                                /\ registry'[w].device = registry[w].device
                                /\ registry'[w].status \in {registry[w].status, "offline"}
                                /\ registry'[w].status = "unknown"
                                        => registry'[w].suspended = registry[w].suspended
      PROVE  RegistryInv'
  <2>1. RegistryTypeOK'
    BY <1>1, <1>2 DEF RegistryInv, RegistryTypeOK, workerVars, Entry
  <2>2. ASSUME NEW w \in Workers PROVE WorkerInv(w)' /\ (Present(w)' => Present(w))
    <3>1. Present(w)' => Present(w)
      BY <1>2 DEF Present
    <3>2. Latest(w)' = "processing" => Latest(w) = "processing"
      BY <1>1, <1>2 DEF Latest, workerVars
    <3>3. WorkerInv(w)
      OBVIOUS
    <3>4. registry'[w].status = "unknown" => ~registry'[w].suspended
      BY <1>2, <3>3 DEF WorkerInv
    <3> QED
      BY <1>1, <1>2, <3>1, <3>2, <3>3, <3>4 DEF WorkerInv, workerVars
  <2>3. IndicesClashOnlyIfKept'
    BY <1>1, <1>2, <2>2 DEF RegistryInv, IndicesClashOnlyIfKept, workerVars
  <2> QED
    BY <2>1, <2>2, <2>3 DEF RegistryInv
<1>3. ASSUME NEW w \in Workers, NEW on \in BOOLEAN, SuspendWorker(w, on) PROVE RegistryInv'
  <2> DEFINE e == [registry[w] EXCEPT !.suspended = on]
  <2>1. /\ e \in Entry /\ e.index = registry[w].index /\ e.device = registry[w].device
        /\ e.status = registry[w].status
    BY DEF Entry
  <2>2. registry' = [registry EXCEPT ![w] = e] /\ keptIndex' = keptIndex /\ registry[w].status # "unknown"
    BY <1>3 DEF SuspendWorker, Entry
  <2> HIDE DEF e
  <2> QED
    BY <1>2, <2>1, <2>2
<1>4. CASE CheckLiveness
  <2>1. ASSUME NEW w \in Workers
        PROVE  /\ registry'[w] \in Entry
               /\ registry'[w].index = registry[w].index
               /\ registry'[w].device = registry[w].device
               /\ registry'[w].status \in {registry[w].status, "offline"}
               /\ registry'[w].status = "unknown" => registry'[w].suspended = registry[w].suspended
    <3>0. registry[w] \in Entry
      OBVIOUS
    <3>1. CASE registry'[w] = registry[w]
      BY <3>0, <3>1 DEF Entry
    <3>2. CASE registry[w].heard > 0 /\ registry'[w] = [registry[w] EXCEPT !.heard = @ - 1]
      <4>1. registry[w].heard - 1 \in 0..LostAfter
        BY <3>0, <3>2, RegistryAssumption DEF Entry
      <4> QED
        BY <3>0, <3>2, <4>1 DEF Entry
    <3>3. CASE registry'[w] = [registry[w] EXCEPT !.status = "offline"]
      BY <3>0, <3>3 DEF Entry
    <3> QED
      BY <1>4, <3>1, <3>2, <3>3 DEF CheckLiveness
  <2>2. registry' \in [Workers -> Entry] /\ keptIndex' = keptIndex
    <3>1. registry' = [w \in Workers |-> registry'[w]]
      BY <1>4 DEF CheckLiveness
    <3> QED
      BY <1>4, <2>1, <3>1 DEF CheckLiveness
  <2> QED
    BY <1>2, <2>1, <2>2
<1>5. CASE RegistryLost
  <2>1. 0 \in 0..LostAfter
    BY RegistryAssumption
  <2>2. registry' = [w \in Workers |-> Unknown] /\ Unknown \in Entry /\ keptIndex' = {}
    BY <1>5, <2>1 DEF RegistryLost, Unknown, Entry
  <2>3. RegistryTypeOK'
    BY <1>1, <2>2 DEF RegistryInv, RegistryTypeOK, workerVars, Entry
  <2>4. ASSUME NEW w \in Workers PROVE WorkerInv(w)' /\ ~Present(w)'
    <3>1. registry'[w].status = "unknown" /\ ~registry'[w].suspended /\ ~Present(w)'
      BY <2>2 DEF Unknown, Present
    <3>2. Latest(w)' = "processing" => Latest(w) = "processing"
      BY <1>1, <3>1 DEF Latest, workerVars
    <3> QED
      BY <1>1, <3>1, <3>2 DEF WorkerInv, workerVars
  <2>5. IndicesClashOnlyIfKept'
    BY <2>4 DEF IndicesClashOnlyIfKept
  <2> QED
    BY <2>3, <2>4, <2>5 DEF RegistryInv
<1> QED
  BY <1>3, <1>4, <1>5

LEMMA RegistryStep == RegistryInv /\ [RegistryNext]_registryVars => RegistryInv'
<1> SUFFICES ASSUME RegistryInv, [RegistryNext]_registryVars PROVE RegistryInv'
  OBVIOUS
<1>1. CASE UNCHANGED registryVars
  BY <1>1 DEF registryVars, workerVars, RegistryInv, RegistryTypeOK, WorkerInv, Latest, Present,
     IndicesClashOnlyIfKept
<1>2. ASSUME NEW w \in Workers, WorkerStep(w) \/ ConsumerStep(w) PROVE RegistryInv'
  BY <1>2, ThreadsKeep, JobsKeep, HandleEventKeeps, HandleReportKeeps
     DEF WorkerStep, HeartbeatStep, ConsumerStep
<1> QED
  BY <1>1, <1>2, OperatorsKeep DEF RegistryNext

-------------------------------------------------------------------------------
LEMMA RegistryAlways == RegistrySpec => []RegistryInv
  BY RegistryInitInv, RegistryStep, PTL DEF RegistrySpec

(* Every variable of the registry and of the workers keeps its type.       *)
THEOREM RegistryTypeCorrect == RegistrySpec => []RegistryTypeOK
<1>1. RegistryInv => RegistryTypeOK
  BY DEF RegistryInv
<1> QED
  BY <1>1, RegistryAlways, PTL

(* _next_index: two workers that are present clash only where one entered  *)
(* through a report or came back from offline.                             *)
THEOREM IndicesAreDrawnApart == RegistrySpec => []IndicesClashOnlyIfKept
<1>1. RegistryInv => IndicesClashOnlyIfKept
  BY DEF RegistryInv
<1> QED
  BY <1>1, RegistryAlways, PTL

(* A worker that the registry shows at work, and of which nothing is on    *)
(* its way, is at work, unless its last job ended without a report.        *)
THEOREM BusyIsTrue == RegistrySpec => []ShownBusyIsBusy
<1>1. RegistryInv => ShownBusyIsBusy
  BY DEF RegistryInv, WorkerInv, ShownBusyIsBusy, Latest
<1> QED
  BY <1>1, RegistryAlways, PTL

LEMMA SuspensionStep ==
    ASSUME RegistryInv, RegistryNext, NEW w \in Workers, Suspended(w)
    PROVE  \/ Suspended(w)'
           \/ SuspendWorker(w, FALSE) \/ StopRequested(w) \/ WorkerCrashes(w) \/ RegistryLost
<1> USE RegistryTypeFacts
<1>0. registry[w].status # "unknown"
  BY DEF Suspended, WorkerInv
<1>1. ASSUME NEW v \in Workers, WorkerStep(v), v # w
      PROVE  Suspended(w)'
  <2>1. kind' = kind /\ registry' = registry
    BY <1>1 DEF WorkerStep, HeartbeatStep, Wake, Beat, PollSuspension, PollFails, WorkerStarts,
       WorkerExits, WorkerCrashes, TakeJob, FinishJob, StopRequested, PublishOffline
  <2>2. process'[w] = process[w]
    BY <1>1 DEF WorkerStep, HeartbeatStep, Wake, Beat, PollSuspension, PollFails, WorkerStarts,
       WorkerExits, WorkerCrashes, TakeJob, FinishJob, StopRequested, PublishOffline
  <2> QED
    BY <2>1, <2>2 DEF Suspended
<1>2. CASE WorkerStep(w)
  <2>1. CASE Wake(w) \/ Beat(w) \/ PollSuspension(w) \/ PollFails(w)
    <3>1. /\ kind' = kind /\ registry' = registry
          /\ process'[w].main = process[w].main /\ process'[w].busy = process[w].busy
          /\ process'[w].suspended \in {process[w].suspended, registry[w].suspended}
      <4>0. process \in [Workers -> Process] /\ process[w] \in Process
        OBVIOUS
      <4>1. CASE Wake(w) \/ Beat(w) \/ PollFails(w)
        BY <4>0, <4>1 DEF Wake, Beat, PollFails, Process
      <4>2. CASE PollSuspension(w)
        BY <4>0, <4>2 DEF PollSuspension, Process
      <4> QED
        BY <2>1, <4>1, <4>2
    <3> QED
      BY <3>1 DEF Suspended
  <2>2. ~WorkerStarts(w) /\ ~WorkerExits(w) /\ ~TakeJob(w) /\ ~FinishJob(w) /\ ~PublishOffline(w)
    BY DEF Suspended, WorkerStarts, WorkerExits, TakeJob, Accepts, FinishJob, PublishOffline
  <2> QED
    BY <1>2, <2>1, <2>2 DEF WorkerStep, HeartbeatStep
<1>3. ASSUME kind' = kind, process' = process, registry'[w].suspended = registry[w].suspended
      PROVE  Suspended(w)'
  BY <1>3 DEF Suspended
<1>4. ASSUME NEW v \in Workers, ConsumerStep(v)
      PROVE  Suspended(w)'
  <2>1. kind' = kind /\ process' = process
    BY <1>4 DEF ConsumerStep, HandleEvent, HandleReport
  <2>2. CASE v # w
    <3>1. registry'[w] = registry[w]
      BY <1>4, <2>2 DEF ConsumerStep, HandleEvent, OnOnline, OnHeartbeat, OnOffline, Enter,
         HandleReport, Update
    <3> QED
      BY <1>3, <2>1, <3>1
  <2>3. CASE v = w
    <3>0. registry \in [Workers -> Entry] /\ registry[w] \in Entry
      OBVIOUS
    <3>1. registry'[w].suspended = registry[w].suspended
      <4>1. CASE HandleReport(w)
        BY <3>0, <4>1 DEF HandleReport, Update, Entry
      <4>2. CASE OnOnline(w)
        BY <1>0, <3>0, <4>2 DEF OnOnline, Entry
      <4>3. CASE OnHeartbeat(w)
        BY <1>0, <3>0, <4>3 DEF OnHeartbeat, Entry
      <4>4. CASE OnOffline(w)
        BY <3>0, <4>4 DEF OnOffline, Entry
      <4> QED
        BY <1>4, <2>3, <4>1, <4>2, <4>3, <4>4 DEF ConsumerStep, HandleEvent
    <3> QED
      BY <1>3, <2>1, <3>1
  <2> QED
    BY <2>2, <2>3
<1>5. ASSUME NEW v \in Workers, NEW on \in BOOLEAN, SuspendWorker(v, on)
      PROVE  Suspended(w)' \/ SuspendWorker(w, FALSE)
  <2>1. kind' = kind /\ process' = process
    BY <1>5 DEF SuspendWorker, workerVars
  <2>2. CASE v # w
    BY <1>3, <1>5, <2>1, <2>2 DEF SuspendWorker
  <2>3. CASE v = w
    <3>1. on = FALSE
      BY <1>5, <2>3 DEF SuspendWorker, Suspended
    <3> QED
      BY <1>5, <2>3, <3>1
  <2> QED
    BY <2>2, <2>3
<1>6. ASSUME CheckLiveness
      PROVE  Suspended(w)'
  <2>1. registry'[w].suspended = registry[w].suspended
    BY <1>6 DEF CheckLiveness, Entry
  <2> QED
    BY <1>3, <1>6, <2>1 DEF CheckLiveness, workerVars
<1> QED
  BY <1>1, <1>2, <1>4, <1>5, <1>6 DEF RegistryNext

(* A suspension that has reached an idle md-worker holds (worker_registry, *)
(* on_online keeps it): only the button, a stop of the worker and a restart *)
(* of the orchestrator end it.                                             *)
THEOREM SuspensionIsKept == RegistrySpec => SuspensionHolds
<1>1. RegistryInv /\ [RegistryNext]_registryVars =>
      [\A w \in Workers : Suspended(w) =>
            \/ Suspended(w)'
            \/ SuspendWorker(w, FALSE) \/ StopRequested(w) \/ WorkerCrashes(w)
            \/ RegistryLost]_registryVars
  BY SuspensionStep
<1> QED
  BY <1>1, RegistryAlways, PTL DEF RegistrySpec, SuspensionHolds
================================================================================
