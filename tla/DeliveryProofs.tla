---------------------------- MODULE DeliveryProofs -----------------------------
(***************************************************************************)
(* The pipeline implements JobDelivery wherever nothing is redelivered,    *)
(* resumed or restarted.                                                   *)
(***************************************************************************)
EXTENDS JobPipelineProofs

(* What DeliversAtMostOnce leaves out: a crash or a lost connection brings *)
(* a message again, and a resume or a restart submits a job anew. Every    *)
(* other fault and operation is allowed.                                   *)
Repeating == {"md_crash", "oc_crash", "conn_lost", "orch_crash", "resume", "bulk_resume"}
NothingRepeats == Disturbances \cap Repeating = {}

-------------------------------------------------------------------------------
(* Where a job is: in a queue, with the publisher that owes it, in hand at *)
(* a worker, or in a result.                                               *)

Places == Queues \cup {"publish", "md", "oc", "results"}
IsAt(j, p) ==
    \/ p \in Queues /\ j \in Listed(p)
    \/ p = "publish" /\ j \in ingesting
    \/ p = "md" /\ InMD(j)
    \/ p = "oc" /\ InOC(j)
    \/ p = "results" /\ InResults(j)

InOnePlaceAtMost ==
    \A j \in Jobs : \A p, q \in Places : IsAt(j, p) /\ IsAt(j, q) => p = q

(* And it is there once.                                                   *)
HoldsMD(w) == md[w].pc \in {"taken", "accepted", "started"}
HoldsOC(w) == oc[w].pc \in {"started", "failing"}

OneMessage ==
    /\ \A q \in Queues : \A m \in Msg : queue[q][m] <= 1
    /\ \A q \in Queues : \A m, n \in Msg :
          Ready(q, m) /\ Ready(q, n) /\ m.job = n.job => m = n
OneMD ==
    \A v, w \in MDWorkers : HoldsMD(v) /\ HoldsMD(w) /\ md[v].msg.job = md[w].msg.job => v = w
OneOC ==
    \A v, w \in OCWorkers : HoldsOC(v) /\ HoldsOC(w) /\ oc[v].msg.job = oc[w].msg.job => v = w
OneFinal ==
    \A i, k \in 1..Len(results) : results[i].kind = "final" /\ results[k] = results[i] => i = k
OneCopy == OneMessage /\ OneMD /\ OneOC /\ OneFinal

(* The result of j has been committed and is yet to be acknowledged.       *)
Applied(j) == consumer.pc = "committed" /\ Final /\ Current.job = j

(* The orchestrator never stops, no request submits a job anew, and the    *)
(* consumer renames only for a final result.                               *)
Calm ==
    /\ orch.phase = "up"
    /\ \A r \in Requests : requests[r].op \notin {"resume", "publish", "bulk_resume"}
    /\ consumer.pc = "renamed" => Final

(* A job that has its result, or was given up, is nowhere any more, but    *)
(* for the result itself before it is acknowledged.                        *)
SettledOnce ==
    \A j \in Jobs :
        /\ rows[j] <= 1
        /\ rows[j] > 0 \/ abandoned[j] # {} => Applied(j) \/ \A p \in Places : ~IsAt(j, p)
        /\ status[j] = "absent" =>
              rows[j] = 0 /\ abandoned[j] = {} /\ \A p \in Places : ~IsAt(j, p)

DeliveryInv == TableInv /\ Calm /\ OneCopy /\ InOnePlaceAtMost /\ SettledOnce

-------------------------------------------------------------------------------
(* What the operations on queues, results and hands do to places.          *)

LEMMA ListedReady ==
    ASSUME NEW q \in Queues, NEW j \in Jobs
    PROVE  /\ j \in Listed(q) <=> \E m \in Msg : m.job = j /\ Ready(q, m)
           /\ j \in Listed(q)' <=> \E m \in Msg : m.job = j /\ Ready(q, m)'
<1>1. \A m \in Msg : m.job = j => m.path \in Paths /\ m = [job |-> j, path |-> m.path]
  BY DEF Msg
<1>2. \A p \in Paths : [job |-> j, path |-> p] \in Msg /\ [job |-> j, path |-> p].job = j
  BY DEF Msg
<1> QED
  BY <1>1, <1>2 DEF Listed, Ready

LEMMA DeliverPlaces ==
    ASSUME queue \in [Queues -> [Msg -> Nat]], OneMessage,
           NEW q \in Queues, NEW m \in Msg, Ready(q, m), Deliver(q, m)
    PROVE  /\ OneMessage'
           /\ m.job \in Listed(q)
           /\ \A p \in Queues : \A k \in Jobs :
                 k \in Listed(p)' <=> k \in Listed(p) /\ ~(p = q /\ k = m.job)
<1>1. \A p \in Queues : \A n \in Msg :
         Ready(p, n)' <=> Ready(p, n) /\ ~(p = q /\ n = m)
  BY DEF Deliver, Ready, OneMessage
<1>2. OneMessage'
  <2>1. \A p \in Queues : \A n \in Msg : queue'[p][n] <= queue[p][n]
    BY DEF Deliver, Ready, OneMessage
  <2>2. queue' \in [Queues -> [Msg -> Nat]]
    BY DeliverType
  <2> QED
    BY <1>1, <2>1, <2>2 DEF OneMessage
<1>3. m.job \in Jobs
  BY DEF Msg
<1> QED
  BY <1>1, <1>2, <1>3, ListedReady DEF OneMessage

LEMMA PublishPlaces ==
    ASSUME queue \in [Queues -> [Msg -> Nat]], OneMessage,
           NEW q \in Queues, NEW m \in Msg, m.job \notin Listed(q), Publish(q, m)
    PROVE  /\ OneMessage'
           /\ \A p \in Queues : \A k \in Jobs :
                 k \in Listed(p)' <=> k \in Listed(p) \/ (p = q /\ k = m.job)
<1>0. m.job \in Jobs
  BY DEF Msg
<1>1. \A p \in Queues : \A n \in Msg :
         Ready(p, n)' <=> Ready(p, n) \/ (p = q /\ n = m)
  BY DEF Publish, Ready
<1>2. \A n \in Msg : n.job = m.job => ~Ready(q, n)
  BY <1>0, ListedReady
<1>3. OneMessage'
  <2>1. \A p \in Queues : \A n \in Msg : queue'[p][n] <= 1
    BY <1>2 DEF Publish, Ready, OneMessage
  <2>2. \A p \in Queues : \A n, o \in Msg :
           Ready(p, n)' /\ Ready(p, o)' /\ n.job = o.job => n = o
    BY <1>1, <1>2 DEF OneMessage
  <2> QED
    BY <2>1, <2>2 DEF OneMessage
<1> QED
  BY <1>0, <1>1, <1>3, ListedReady

LEMMA TransferPlaces ==
    ASSUME queue \in [Queues -> [Msg -> Nat]], OneMessage,
           NEW from \in Queues, NEW to \in Queues, from # to,
           NEW m \in Msg, Ready(from, m), m.job \notin Listed(to), Transfer(from, to, m)
    PROVE  /\ OneMessage'
           /\ m.job \in Listed(from)
           /\ \A p \in Queues : \A k \in Jobs :
                 k \in Listed(p)' <=> \/ p = to /\ k = m.job
                                      \/ k \in Listed(p) /\ ~(p = from /\ k = m.job)
<1>0. m.job \in Jobs
  BY DEF Msg
<1>1. /\ queue'[from] = [queue[from] EXCEPT ![m] = @ - 1]
      /\ queue'[to] = [queue[to] EXCEPT ![m] = @ + 1]
      /\ \A p \in Queues \ {from, to} : queue'[p] = queue[p]
  <2>1. /\ from \in DOMAIN queue /\ to \in DOMAIN queue
        /\ queue' = [queue EXCEPT ![from] = [queue[from] EXCEPT ![m] = @ - 1],
                                  ![to] = [queue[to] EXCEPT ![m] = @ + 1]]
    BY DEF Transfer
  <2> QED
    BY <2>1
<1>2. /\ queue'[from][m] = queue[from][m] - 1
      /\ queue'[to][m] = queue[to][m] + 1
      /\ \A p \in Queues : \A n \in Msg :
            ~(p \in {from, to} /\ n = m) => queue'[p][n] = queue[p][n]
  BY <1>1
<1>3. queue[from][m] = 1
  BY DEF Ready, OneMessage
<1>4. \A n \in Msg : n.job = m.job => ~Ready(to, n)
  BY <1>0, ListedReady
<1>5. queue[to][m] = 0
  BY <1>4 DEF Ready
<1>6. \A p \in Queues : \A n \in Msg :
         Ready(p, n)' <=> \/ p = to /\ n = m
                          \/ Ready(p, n) /\ ~(p = from /\ n = m)
  BY <1>2, <1>3, <1>5 DEF Ready
<1>7. OneMessage'
  <2>1. \A p \in Queues : \A n \in Msg : queue'[p][n] <= 1
    BY <1>2, <1>3, <1>5 DEF OneMessage
  <2>2. \A p \in Queues : \A n, o \in Msg :
           Ready(p, n)' /\ Ready(p, o)' /\ n.job = o.job => n = o
    BY <1>4, <1>6 DEF OneMessage
  <2> QED
    BY <2>1, <2>2 DEF OneMessage
<1> QED
  BY <1>0, <1>6, <1>7, ListedReady DEF OneMessage

LEMMA PurgePlaces ==
    ASSUME queue \in [Queues -> [Msg -> Nat]], OneMessage, NEW q \in Queues, Purge(q)
    PROVE  /\ OneMessage'
           /\ \A p \in Queues : \A k \in Jobs :
                 k \in Listed(p)' <=> k \in Listed(p) /\ p # q
<1>1. \A p \in Queues : \A n \in Msg : queue'[p][n] = IF p = q THEN 0 ELSE queue[p][n]
  BY DEF Purge
<1>2. \A p \in Queues : \A n \in Msg : Ready(p, n)' <=> Ready(p, n) /\ p # q
  BY <1>1 DEF Ready
<1>3. OneMessage'
  BY <1>1, <1>2 DEF OneMessage
<1> QED
  BY <1>2, <1>3, ListedReady

LEMMA ReportPlaces ==
    ASSUME results \in Seq(Result), OneFinal, NEW j \in Jobs, NEW kind \in ResultKinds,
           kind = "final" => ~InResults(j), Report(j, kind)
    PROVE  /\ OneFinal'
           /\ \A k \in Jobs : InResults(k)' <=> InResults(k) \/ (kind = "final" /\ k = j)
<1> DEFINE e == [job |-> j, kind |-> kind]
<1>1. /\ e \in Result /\ results' = Append(results, e)
      /\ Len(results') = Len(results) + 1 /\ results'[Len(results) + 1] = e
      /\ \A i \in 1..Len(results) : results'[i] = results[i] /\ results[i] \in Result
  <2>1. e \in Result /\ results' = Append(results, e)
    BY DEF Report, Result
  <2> HIDE DEF e
  <2> QED
    BY <2>1
<1>2. e.job = j /\ e.kind = kind
  OBVIOUS
<1>3. kind = "final" => \A i \in 1..Len(results) : results[i] # e
  BY DEF InResults
<1>4. \A i \in 1..Len(results') : i \in 1..Len(results) \/ i = Len(results) + 1
  BY <1>1
<1>5. Len(results) \in Nat
  OBVIOUS
<1> HIDE DEF e
<1>6. OneFinal'
  BY <1>1, <1>2, <1>3, <1>4 DEF OneFinal
<1>7. \A k \in Jobs : InResults(k)' <=> InResults(k) \/ (kind = "final" /\ k = j)
  <2>1. \A k \in Jobs : [job |-> k, kind |-> "final"] = e <=> kind = "final" /\ k = j
    BY DEF e
  <2> QED
    BY <1>1, <1>4, <1>5, <2>1 DEF InResults
<1> QED
  BY <1>6, <1>7

(* Acknowledging the head takes a final result away, and no other moves.   *)
LEMMA TailPlaces ==
    ASSUME results \in Seq(Result), results # <<>>, OneFinal, results' = Tail(results)
    PROVE  /\ OneFinal'
           /\ Final => InResults(Current.job)
           /\ \A k \in Jobs : InResults(k)' <=> InResults(k) /\ ~(Final /\ Current.job = k)
<1>1. /\ Len(results) \in Nat /\ Len(results) > 0 /\ Len(results') = Len(results) - 1
      /\ \A i \in 1..Len(results') : results'[i] = results[i + 1]
      /\ Current = results[1] /\ Current \in Result
  BY DEF Current
<1>2. \A i \in 1..Len(results) : i = 1 \/ (i - 1 \in 1..Len(results') /\ results'[i - 1] = results[i])
  BY <1>1
<1>3. \A i \in 1..Len(results') : i + 1 \in 1..Len(results) /\ i + 1 # 1
  BY <1>1
<1>4. OneFinal'
  BY <1>1, <1>3 DEF OneFinal
<1>5. \A k \in Jobs : Current = [job |-> k, kind |-> "final"] <=> Final /\ Current.job = k
  BY <1>1 DEF Final, Result
<1>6. Final => InResults(Current.job)
  BY <1>1, <1>5 DEF InResults, Result
<1>7. ASSUME NEW k \in Jobs
      PROVE  InResults(k)' <=> InResults(k) /\ ~(Final /\ Current.job = k)
  <2> DEFINE e == [job |-> k, kind |-> "final"]
  <2>1. InResults(k) <=> \E i \in 1..Len(results) : results[i] = e
    BY DEF InResults
  <2>2. InResults(k)' <=> \E i \in 1..Len(results') : results'[i] = e
    BY DEF InResults
  <2>3. e.kind = "final"
    OBVIOUS
  <2>4. Current = e <=> Final /\ Current.job = k
    BY <1>5
  <2> HIDE DEF e
  <2>5. InResults(k)' => InResults(k) /\ Current # e
    BY <1>1, <1>3, <2>1, <2>2, <2>3 DEF OneFinal
  <2>6. InResults(k) /\ Current # e => InResults(k)'
    BY <1>1, <1>2, <2>1, <2>2
  <2> QED
    BY <2>4, <2>5, <2>6
<1> QED
  BY <1>4, <1>6, <1>7

-------------------------------------------------------------------------------
(* A step in terms of places. Job j is taken from a and put at b; where    *)
(* there is none to take it from or to put it at, that is "nowhere".       *)

Moved(j, a, b) ==
    \A k \in Jobs : \A p \in Places :
        IsAt(k, p)' <=> (k = j /\ p = b) \/ (IsAt(k, p) /\ ~(k = j /\ p = a))
Still == \A k \in Jobs : \A p \in Places : IsAt(k, p)' <=> IsAt(k, p)

Describing == {"motion_results", "dlx.motion_results", "oc", "results"}

RowsExist == \A k \in Jobs : \A s \in Gone : status'[k] = s <=> status[k] = s
AppliedStays == \A k \in Jobs : Applied(k) => Applied(k)'

Rest == Still /\ RowsExist /\ AppliedStays /\ UNCHANGED <<rows, abandoned>>

Forward ==
    /\ \E j \in Jobs : \E a, b \in Places :
          IsAt(j, a) /\ Moved(j, a, b) /\ (a \in Describing => b \in Describing)
    /\ RowsExist /\ AppliedStays /\ UNCHANGED <<rows, abandoned>>

Enter ==
    /\ \E j \in Jobs : /\ status[j] = "absent" /\ status' = [status EXCEPT ![j] = "queued"]
                       /\ Moved(j, "nowhere", "publish")
    /\ AppliedStays /\ UNCHANGED <<rows, abandoned>>

GiveUp ==
    /\ \E p \in Places : \E S \in SUBSET Jobs :
          /\ \A k \in S : IsAt(k, p) /\ ~Applied(k) /\ abandoned'[k] # {}
          /\ \A k \in Jobs \ S : abandoned'[k] = abandoned[k]
          /\ \A k \in Jobs : \A q \in Places :
                IsAt(k, q)' <=> IsAt(k, q) /\ ~(k \in S /\ q = p)
    /\ RowsExist /\ AppliedStays /\ UNCHANGED rows

Store ==
    /\ \E j \in Jobs :
          /\ IsAt(j, "results") /\ Applied(j)' /\ status[j] \notin Gone
          /\ rows' = [rows EXCEPT ![j] = @ + 1]
    /\ \A k \in Jobs : ~Applied(k)
    /\ Still /\ RowsExist /\ UNCHANGED abandoned

Forget ==
    /\ \E j \in Jobs : Applied(j) /\ IsAt(j, "results") /\ Moved(j, "results", "nowhere")
    /\ RowsExist /\ UNCHANGED <<rows, abandoned>>

Erase ==
    /\ \E S \in SUBSET Jobs :
          /\ status' = [k \in Jobs |-> IF k \in S /\ status[k] \notin Gone
                                      THEN "deleted" ELSE status[k]]
          /\ rows' = [k \in Jobs |-> IF k \in S THEN 0 ELSE rows[k]]
    /\ Still /\ AppliedStays /\ UNCHANGED abandoned

Turn == Rest \/ Forward \/ Enter \/ GiveUp \/ Store \/ Forget \/ Erase

LEMMA TurnKeepsPlaces ==
    ASSUME Shape, InOnePlaceAtMost, SettledOnce, Turn
    PROVE  InOnePlaceAtMost' /\ SettledOnce'
<1> USE DEF InOnePlaceAtMost, SettledOnce, RowsExist, AppliedStays
<1>0. /\ status \in [Jobs -> Status] /\ rows \in [Jobs -> Nat]
      /\ "absent" \in Gone /\ "publish" \in Places /\ "results" \in Places
  BY DEF Shape, TypeOK, Gone, Places
<1>1. CASE Rest
  BY <1>0, <1>1 DEF Rest, Still
<1>2. CASE Forward
  <2>1. PICK j \in Jobs, a, b \in Places : IsAt(j, a) /\ Moved(j, a, b)
    BY <1>2 DEF Forward
  <2>2. \A k \in Jobs : \A p \in Places :
           IsAt(k, p)' <=> IF k = j THEN p = b ELSE IsAt(k, p)
    BY <2>1 DEF Moved
  <2> QED
    BY <1>0, <1>2, <2>1, <2>2 DEF Forward
<1>3. CASE Enter
  <2>1. PICK j \in Jobs : /\ status[j] = "absent" /\ status' = [status EXCEPT ![j] = "queued"]
                          /\ Moved(j, "nowhere", "publish")
    BY <1>3 DEF Enter
  <2>2. \A k \in Jobs : \A p \in Places :
           IsAt(k, p)' <=> IF k = j THEN p = "publish" ELSE IsAt(k, p)
    BY <2>1 DEF Moved
  <2> QED
    BY <1>0, <1>3, <2>1, <2>2 DEF Enter
<1>4. CASE GiveUp
  BY <1>0, <1>4 DEF GiveUp
<1>5. CASE Store
  BY <1>0, <1>5 DEF Store, Still
<1>6. CASE Forget
  <2>1. PICK j \in Jobs : Applied(j) /\ IsAt(j, "results") /\ Moved(j, "results", "nowhere")
    BY <1>6 DEF Forget
  <2>2. \A k \in Jobs : Applied(k) => k = j
    BY <2>1 DEF Applied
  <2>3. "nowhere" \notin Places
    BY DEF Places, Queues
  <2>4. \A k \in Jobs : \A p \in Places :
           IsAt(k, p)' <=> IsAt(k, p) /\ ~(k = j /\ p = "results")
    BY <2>1, <2>3 DEF Moved
  <2>5. \A p \in Places : IsAt(j, p) => p = "results"
    BY <1>0, <2>1
  <2> QED
    BY <1>0, <1>6, <2>2, <2>4, <2>5 DEF Forget
<1>7. CASE Erase
  BY <1>0, <1>7 DEF Erase, Still
<1> QED
  BY <1>1, <1>2, <1>3, <1>4, <1>5, <1>6, <1>7 DEF Turn

-------------------------------------------------------------------------------
(* The stage of a job.                                                     *)

LEMMA DescribedAt ==
    ASSUME NEW j \in Jobs
    PROVE  /\ Described(j) <=> \E p \in Describing : IsAt(j, p)
           /\ Described(j)' <=> \E p \in Describing : IsAt(j, p)'
  BY DEF Described, Describing, IsAt, Queues

StageLaw ==
    \A j \in Jobs :
        /\ StageOf(j) = "absent" <=> status[j] = "absent"
        /\ StageOf(j) = "removed" <=> status[j] = "deleted"
        /\ StageOf(j) = "recorded" <=> status[j] \notin Gone /\ rows[j] = 1
        /\ StageOf(j) = "dropped" <=> status[j] \notin Gone /\ rows[j] = 0 /\ abandoned[j] # {}
        /\ StageOf(j) = "described" <=> /\ status[j] \notin Gone /\ rows[j] = 0
                                       /\ abandoned[j] = {} /\ Described(j)
        /\ StageOf(j) = "submitted" <=> /\ status[j] \notin Gone /\ rows[j] = 0
                                       /\ abandoned[j] = {} /\ ~Described(j)
        /\ StageOf(j) \in Delivery!Stages

LEMMA StageLawNow == Shape /\ SettledOnce => StageLaw
<1> SUFFICES ASSUME Shape, SettledOnce, NEW j \in Jobs, rows[j] \in {0, 1}
             PROVE  StageLaw!(j)
  BY DEF StageLaw, Shape, TypeOK, SettledOnce
<1> QED
  BY DEF StageOf, Gone, Delivery!Stages

LEMMA StageLawNext == (Shape /\ SettledOnce)' => StageLaw'
  BY StageLawNow, PTL

(* The stages that jobs may take together, and one at a time.              *)
LEMMA TogetherStep ==
    ASSUME NEW from, NEW to, NEW S \in SUBSET Jobs,
           \A k \in S : StageOf(k) \in from /\ StageOf(k)' = to,
           \A k \in Jobs \ S : StageOf(k)' = StageOf(k)
    PROVE  Delivery!Together(from, to)
  BY DEF Delivery!Together

LEMMA SingleStep ==
    ASSUME NEW j \in Jobs, NEW from, NEW to, StageOf(j) \in from, StageOf(j)' = to,
           \A k \in Jobs \ {j} : StageOf(k)' = StageOf(k)
    PROVE  Delivery!Step(j, from, to)
  BY DEF Delivery!Step

LEMMA TurnRefines ==
    ASSUME Shape, Transaction, InOnePlaceAtMost, SettledOnce, Turn,
           Shape', Transaction', SettledOnce'
    PROVE  \/ Delivery!Next
           \/ \A k \in Jobs : StageOf(k)' = StageOf(k)
<1>0. /\ rows \in [Jobs -> Nat] /\ rows' \in [Jobs -> Nat] /\ status \in [Jobs -> Status]
      /\ Describing \subseteq Places /\ "results" \in Describing /\ "publish" \notin Describing
      /\ "publish" \in Places
  BY DEF Shape, TypeOK, Describing, Places, Queues
<1>1. StageLaw /\ StageLaw'
  BY StageLawNow, StageLawNext
<1>2. ASSUME NEW k \in Jobs,
             \A s \in Gone : status'[k] = s <=> status[k] = s,
             \/ status[k] \in Gone
             \/ /\ rows'[k] = rows[k] /\ abandoned'[k] = abandoned[k]
                /\ \/ rows[k] > 0 \/ abandoned[k] # {}
                   \/ Described(k)' <=> Described(k)
      PROVE  StageOf(k)' = StageOf(k)
  <2>1. CASE status[k] \in Gone
    BY <1>1, <1>2, <2>1 DEF StageLaw, Gone
  <2>2. CASE status[k] \notin Gone
    <3>1. status'[k] \notin Gone
      BY <1>2, <2>2
    <3>2. rows[k] = 1 \/ rows[k] = 0
      BY <1>0 DEF SettledOnce
    <3> QED
      BY <1>1, <1>2, <2>2, <3>1, <3>2 DEF StageLaw
  <2> QED
    BY <2>1, <2>2
<1>3. ASSUME NEW k \in Jobs, \A p \in Places : IsAt(k, p)' <=> IsAt(k, p)
      PROVE  Described(k)' <=> Described(k)
  BY <1>0, <1>3, DescribedAt
<1>4. ASSUME NEW k \in Jobs, NEW p \in Places, IsAt(k, p), ~Applied(k)
      PROVE  rows[k] = 0 /\ abandoned[k] = {} /\ status[k] # "absent"
  BY <1>0, <1>4 DEF SettledOnce
<1>5. CASE Rest
  BY <1>2, <1>3, <1>5 DEF Rest, Still, RowsExist
<1>6. CASE Forward
  <2>1. PICK j \in Jobs, a, b \in Places :
           IsAt(j, a) /\ Moved(j, a, b) /\ (a \in Describing => b \in Describing)
    BY <1>6 DEF Forward
  <2>2. /\ \A p \in Places : IsAt(j, p) <=> p = a
        /\ \A p \in Places : IsAt(j, p)' <=> p = b
        /\ \A k \in Jobs \ {j} : \A p \in Places : IsAt(k, p)' <=> IsAt(k, p)
    BY <2>1 DEF Moved, InOnePlaceAtMost
  <2>3. RowsExist /\ UNCHANGED <<rows, abandoned>>
    BY <1>6 DEF Forward
  <2>4. \A k \in Jobs \ {j} : StageOf(k)' = StageOf(k)
    BY <1>2, <1>3, <2>2, <2>3 DEF RowsExist
  <2>5. (Described(j) <=> a \in Describing) /\ (Described(j)' <=> b \in Describing)
    BY <1>0, <2>2, DescribedAt
  <2>6. CASE status[j] \in Gone \/ rows[j] > 0 \/ abandoned[j] # {}
             \/ (Described(j)' <=> Described(j))
    BY <1>2, <2>3, <2>4, <2>6 DEF RowsExist
  <2>7. CASE /\ status[j] \notin Gone /\ rows[j] = 0 /\ abandoned[j] = {}
             /\ ~Described(j) /\ Described(j)'
    <3>1. status'[j] \notin Gone /\ rows'[j] = 0 /\ abandoned'[j] = {}
      BY <2>3, <2>7 DEF RowsExist
    <3>2. StageOf(j) = "submitted" /\ StageOf(j)' = "described"
      BY <1>1, <2>7, <3>1 DEF StageLaw
    <3>3. Delivery!Describe(j)
      BY <2>4, <3>2, SingleStep DEF Delivery!Describe
    <3> QED
      BY <3>3 DEF Delivery!Next
  <2> QED
    BY <1>0, <2>1, <2>5, <2>6, <2>7
<1>7. CASE Enter
  <2>1. PICK j \in Jobs : /\ status[j] = "absent" /\ status' = [status EXCEPT ![j] = "queued"]
                          /\ Moved(j, "nowhere", "publish")
    BY <1>7 DEF Enter
  <2>2. /\ \A p \in Places : IsAt(j, p)' <=> p = "publish"
        /\ \A k \in Jobs \ {j} : \A p \in Places : IsAt(k, p)' <=> IsAt(k, p)
    BY <2>1 DEF Moved, SettledOnce
  <2>3. /\ status'[j] = "queued" /\ rows'[j] = 0 /\ abandoned'[j] = {}
        /\ rows' = rows /\ abandoned' = abandoned
        /\ \A k \in Jobs \ {j} : status'[k] = status[k]
    BY <1>0, <1>7, <2>1 DEF Enter, SettledOnce
  <2>4. ~Described(j)'
    BY <1>0, <2>2, DescribedAt
  <2>5. StageOf(j) = "absent" /\ StageOf(j)' = "submitted"
    BY <1>1, <2>1, <2>3, <2>4 DEF StageLaw, Gone
  <2>6. \A k \in Jobs \ {j} : StageOf(k)' = StageOf(k)
    BY <1>2, <1>3, <2>2, <2>3
  <2>7. Delivery!Submit(j)
    BY <2>5, <2>6, SingleStep DEF Delivery!Submit
  <2> QED
    BY <2>7 DEF Delivery!Next
<1>8. CASE GiveUp
  <2>1. PICK p \in Places, S \in SUBSET Jobs :
          /\ \A k \in S : IsAt(k, p) /\ ~Applied(k) /\ abandoned'[k] # {}
          /\ \A k \in Jobs \ S : abandoned'[k] = abandoned[k]
          /\ \A k \in Jobs : \A q \in Places :
                IsAt(k, q)' <=> IsAt(k, q) /\ ~(k \in S /\ q = p)
    BY <1>8 DEF GiveUp
  <2>2. RowsExist /\ rows' = rows
    BY <1>8 DEF GiveUp
  <2> DEFINE T == {k \in S : status[k] \notin Gone}
  <2>3. \A k \in T : StageOf(k) \in Delivery!Open /\ StageOf(k)' = "dropped"
    <3> TAKE k \in T
    <3>1. k \in Jobs /\ rows[k] = 0 /\ abandoned[k] = {} /\ abandoned'[k] # {}
      BY <1>4, <2>1
    <3>2. status[k] \notin Gone /\ status'[k] \notin Gone /\ rows'[k] = 0
      BY <2>2, <3>1 DEF RowsExist
    <3> QED
      BY <1>1, <3>1, <3>2 DEF StageLaw, Delivery!Open
  <2>4. \A k \in Jobs \ T : StageOf(k)' = StageOf(k)
    BY <1>2, <1>3, <2>1, <2>2 DEF RowsExist
  <2>5. Delivery!Drop
    BY <2>3, <2>4, TogetherStep DEF Delivery!Drop
  <2> QED
    BY <2>5 DEF Delivery!Next
<1>9. CASE Store
  <2>1. PICK j \in Jobs : /\ IsAt(j, "results") /\ Applied(j)' /\ status[j] \notin Gone
                          /\ rows' = [rows EXCEPT ![j] = @ + 1]
    BY <1>9 DEF Store
  <2>2. Still /\ RowsExist /\ abandoned' = abandoned /\ ~Applied(j)
    BY <1>9 DEF Store
  <2>3. rows[j] = 0 /\ abandoned[j] = {} /\ rows'[j] = 1 /\ Described(j)
    BY <1>0, <1>4, <2>1, <2>2, DescribedAt
  <2>4. status'[j] \notin Gone
    BY <2>1, <2>2 DEF RowsExist
  <2>5. StageOf(j) = "described" /\ StageOf(j)' = "recorded"
    BY <1>1, <2>1, <2>3, <2>4 DEF StageLaw
  <2>6. \A k \in Jobs \ {j} : StageOf(k)' = StageOf(k)
    BY <1>0, <1>2, <1>3, <2>1, <2>2 DEF Still, RowsExist
  <2>7. Delivery!Record(j)
    BY <2>5, <2>6, SingleStep DEF Delivery!Record
  <2> QED
    BY <2>7 DEF Delivery!Next
<1>10. CASE Forget
  <2>1. PICK j \in Jobs : Applied(j) /\ Moved(j, "results", "nowhere")
    BY <1>10 DEF Forget
  <2>2. status[j] = "deleted" \/ rows[j] > 0
    BY <2>1 DEF Transaction, Applied
  <2>3. RowsExist /\ UNCHANGED <<rows, abandoned>>
    BY <1>10 DEF Forget
  <2>4. \A k \in Jobs \ {j} : \A p \in Places : IsAt(k, p)' <=> IsAt(k, p)
    BY <2>1 DEF Moved
  <2>5. StageOf(j)' = StageOf(j)
    BY <1>2, <2>2, <2>3 DEF RowsExist, Gone
  <2>6. \A k \in Jobs \ {j} : StageOf(k)' = StageOf(k)
    BY <1>2, <1>3, <2>3, <2>4 DEF RowsExist
  <2> QED
    BY <2>5, <2>6
<1>11. CASE Erase
  <2>1. PICK S \in SUBSET Jobs :
          /\ status' = [k \in Jobs |-> IF k \in S /\ status[k] \notin Gone
                                      THEN "deleted" ELSE status[k]]
          /\ rows' = [k \in Jobs |-> IF k \in S THEN 0 ELSE rows[k]]
    BY <1>11 DEF Erase
  <2> DEFINE T == {k \in S : status[k] \notin Gone}
  <2>2. \A k \in T : StageOf(k) \in Delivery!Stages \ {"absent"} /\ StageOf(k)' = "removed"
    BY <1>1, <2>1 DEF StageLaw, Gone
  <2>3. \A k \in Jobs \ T : StageOf(k)' = StageOf(k)
    <3> TAKE k \in Jobs \ T
    <3>1. status'[k] = status[k]
      BY <2>1
    <3>2. CASE status[k] \in Gone
      BY <1>2, <3>1, <3>2
    <3>3. CASE status[k] \notin Gone
      <4>1. rows'[k] = rows[k] /\ abandoned'[k] = abandoned[k]
        BY <1>11, <2>1, <3>3 DEF Erase
      <4> QED
        BY <1>2, <1>3, <1>11, <3>1, <4>1 DEF Erase, Still
    <3> QED
      BY <3>2, <3>3
  <2>4. Delivery!Remove
    BY <2>2, <2>3, TogetherStep DEF Delivery!Remove
  <2> QED
    BY <2>4 DEF Delivery!Next
<1> QED
  BY <1>5, <1>6, <1>7, <1>8, <1>9, <1>10, <1>11 DEF Turn

-------------------------------------------------------------------------------
(* Workers.                                                                *)

LEMMA MDHands ==
    ASSUME Shape, OneMD, NEW w \in MDWorkers,
           NEW v, md' = [md EXCEPT ![w] = v],
           v.pc \in {"taken", "accepted", "started"} =>
              IF HoldsMD(w) THEN v.msg.job = md[w].msg.job ELSE ~InMD(v.msg.job)
    PROVE  /\ OneMD'
           /\ \A k \in Jobs :
                 InMD(k)' <=> \/ v.pc \in {"taken", "accepted", "started"} /\ k = v.msg.job
                              \/ InMD(k) /\ ~(HoldsMD(w) /\ k = md[w].msg.job)
<1>1. md'[w] = v /\ \A u \in MDWorkers \ {w} : md'[u] = md[u]
  BY DEF Shape, TypeOK
<1> QED
  BY <1>1 DEF OneMD, InMD, HoldsMD

LEMMA OCHands ==
    ASSUME Shape, OneOC, NEW w \in OCWorkers,
           NEW v, oc' = [oc EXCEPT ![w] = v],
           v.pc \in {"started", "failing"} =>
              IF HoldsOC(w) THEN v.msg.job = oc[w].msg.job ELSE ~InOC(v.msg.job)
    PROVE  /\ OneOC'
           /\ \A k \in Jobs :
                 InOC(k)' <=> \/ v.pc \in {"started", "failing"} /\ k = v.msg.job
                              \/ InOC(k) /\ ~(HoldsOC(w) /\ k = oc[w].msg.job)
<1>1. oc'[w] = v /\ \A u \in OCWorkers \ {w} : oc'[u] = oc[u]
  BY DEF Shape, TypeOK
<1> QED
  BY <1>1 DEF OneOC, InOC, HoldsOC

LEMMA AppliedAt ==
    ASSUME Shape, Transaction, NEW j \in Jobs, Applied(j)
    PROVE  IsAt(j, "results")
<1>1. Current \in Result /\ results # <<>> /\ Current = results[1] /\ 1 \in 1..Len(results)
  BY CurrentType DEF Shape, TypeOK, Transaction, Applied, Current
<1>2. Current = [job |-> j, kind |-> "final"]
  BY <1>1 DEF Applied, Final, Result
<1> QED
  BY <1>1, <1>2 DEF IsAt, InResults

LEMMA AppliedNowhereElse ==
    ASSUME DeliveryInv, NEW j \in Jobs, NEW p \in Places, IsAt(j, p), p # "results"
    PROVE  ~Applied(j)
<1>1. "results" \in Places
  BY DEF Places
<1> QED
  BY <1>1, AppliedAt DEF DeliveryInv, TableInv, InOnePlaceAtMost

(* A worker leaves the table and the consumer's transaction alone.         *)
LEMMA WorkerQuiet ==
    ASSUME DeliveryInv, WorkerNext
    PROVE  /\ RowsExist /\ AppliedStays /\ Calm' /\ UNCHANGED <<rows, ingesting>>
           /\ Shape /\ OneCopy
<1>1. /\ UNCHANGED <<table, source, orch, consumer, ingesting, requests, requeue>>
      /\ UNCHANGED results \/ \E e \in Result : results' = Append(results, e)
  BY WorkerFrame DEF DeliveryInv, TableInv
<1>2. consumer.pc # "idle" => Current' = Current
  BY <1>1, HeadKept DEF DeliveryInv, TableInv, Transaction, Shape, TypeOK
<1> QED
  BY <1>1, <1>2 DEF table, RowsExist, AppliedStays, Applied, Final, Calm, DeliveryInv, TableInv

LEMMA ForwardBy ==
    ASSUME NEW j \in Jobs, NEW a \in Places, NEW b \in Places, IsAt(j, a), Moved(j, a, b),
           a \in Describing => b \in Describing,
           RowsExist, AppliedStays, UNCHANGED <<rows, abandoned>>
    PROVE  Turn
  BY DEF Turn, Forward

LEMMA MDTurn ==
    ASSUME DeliveryInv, NothingRepeats, NEW w \in MDWorkers, MDStep(w) \/ MDCrash(w)
    PROVE  Turn /\ OneCopy' /\ Calm'
<1> DEFINE j == md[w].msg.job
<1>0. /\ RowsExist /\ AppliedStays /\ Calm' /\ UNCHANGED <<rows, ingesting>>
      /\ Shape /\ OneCopy
  BY WorkerQuiet DEF WorkerNext
<1>1. /\ queue \in [Queues -> [Msg -> Nat]] /\ results \in Seq(Result)
      /\ md \in [MDWorkers -> [pc : MDSteps, msg : Msg \cup {NoMsg}]]
      /\ md[w].pc # "idle" => md[w].msg \in Msg /\ j \in Jobs
      /\ {"ingest", "motion_results", "dlx.ingest"} \subseteq Queues /\ Queues \subseteq Places
      /\ "md" \in Places /\ "md" \notin Queues
      /\ {"md_processing", "md_complete"} \subseteq ResultKinds /\ "final" # "md_processing"
  BY <1>0 DEF Shape, TypeOK, Hands, Msg, Queues, Places, ResultKinds
<1>2. /\ \A k \in Jobs : (k \in ingesting)' <=> k \in ingesting
      /\ oc' = oc
      /\ OneOC' /\ \A k \in Jobs : InOC(k)' <=> InOC(k)
  <2>1. oc' = oc
    BY DEF MDStep, MDCrash, MDTake, MDAccept, MDSkip, MDStart, MDDescribe, MDError, MDReport,
       MDAck, MDUnchanged
  <2> QED
    BY <1>0, <2>1 DEF OneCopy, OneOC, InOC, HoldsOC
<1>3. ASSUME HoldsMD(w)
      PROVE  /\ j \in Jobs /\ md[w].msg \in Msg /\ IsAt(j, "md") /\ ~Applied(j)
             /\ \A q \in Queues : j \notin Listed(q)
  <2>1. j \in Jobs /\ md[w].msg \in Msg /\ IsAt(j, "md")
    BY <1>1, <1>3 DEF HoldsMD, IsAt, InMD
  <2>2. ~Applied(j)
    BY <1>1, <2>1, AppliedNowhereElse
  <2>3. \A q \in Queues : j \notin Listed(q)
    BY <1>1, <2>1 DEF DeliveryInv, InOnePlaceAtMost, IsAt
  <2> QED
    BY <2>1, <2>2, <2>3
<1>4. UNCHANGED queue => OneMessage' /\ \A q \in Queues : Listed(q)' = Listed(q)
  BY <1>0 DEF OneCopy, OneMessage, Listed, Ready
<1>5. UNCHANGED results => OneFinal' /\ \A k \in Jobs : InResults(k)' <=> InResults(k)
  BY <1>0 DEF OneCopy, OneFinal, InResults
<1>6. ASSUME NEW pc, MDGoto(w, pc)
      PROVE  \E v : md' = [md EXCEPT ![w] = v] /\ v.pc = pc /\ v.msg = md[w].msg
  <2>1. /\ md' = [md EXCEPT ![w] = [md[w] EXCEPT !.pc = pc]]
        /\ [md[w] EXCEPT !.pc = pc].pc = pc
        /\ [md[w] EXCEPT !.pc = pc].msg = md[w].msg
    BY <1>1, <1>6 DEF MDGoto
  <2> QED
    BY <2>1
<1>7. ASSUME \A q \in Queues : Listed(q)' = Listed(q),
             \A k \in Jobs : InMD(k)' <=> InMD(k),
             \A k \in Jobs : InResults(k)' <=> InResults(k),
             UNCHANGED abandoned
      PROVE  Turn
  BY <1>0, <1>2, <1>7 DEF Turn, Rest, Still, IsAt
<1>8. ASSUME NEW kind \in ResultKinds, j \in Jobs, kind # "final", Report(j, kind)
      PROVE  OneFinal' /\ \A k \in Jobs : InResults(k)' <=> InResults(k)
  BY <1>0, <1>1, <1>8, ReportPlaces DEF OneCopy
<1>9. IdleWorker.pc = "idle"
  BY DEF IdleWorker
<1>10. ASSUME NEW m \in Msg, MDTake(w, m) PROVE Turn /\ OneCopy' /\ Calm'
  <2> DEFINE v == [pc |-> "taken", msg |-> m]
  <2>1. /\ OneMessage' /\ m.job \in Listed("ingest")
        /\ \A p \in Queues : \A k \in Jobs :
              k \in Listed(p)' <=> k \in Listed(p) /\ ~(p = "ingest" /\ k = m.job)
    BY <1>0, <1>1, <1>10, DeliverPlaces DEF MDTake, OneCopy
  <2>2. m.job \in Jobs /\ IsAt(m.job, "ingest") /\ ~InMD(m.job)
    <3>1. m.job \in Jobs /\ IsAt(m.job, "ingest")
      BY <1>1, <2>1 DEF Msg, IsAt
    <3> QED
      BY <1>1, <3>1 DEF DeliveryInv, InOnePlaceAtMost, IsAt
  <2>3. ~HoldsMD(w) /\ md' = [md EXCEPT ![w] = v] /\ v.pc = "taken" /\ v.msg = m
    BY <1>10 DEF MDTake, MDHas, HoldsMD
  <2>4. OneMD' /\ \A k \in Jobs : InMD(k)' <=> k = m.job \/ InMD(k)
    <3> HIDE DEF v
    <3> QED
      BY <1>0, <2>2, <2>3, MDHands DEF OneCopy
  <2>5. UNCHANGED <<results, abandoned>>
    BY <1>10 DEF MDTake
  <2>6. Moved(m.job, "ingest", "md")
    BY <1>1, <1>2, <1>5, <2>1, <2>4, <2>5 DEF Moved, IsAt
  <2>7. Turn
    BY <1>0, <1>1, <2>2, <2>5, <2>6, ForwardBy DEF Describing
  <2> QED
    BY <1>0, <1>2, <1>5, <2>1, <2>4, <2>5, <2>7 DEF OneCopy
<1>11. CASE MDAccept(w) \/ MDStart(w) \/ MDReport(w) \/ MDAck(w)
  <2>1. UNCHANGED <<queue, abandoned>>
    BY <1>11 DEF MDAccept, MDStart, MDReport, MDAck
  <2>2. OneMD' /\ \A k \in Jobs : InMD(k)' <=> InMD(k)
    <3>1. CASE MDAccept(w) \/ MDStart(w)
      <4>1. PICK pc \in {"accepted", "started"} : HoldsMD(w) /\ MDGoto(w, pc)
        BY <3>1 DEF MDAccept, MDStart, MDHas, HoldsMD
      <4>2. PICK v : md' = [md EXCEPT ![w] = v] /\ v.pc = pc /\ v.msg = md[w].msg
        BY <1>6, <4>1
      <4>3. OneMD' /\ \A k \in Jobs : InMD(k)' <=> k = j \/ (InMD(k) /\ k # j)
        BY <1>0, <4>1, <4>2, MDHands DEF OneCopy
      <4> QED
        BY <1>3, <4>1, <4>3 DEF IsAt
    <3>2. CASE MDReport(w)
      <4>1. ~HoldsMD(w) /\ MDGoto(w, "reported")
        BY <3>2 DEF MDReport, MDHas, HoldsMD
      <4>2. PICK v : md' = [md EXCEPT ![w] = v] /\ v.pc = "reported"
        BY <1>6, <4>1
      <4> QED
        BY <1>0, <4>1, <4>2, MDHands DEF OneCopy
    <3>3. CASE MDAck(w)
      <4>1. ~HoldsMD(w) /\ md' = [md EXCEPT ![w] = IdleWorker]
        BY <3>3 DEF MDAck, MDHas, HoldsMD, MDRelease
      <4> QED
        BY <1>0, <1>9, <4>1, MDHands DEF OneCopy
    <3> QED
      BY <1>11, <3>1, <3>2, <3>3
  <2>3. OneFinal' /\ \A k \in Jobs : InResults(k)' <=> InResults(k)
    <3>1. CASE MDAccept(w) \/ MDAck(w)
      BY <1>5, <3>1 DEF MDAccept, MDAck
    <3>2. CASE MDStart(w) \/ MDReport(w)
      <4>1. PICK kind \in {"md_processing", "md_complete"} : Report(j, kind)
        BY <3>2 DEF MDStart, MDReport
      <4>2. j \in Jobs
        BY <1>1, <3>2 DEF MDStart, MDReport, MDHas
      <4> QED
        BY <1>1, <1>8, <4>1, <4>2
    <3> QED
      BY <1>11, <3>1, <3>2
  <2> QED
    BY <1>0, <1>2, <1>4, <1>7, <2>1, <2>2, <2>3 DEF OneCopy
<1>12. ASSUME NEW q \in {"motion_results", "dlx.ingest"}, HoldsMD(w),
              Publish(q, md[w].msg), UNCHANGED <<results, abandoned>>,
              NEW v, md' = [md EXCEPT ![w] = v], v.pc \in {"detected", "idle"}
       PROVE  Turn /\ OneCopy' /\ Calm'
  <2>1. j \in Jobs /\ md[w].msg \in Msg /\ IsAt(j, "md") /\ q \in Queues /\ j \notin Listed(q)
    BY <1>1, <1>3, <1>12
  <2>2. /\ OneMessage'
        /\ \A p \in Queues : \A k \in Jobs :
              k \in Listed(p)' <=> k \in Listed(p) \/ (p = q /\ k = j)
    BY <1>0, <1>1, <1>12, <2>1, PublishPlaces DEF OneCopy
  <2>3. OneMD' /\ \A k \in Jobs : InMD(k)' <=> InMD(k) /\ k # j
    BY <1>0, <1>12, MDHands DEF OneCopy
  <2>4. Moved(j, "md", q)
    BY <1>1, <1>2, <1>5, <1>12, <2>1, <2>2, <2>3 DEF Moved, IsAt
  <2>5. Turn
    BY <1>0, <1>1, <1>12, <2>1, <2>4, ForwardBy DEF Describing
  <2> QED
    BY <1>0, <1>2, <1>5, <1>12, <2>2, <2>3, <2>5 DEF OneCopy
<1>13. CASE MDDescribe(w)
  <2>1. HoldsMD(w) /\ MDGoto(w, "detected")
    BY <1>13 DEF MDDescribe, MDHas, HoldsMD
  <2>2. PICK v : md' = [md EXCEPT ![w] = v] /\ v.pc = "detected"
    BY <1>6, <2>1
  <2> QED
    BY <1>12, <1>13, <2>1, <2>2 DEF MDDescribe
<1>14. CASE MDError(w)
  <2>1. HoldsMD(w) /\ DeadLetters["ingest"] = "dlx.ingest"
    BY <1>14 DEF MDError, MDHas, HoldsMD, DeadLetters, WorkQueues
  <2> QED
    BY <1>9, <1>12, <1>14, <2>1 DEF MDError, MDRelease
<1>15. CASE MDSkip(w)
  <2>1. HoldsMD(w) /\ UNCHANGED <<queue, results>> /\ md' = [md EXCEPT ![w] = IdleWorker]
    BY <1>15 DEF MDSkip, MDHas, HoldsMD, MDRelease
  <2>2. OneMD' /\ \A k \in Jobs : InMD(k)' <=> InMD(k) /\ k # j
    BY <1>0, <1>9, <2>1, MDHands DEF OneCopy
  <2>3. /\ abandoned'[j] # {} /\ \A k \in Jobs \ {j} : abandoned'[k] = abandoned[k]
    BY <1>0, <1>3, <1>15, <2>1 DEF MDSkip, Abandon, Shape, TypeOK
  <2>4. \A k \in Jobs : \A q \in Places : IsAt(k, q)' <=> IsAt(k, q) /\ ~(k \in {j} /\ q = "md")
    BY <1>1, <1>2, <1>4, <1>5, <2>1, <2>2 DEF IsAt
  <2>5. GiveUp
    BY <1>0, <1>1, <1>3, <2>1, <2>3, <2>4 DEF GiveUp
  <2> QED
    BY <1>0, <1>2, <1>4, <1>5, <2>1, <2>2, <2>5 DEF OneCopy, Turn
<1>16. ~MDCrash(w)
  BY DEF MDCrash, Disturb, NothingRepeats, Repeating
<1> QED
  BY <1>10, <1>11, <1>13, <1>14, <1>15, <1>16 DEF MDStep

LEMMA OCTurn ==
    ASSUME DeliveryInv, NothingRepeats, NEW w \in OCWorkers, OCStep(w) \/ OCCrash(w)
    PROVE  Turn /\ OneCopy' /\ Calm'
<1> DEFINE j == oc[w].msg.job
<1>0. /\ RowsExist /\ AppliedStays /\ Calm' /\ UNCHANGED <<rows, ingesting>>
      /\ Shape /\ OneCopy
  BY WorkerQuiet DEF WorkerNext
<1>1. /\ queue \in [Queues -> [Msg -> Nat]] /\ results \in Seq(Result)
      /\ oc \in [OCWorkers -> [pc : OCSteps, msg : Msg \cup {NoMsg}]]
      /\ oc[w].pc # "idle" => oc[w].msg \in Msg /\ j \in Jobs
      /\ {"motion_results", "dlx.motion_results"} \subseteq Queues /\ Queues \subseteq Places
      /\ {"oc", "results"} \subseteq Places \ Queues
      /\ {"oc_processing", "failed", "final"} \subseteq ResultKinds
  BY <1>0 DEF Shape, TypeOK, Hands, Msg, Queues, Places, ResultKinds
<1>2. /\ \A k \in Jobs : (k \in ingesting)' <=> k \in ingesting
      /\ OneMD' /\ \A k \in Jobs : InMD(k)' <=> InMD(k)
      /\ UNCHANGED abandoned
  <2>1. md' = md /\ UNCHANGED abandoned
    BY DEF OCStep, OCCrash, OCStart, OCFinish, OCError, OCReject, OCAck, OCUnchanged
  <2> QED
    BY <1>0, <2>1 DEF OneCopy, OneMD, InMD, HoldsMD
<1>3. ASSUME HoldsOC(w)
      PROVE  /\ j \in Jobs /\ oc[w].msg \in Msg /\ IsAt(j, "oc") /\ ~InResults(j)
             /\ \A q \in Queues : j \notin Listed(q)
  <2>1. j \in Jobs /\ oc[w].msg \in Msg /\ IsAt(j, "oc")
    BY <1>1, <1>3 DEF HoldsOC, IsAt, InOC
  <2>2. ~InResults(j) /\ \A q \in Queues : j \notin Listed(q)
    BY <1>1, <2>1 DEF DeliveryInv, InOnePlaceAtMost, IsAt
  <2> QED
    BY <2>1, <2>2
<1>4. UNCHANGED queue => OneMessage' /\ \A q \in Queues : Listed(q)' = Listed(q)
  BY <1>0 DEF OneCopy, OneMessage, Listed, Ready
<1>5. UNCHANGED results => OneFinal' /\ \A k \in Jobs : InResults(k)' <=> InResults(k)
  BY <1>0 DEF OneCopy, OneFinal, InResults
<1>6. ASSUME NEW pc, OCGoto(w, pc)
      PROVE  \E v : oc' = [oc EXCEPT ![w] = v] /\ v.pc = pc /\ v.msg = oc[w].msg
  <2>1. /\ oc' = [oc EXCEPT ![w] = [oc[w] EXCEPT !.pc = pc]]
        /\ [oc[w] EXCEPT !.pc = pc].pc = pc
        /\ [oc[w] EXCEPT !.pc = pc].msg = oc[w].msg
    BY <1>1, <1>6 DEF OCGoto
  <2> QED
    BY <2>1
<1>7. ASSUME NEW k \in Jobs, NEW kind \in ResultKinds, kind # "final", Report(k, kind)
      PROVE  OneFinal' /\ \A i \in Jobs : InResults(i)' <=> InResults(i)
  BY <1>0, <1>1, <1>7, ReportPlaces DEF OneCopy
<1>8. IdleWorker.pc = "idle"
  BY DEF IdleWorker
<1>9. ASSUME NEW m \in Msg, OCStart(w, m) PROVE Turn /\ OneCopy' /\ Calm'
  <2> DEFINE v == [pc |-> "started", msg |-> m]
  <2>1. /\ OneMessage' /\ m.job \in Listed("motion_results")
        /\ \A p \in Queues : \A k \in Jobs :
              k \in Listed(p)' <=> k \in Listed(p) /\ ~(p = "motion_results" /\ k = m.job)
    BY <1>0, <1>1, <1>9, DeliverPlaces DEF OCStart, OneCopy
  <2>2. m.job \in Jobs /\ IsAt(m.job, "motion_results") /\ ~InOC(m.job)
    <3>1. m.job \in Jobs /\ IsAt(m.job, "motion_results")
      BY <1>1, <2>1 DEF Msg, IsAt
    <3> QED
      BY <1>1, <3>1 DEF DeliveryInv, InOnePlaceAtMost, IsAt
  <2>3. ~HoldsOC(w) /\ oc' = [oc EXCEPT ![w] = v] /\ v.pc = "started" /\ v.msg = m
    BY <1>9 DEF OCStart, OCHas, HoldsOC
  <2>4. OneOC' /\ \A k \in Jobs : InOC(k)' <=> k = m.job \/ InOC(k)
    <3> HIDE DEF v
    <3> QED
      BY <1>0, <2>2, <2>3, OCHands DEF OneCopy
  <2>5. OneFinal' /\ \A k \in Jobs : InResults(k)' <=> InResults(k)
    <3>1. Report(m.job, "oc_processing")
      BY <1>9 DEF OCStart
    <3> QED
      BY <1>1, <1>7, <2>2, <3>1
  <2>6. Moved(m.job, "motion_results", "oc")
    BY <1>1, <1>2, <2>1, <2>4, <2>5 DEF Moved, IsAt
  <2>7. Turn
    BY <1>0, <1>1, <1>2, <2>2, <2>6, ForwardBy DEF Describing
  <2> QED
    BY <1>0, <1>2, <2>1, <2>4, <2>5, <2>7 DEF OneCopy
<1>10. CASE OCFinish(w)
  <2>1. HoldsOC(w) /\ UNCHANGED queue /\ OCGoto(w, "reported") /\ Report(j, "final")
    BY <1>10 DEF OCFinish, OCHas, HoldsOC
  <2>2. PICK v : oc' = [oc EXCEPT ![w] = v] /\ v.pc = "reported"
    BY <1>6, <2>1
  <2>3. OneOC' /\ \A k \in Jobs : InOC(k)' <=> InOC(k) /\ k # j
    BY <1>0, <2>1, <2>2, OCHands DEF OneCopy
  <2>4. OneFinal' /\ \A k \in Jobs : InResults(k)' <=> InResults(k) \/ k = j
    BY <1>0, <1>1, <1>3, <2>1, ReportPlaces DEF OneCopy
  <2>5. Moved(j, "oc", "results")
    BY <1>1, <1>2, <1>4, <2>1, <2>3, <2>4 DEF Moved, IsAt
  <2>6. Turn
    BY <1>0, <1>1, <1>2, <1>3, <2>1, <2>5, ForwardBy DEF Describing
  <2> QED
    BY <1>0, <1>2, <1>4, <2>1, <2>3, <2>4, <2>6 DEF OneCopy
<1>11. CASE OCError(w) \/ OCAck(w)
  <2>1. UNCHANGED queue
    BY <1>11 DEF OCError, OCAck
  <2>2. /\ OneOC' /\ \A k \in Jobs : InOC(k)' <=> InOC(k)
        /\ OneFinal' /\ \A k \in Jobs : InResults(k)' <=> InResults(k)
    <3>1. CASE OCError(w)
      <4>1. HoldsOC(w) /\ OCGoto(w, "failing") /\ Report(j, "failed")
        BY <3>1 DEF OCError, OCHas, HoldsOC
      <4>2. PICK v : oc' = [oc EXCEPT ![w] = v] /\ v.pc = "failing" /\ v.msg = oc[w].msg
        BY <1>6, <4>1
      <4>3. OneOC' /\ \A k \in Jobs : InOC(k)' <=> k = j \/ (InOC(k) /\ k # j)
        BY <1>0, <4>1, <4>2, OCHands DEF OneCopy
      <4>4. InOC(j)
        BY <1>3, <1>1, <4>1 DEF IsAt
      <4> QED
        BY <1>1, <1>3, <1>7, <4>1, <4>3, <4>4
    <3>2. CASE OCAck(w)
      <4>1. ~HoldsOC(w) /\ oc' = [oc EXCEPT ![w] = IdleWorker] /\ UNCHANGED results
        BY <3>2 DEF OCAck, OCHas, HoldsOC, OCRelease
      <4> QED
        BY <1>0, <1>5, <1>8, <4>1, OCHands DEF OneCopy
    <3> QED
      BY <1>11, <3>1, <3>2
  <2>3. Turn
    BY <1>0, <1>2, <1>4, <2>1, <2>2 DEF Turn, Rest, Still, IsAt
  <2> QED
    BY <1>0, <1>2, <1>4, <2>1, <2>2, <2>3 DEF OneCopy
<1>12. CASE OCReject(w)
  <2> DEFINE q == "dlx.motion_results"
  <2>1. /\ HoldsOC(w) /\ Publish(q, oc[w].msg) /\ UNCHANGED results
        /\ oc' = [oc EXCEPT ![w] = IdleWorker]
    BY <1>12 DEF OCReject, OCHas, HoldsOC, OCRelease, DeadLetters, WorkQueues
  <2>2. j \in Jobs /\ oc[w].msg \in Msg /\ IsAt(j, "oc") /\ q \in Queues /\ j \notin Listed(q)
    BY <1>1, <1>3, <2>1
  <2>3. /\ OneMessage'
        /\ \A p \in Queues : \A k \in Jobs :
              k \in Listed(p)' <=> k \in Listed(p) \/ (p = q /\ k = j)
    BY <1>0, <1>1, <2>1, <2>2, PublishPlaces DEF OneCopy
  <2>4. OneOC' /\ \A k \in Jobs : InOC(k)' <=> InOC(k) /\ k # j
    BY <1>0, <1>8, <2>1, OCHands DEF OneCopy
  <2>5. Moved(j, "oc", q)
    BY <1>1, <1>2, <1>5, <2>1, <2>3, <2>4 DEF Moved, IsAt
  <2>6. Turn
    BY <1>0, <1>1, <1>2, <2>2, <2>5, ForwardBy DEF Describing
  <2> QED
    BY <1>0, <1>2, <1>5, <2>1, <2>3, <2>4, <2>6 DEF OneCopy
<1>13. ~OCCrash(w)
  BY DEF OCCrash, Disturb, NothingRepeats, Repeating
<1> QED
  BY <1>9, <1>10, <1>11, <1>12, <1>13 DEF OCStep

-------------------------------------------------------------------------------
(* The consumer.                                                           *)

LEMMA ConsumerTurn ==
    ASSUME DeliveryInv, NothingRepeats, ConsumerNext
    PROVE  Turn /\ OneCopy' /\ Calm'
<1> DEFINE j == Current.job
<1>0. /\ Shape /\ OneCopy /\ Transaction
      /\ results \in Seq(Result) /\ status \in [Jobs -> Status] /\ rows \in [Jobs -> Nat]
      /\ abandoned \in [Jobs -> SUBSET Reasons] /\ source \in [Jobs -> Paths]
      /\ "results" \in Places /\ "results" \notin Queues
  BY DEF DeliveryInv, TableInv, Shape, TypeOK, Places, Queues
<1>1. UNCHANGED <<queue, md, oc, orch, ingesting, requests, requeue>> /\ HasResult
  BY DEF ConsumerNext, ConsumerStep, ConsumerRollback, ConsumerReconnect, ConsumerIgnore,
     ConsumerLoad, ConsumerUpdate, ConsumerStale, ConsumerRename, ConsumerComplete, ConsumerAck,
     InFlight, ConsumerUnchanged
<1>2. /\ results # <<>> /\ j \in Jobs /\ Current.kind \in ResultKinds
      /\ Final => InResults(j) /\ IsAt(j, "results")
  <2>1. results # <<>> /\ j \in Jobs /\ Current.kind \in ResultKinds
    BY <1>0, <1>1, CurrentType DEF HasResult
  <2>2. Current \in Result /\ Current = results[1] /\ 1 \in 1..Len(results)
    BY <1>0, <2>1, CurrentType DEF Current
  <2>3. Final => InResults(j)
    BY <2>2 DEF Final, InResults, Result
  <2> QED
    BY <1>0, <2>1, <2>3 DEF IsAt
<1>3. /\ OneMessage' /\ OneMD' /\ OneOC'
      /\ \A k \in Jobs : \A q \in Queues : k \in Listed(q)' <=> k \in Listed(q)
      /\ \A k \in Jobs : (k \in ingesting)' <=> k \in ingesting
      /\ \A k \in Jobs : InMD(k)' <=> InMD(k)
      /\ \A k \in Jobs : InOC(k)' <=> InOC(k)
  BY <1>0, <1>1 DEF OneCopy, OneMessage, OneMD, OneOC, Listed, Ready, InMD, InOC, HoldsMD, HoldsOC
<1>4. results' = results => OneFinal' /\ Still /\ Current' = Current /\ (Final' <=> Final)
  BY <1>0, <1>3 DEF OneCopy, OneFinal, Still, IsAt, InResults, Current, Final
<1>5. results' = Tail(results) =>
         /\ OneFinal'
         /\ \A k \in Jobs : \A p \in Places :
               IsAt(k, p)' <=> IsAt(k, p) /\ ~(Final /\ k = j /\ p = "results")
  <2>1. ASSUME results' = Tail(results)
        PROVE  /\ OneFinal'
               /\ \A k \in Jobs : InResults(k)' <=> InResults(k) /\ ~(Final /\ j = k)
    BY <1>0, <1>2, <2>1, TailPlaces DEF OneCopy
  <2> QED
    BY <1>0, <1>3, <2>1 DEF IsAt
<1>6. consumer.pc # "committed" => \A k \in Jobs : ~Applied(k)
  BY DEF Applied
<1>7. consumer'.pc # "renamed" \/ Final' => Calm'
  BY <1>1 DEF DeliveryInv, Calm
<1>8. ASSUME results' = results, consumer.pc # "committed",
             consumer'.pc = "renamed" => Final, RowsExist, UNCHANGED <<rows, abandoned>>
      PROVE  Turn /\ OneCopy' /\ Calm'
  BY <1>3, <1>4, <1>6, <1>7, <1>8 DEF Turn, Rest, AppliedStays, OneCopy
<1>9. UNCHANGED table => RowsExist /\ UNCHANGED rows
  BY DEF table, RowsExist
<1>10. ASSUME results' = Tail(results), consumer.pc # "committed", consumer'.pc = "idle",
              UNCHANGED table, NEW why,
              IF Final THEN Abandon(j, why) ELSE UNCHANGED abandoned
       PROVE  Turn /\ OneCopy' /\ Calm'
  <2>1. AppliedStays
    BY <1>6, <1>10 DEF AppliedStays
  <2>2. CASE Final
    <3>1. /\ abandoned'[j] # {}
          /\ \A k \in Jobs \ {j} : abandoned'[k] = abandoned[k]
      BY <1>0, <1>2, <1>10, <2>2 DEF Abandon
    <3>2. \A k \in {j} : IsAt(k, "results") /\ ~Applied(k) /\ abandoned'[k] # {}
      BY <1>2, <1>6, <1>10, <2>2, <3>1
    <3>3. \A k \in Jobs : \A q \in Places :
             IsAt(k, q)' <=> IsAt(k, q) /\ ~(k \in {j} /\ q = "results")
      BY <1>5, <1>10, <2>2
    <3>4. {j} \in SUBSET Jobs
      BY <1>2
    <3> QED
      BY <1>0, <1>3, <1>5, <1>7, <1>9, <1>10, <2>1, <3>1, <3>2, <3>3, <3>4 DEF Turn, GiveUp, OneCopy
  <2>3. CASE ~Final
    BY <1>3, <1>5, <1>7, <1>9, <1>10, <2>1, <2>3 DEF Turn, Rest, Still, OneCopy
  <2> QED
    BY <2>2, <2>3
<1>11. IdleConsumer.pc = "idle"
  BY DEF IdleConsumer
<1>12. CASE ConsumerIgnore
  <2>1. consumer'.pc = "idle" /\ consumer.pc = "idle"
    BY <1>12 DEF ConsumerIgnore, InFlight
  <2> QED
    BY <1>10, <1>12, <2>1 DEF ConsumerIgnore
<1>13. CASE ConsumerLoad
  <2>1. consumer'.pc = "loaded" /\ consumer.pc = "idle"
    BY <1>13 DEF ConsumerLoad, InFlight
  <2> QED
    BY <1>8, <1>9, <1>13, <2>1 DEF ConsumerLoad
<1>14. CASE ConsumerUpdate
  <2>1. consumer'.pc = "committed" /\ consumer.pc = "loaded" /\ ~Final
    BY <1>0, <1>14 DEF ConsumerUpdate, InFlight, Shape, TypeOK
  <2>2. Current.kind \notin Gone
    BY <1>2 DEF ResultKinds, Gone
  <2>3. RowsExist
    BY <1>0, <1>14, <2>2 DEF ConsumerUpdate, SetStatus, RowsExist
  <2> QED
    BY <1>8, <1>14, <2>1, <2>3 DEF ConsumerUpdate
<1>15. CASE ConsumerStale
  <2>1. consumer'.pc = "committed" /\ consumer.pc = "loaded"
    BY <1>0, <1>15 DEF ConsumerStale, InFlight, Shape, TypeOK
  <2> QED
    BY <1>8, <1>9, <1>15, <2>1 DEF ConsumerStale
<1>16. CASE ConsumerRename
  <2>1. consumer.pc = "loaded" /\ Final
    BY <1>16 DEF ConsumerRename, InFlight
  <2> QED
    BY <1>8, <1>9, <1>16, <2>1 DEF ConsumerRename
<1>17. CASE ConsumerComplete
  <2>1. consumer.pc = "renamed" /\ consumer'.pc = "committed" /\ Final
    BY <1>0, <1>17 DEF ConsumerComplete, InFlight, Shape, TypeOK, DeliveryInv, Calm
  <2>2. status[j] \notin Gone
    BY <1>0, <2>1 DEF Transaction, Gone
  <2>3. /\ rows' = [rows EXCEPT ![j] = @ + 1] /\ results' = results
        /\ UNCHANGED abandoned
        /\ \/ status' = [status EXCEPT ![j] = "completed"] \/ status' = status
    BY <1>17 DEF ConsumerComplete
  <2>4. RowsExist
    BY <1>0, <1>2, <2>2, <2>3 DEF RowsExist, Gone
  <2>5. Applied(j)'
    BY <1>4, <2>1, <2>3 DEF Applied
  <2>6. Store
    BY <1>2, <1>4, <1>6, <2>1, <2>2, <2>3, <2>4, <2>5 DEF Store
  <2> QED
    BY <1>3, <1>4, <1>7, <2>1, <2>3, <2>6 DEF Turn, OneCopy
<1>18. CASE ConsumerRollback
  <2>1. consumer.pc # "committed" /\ consumer'.pc = "idle"
    BY <1>11, <1>18 DEF ConsumerRollback, InFlight
  <2> QED
    BY <1>10, <1>18, <2>1 DEF ConsumerRollback
<1>19. CASE ConsumerAck
  <2>1. consumer.pc = "committed" /\ consumer'.pc = "idle" /\ results' = Tail(results)
    BY <1>11, <1>19 DEF ConsumerAck, InFlight
  <2>2. RowsExist /\ UNCHANGED <<rows, abandoned>>
    BY <1>9, <1>19 DEF ConsumerAck
  <2>3. CASE Final
    <3>1. Applied(j)
      BY <2>1, <2>3 DEF Applied
    <3>2. "nowhere" \notin Places
      BY DEF Places, Queues
    <3>3. Moved(j, "results", "nowhere")
      BY <1>5, <2>1, <2>3, <3>2 DEF Moved
    <3>4. Forget
      BY <1>2, <2>2, <2>3, <3>1, <3>3 DEF Forget
    <3> QED
      BY <1>3, <1>5, <1>7, <2>1, <3>4 DEF Turn, OneCopy
  <2>4. CASE ~Final
    <3>1. AppliedStays
      BY <2>4 DEF AppliedStays, Applied
    <3> QED
      BY <1>3, <1>5, <1>7, <2>1, <2>2, <2>4, <3>1 DEF Turn, Rest, Still, OneCopy
  <2> QED
    BY <2>3, <2>4
<1>20. ~ConsumerReconnect
  BY DEF ConsumerReconnect, Disturb, NothingRepeats, Repeating
<1> QED
  BY <1>12, <1>13, <1>14, <1>15, <1>16, <1>17, <1>18, <1>19, <1>20 DEF ConsumerNext, ConsumerStep

-------------------------------------------------------------------------------
(* Requests and the orchestrator: what they move, they move in the queues, *)
(* apart from what they owe.                                               *)

LEMMA OnlyQueues ==
    ASSUME DeliveryInv, UNCHANGED <<results, md, oc, consumer>>
    PROVE  /\ OneMD' /\ OneOC' /\ OneFinal' /\ AppliedStays
           /\ \A k \in Jobs : \A p \in Places \ Queues :
                 p # "publish" => (IsAt(k, p)' <=> IsAt(k, p))
           /\ \A k \in Jobs : IsAt(k, "publish")' <=> k \in ingesting'
           /\ \A k \in Jobs : IsAt(k, "publish") <=> k \in ingesting
           /\ \A k \in Jobs : \A p \in Queues : IsAt(k, p)' <=> k \in Listed(p)'
           /\ \A k \in Jobs : \A p \in Queues : IsAt(k, p) <=> k \in Listed(p)
  BY DEF DeliveryInv, OneCopy, OneMD, OneOC, OneFinal, AppliedStays, Applied, Current, Final,
     IsAt, InMD, InOC, InResults, HoldsMD, HoldsOC, Places, Queues

LEMMA RestTurn ==
    ASSUME DeliveryInv, UNCHANGED <<queue, results, md, oc, consumer, ingesting>>,
           RowsExist, UNCHANGED <<rows, abandoned>>
    PROVE  Turn /\ OneCopy'
<1>1. OneMessage' /\ \A q \in Queues : Listed(q)' = Listed(q)
  BY DEF DeliveryInv, OneCopy, OneMessage, Listed, Ready
<1>2. Still
  <2>1. \A k \in Jobs : \A p \in Queues : IsAt(k, p)' <=> IsAt(k, p)
    BY <1>1, OnlyQueues
  <2>2. \A k \in Jobs : IsAt(k, "publish")' <=> IsAt(k, "publish")
    BY OnlyQueues
  <2> QED
    BY <2>1, <2>2, OnlyQueues DEF Still
<1> QED
  BY <1>1, <1>2, OnlyQueues DEF Turn, Rest, OneCopy

LEMMA PurgeTurn ==
    ASSUME DeliveryInv, NEW q \in Queues, Purge(q),
           UNCHANGED <<table, results, md, oc, consumer, ingesting>>
    PROVE  Turn /\ OneCopy'
<1>0. /\ queue \in [Queues -> [Msg -> Nat]] /\ abandoned \in [Jobs -> SUBSET Reasons]
      /\ OneMessage /\ Queues \subseteq Places /\ "results" \notin Queues
      /\ Listed(q) \in SUBSET Jobs
  BY DEF DeliveryInv, TableInv, Shape, TypeOK, OneCopy, Places, Queues, Listed
<1>1. /\ OneMessage'
      /\ \A p \in Queues : \A k \in Jobs : k \in Listed(p)' <=> k \in Listed(p) /\ p # q
  BY <1>0, PurgePlaces
<1>2. \A k \in Listed(q) : IsAt(k, q) /\ ~Applied(k) /\ abandoned'[k] # {}
  <2> TAKE k \in Listed(q)
  <2>1. k \in Jobs /\ IsAt(k, q)
    BY <1>0 DEF IsAt
  <2>2. ~Applied(k)
    BY <1>0, <2>1, AppliedNowhereElse
  <2>3. abandoned'[k] = abandoned[k] \cup {"purged"}
    BY <2>1 DEF Purge
  <2> QED
    BY <2>1, <2>2, <2>3
<1>3. \A k \in Jobs \ Listed(q) : abandoned'[k] = abandoned[k]
  BY DEF Purge
<1>4. \A k \in Jobs : \A p \in Places :
         IsAt(k, p)' <=> IsAt(k, p) /\ ~(k \in Listed(q) /\ p = q)
  <2>1. \A k \in Jobs : \A p \in Queues :
           IsAt(k, p)' <=> IsAt(k, p) /\ ~(k \in Listed(q) /\ p = q)
    BY <1>1, OnlyQueues
  <2>2. \A k \in Jobs : IsAt(k, "publish")' <=> IsAt(k, "publish")
    BY OnlyQueues
  <2>3. \A k \in Jobs : \A p \in Places \ Queues : IsAt(k, p)' <=> IsAt(k, p)
    BY <2>2, OnlyQueues
  <2> QED
    BY <2>1, <2>3
<1>5. RowsExist /\ UNCHANGED rows
  BY DEF table, RowsExist
<1>6. GiveUp
  BY <1>0, <1>2, <1>3, <1>4, <1>5, OnlyQueues DEF GiveUp
<1> QED
  BY <1>1, <1>6, OnlyQueues DEF Turn, OneCopy

LEMMA ApiTurn ==
    ASSUME DeliveryInv, NothingRepeats, ApiNext
    PROVE  Turn /\ OneCopy' /\ Calm'
<1>1. PICK r \in Requests : UserBegins(r) \/ RequestStep(r) \/ ResumeFail(r)
  BY DEF ApiNext
<1>2. /\ \A s \in Requests : requests[s].op \notin {"resume", "publish", "bulk_resume"}
      /\ requests \in [Requests -> [op : RequestOps, jobs : SUBSET Jobs, todo : SUBSET Msg]]
      /\ status \in [Jobs -> Status] /\ {"ingest", "motion_results"} \subseteq Queues
  BY DEF DeliveryInv, Calm, TableInv, Shape, TypeOK, Queues
<1>3. ASSUME ApiUnchanged, NEW v, v.op \notin {"resume", "publish", "bulk_resume"},
             requests' = [requests EXCEPT ![r] = v] \/ requests' = requests
      PROVE  Calm'
  BY <1>2, <1>3 DEF ApiUnchanged, DeliveryInv, Calm, Final, Current
<1>4. IdleRequest.op = "none"
  BY DEF IdleRequest
<1>5. ASSUME NEW op, Then(r, op)
      PROVE  \E v : requests' = [requests EXCEPT ![r] = v] /\ v.op = op
  <2>1. /\ requests' = [requests EXCEPT ![r] = [requests[r] EXCEPT !.op = op]]
        /\ [requests[r] EXCEPT !.op = op].op = op
    BY <1>2, <1>5 DEF Then
  <2> QED
    BY <2>1
<1>6. ASSUME ApiUnchanged, queue' = queue, RowsExist, UNCHANGED <<rows, abandoned>>
      PROVE  Turn /\ OneCopy'
  BY <1>6, RestTurn DEF ApiUnchanged
<1>7. UNCHANGED table => RowsExist /\ UNCHANGED rows
  BY DEF table, RowsExist
<1>8. ASSUME NEW S \in SUBSET Jobs, NEW new, new \notin Gone, SetStatus(S, new)
      PROVE  RowsExist
  BY <1>2, <1>8 DEF SetStatus, RowsExist
<1>9. ASSUME NEW op, NEW S, NEW todo, Begin(r, op, S, todo),
             op \notin {"resume", "publish", "bulk_resume"}
      PROVE  Turn /\ OneCopy' /\ Calm'
  <2> DEFINE v == [op |-> op, jobs |-> S, todo |-> todo]
  <2>1. requests' = [requests EXCEPT ![r] = v] /\ v.op = op
    BY <1>9 DEF Begin
  <2> HIDE DEF v
  <2> QED
    BY <1>3, <1>6, <1>7, <1>9, <2>1 DEF Begin
<1>10. CASE UserBegins(r)
  <2>1. ASSUME NEW j \in Jobs, PauseLoad(r, j) \/ CancelLoad(r, j) \/ RemoveLoad(r, j)
        PROVE  Turn /\ OneCopy' /\ Calm'
    BY <1>9, <2>1 DEF PauseLoad, CancelLoad, RemoveLoad
  <2>2. CASE BulkDeleteLoad(r)
    BY <1>9, <2>2 DEF BulkDeleteLoad
  <2>3. \A j \in Jobs : ~ResumeLoad(r, j)
    BY DEF ResumeLoad, Disturb, NothingRepeats, Repeating
  <2>4. ~BulkResumeLoad(r)
    BY DEF BulkResumeLoad, Disturb, NothingRepeats, Repeating
  <2>5. CASE BulkPause(r)
    <3>1. RowsExist
      BY <1>8, <2>5 DEF BulkPause, Gone
    <3>2. ApiUnchanged /\ UNCHANGED <<queue, rows, abandoned, requests>>
      BY <2>5 DEF BulkPause
    <3> QED
      BY <1>3, <1>4, <1>6, <3>1, <3>2
  <2>6. CASE BulkKill(r)
    <3>1. RowsExist
      BY <1>8, <2>6 DEF BulkKill, Gone
    <3>2. ApiUnchanged /\ UNCHANGED <<queue, rows, abandoned>> /\ Then(r, "purge_ingest")
      BY <2>6 DEF BulkKill
    <3>3. PICK v : requests' = [requests EXCEPT ![r] = v] /\ v.op = "purge_ingest"
      BY <1>5, <3>2
    <3> QED
      BY <1>3, <1>6, <3>1, <3>2, <3>3
  <2> QED
    BY <1>10, <2>1, <2>2, <2>3, <2>4, <2>5, <2>6 DEF UserBegins
<1>11. CASE PauseCommit(r) \/ CancelCommit(r)
  <2>1. requests[r].jobs \in SUBSET Jobs
    BY <1>2
  <2>2. RowsExist
    BY <1>8, <1>11, <2>1 DEF PauseCommit, CancelCommit, Gone
  <2>3. ApiUnchanged /\ UNCHANGED <<queue, rows, abandoned>> /\ Done(r)
    BY <1>11 DEF PauseCommit, CancelCommit
  <2> QED
    BY <1>3, <1>4, <1>6, <2>2, <2>3 DEF Done
<1>12. CASE RemoveCommit(r)
  <2> DEFINE S == requests[r].jobs
  <2>1. S \in SUBSET Jobs
    BY <1>2
  <2>2. /\ ApiUnchanged /\ UNCHANGED <<queue, abandoned>> /\ Done(r)
        /\ rows' = [j \in Jobs |-> IF j \in S THEN 0 ELSE rows[j]]
        /\ status' = [j \in Jobs |-> IF j \in S /\ status[j] \notin Gone
                                     THEN "deleted" ELSE status[j]]
    BY <1>12 DEF RemoveCommit, SetStatus
  <2>3. OneMessage' /\ \A q \in Queues : Listed(q)' = Listed(q)
    BY <2>2 DEF DeliveryInv, OneCopy, OneMessage, Listed, Ready
  <2>4. UNCHANGED <<results, md, oc, consumer, ingesting>>
    BY <2>2 DEF ApiUnchanged
  <2>5. Still
    <3>1. \A k \in Jobs : \A p \in Queues : IsAt(k, p)' <=> IsAt(k, p)
      BY <2>3, <2>4, OnlyQueues
    <3>2. \A k \in Jobs : IsAt(k, "publish")' <=> IsAt(k, "publish")
      BY <2>4, OnlyQueues
    <3> QED
      BY <2>4, <3>1, <3>2, OnlyQueues DEF Still
  <2>6. Erase
    BY <2>1, <2>2, <2>4, <2>5, OnlyQueues DEF Erase
  <2> QED
    BY <1>3, <1>4, <2>2, <2>3, <2>4, <2>6, OnlyQueues DEF Turn, OneCopy, Done
<1>13. CASE KillPurgeIngest(r) \/ KillPurgeMotion(r)
  <2>1. PICK q \in Queues : Purge(q) /\ UNCHANGED table /\ ApiUnchanged
    BY <1>2, <1>13 DEF KillPurgeIngest, KillPurgeMotion
  <2>2. Turn /\ OneCopy'
    BY <2>1, PurgeTurn DEF ApiUnchanged
  <2>3. Calm'
    <3>1. CASE KillPurgeIngest(r)
      <4>1. PICK v : requests' = [requests EXCEPT ![r] = v] /\ v.op = "purge_motion"
        BY <1>5, <3>1 DEF KillPurgeIngest
      <4> QED
        BY <1>3, <2>1, <4>1
    <3>2. CASE KillPurgeMotion(r)
      BY <1>3, <1>4, <2>1, <3>2 DEF KillPurgeMotion, Done
    <3> QED
      BY <1>13, <3>1, <3>2
  <2> QED
    BY <2>2, <2>3
<1>14. /\ ~ResumeCommit(r) /\ ~ResumePublish(r) /\ ~BulkResumeCommit(r) /\ ~ResumeFail(r)
       /\ \A m \in Msg : ~BulkResumePublish(r, m)
  BY <1>2 DEF ResumeCommit, ResumePublish, BulkResumeCommit, ResumeFail, BulkResumePublish, At
<1> QED
  BY <1>1, <1>10, <1>11, <1>12, <1>13, <1>14 DEF RequestStep

LEMMA OrchestratorTurn ==
    ASSUME DeliveryInv, NothingRepeats, OrchestratorNext
    PROVE  Turn /\ OneCopy' /\ Calm'
<1>0. /\ queue \in [Queues -> [Msg -> Nat]] /\ abandoned \in [Jobs -> SUBSET Reasons]
      /\ status \in [Jobs -> Status] /\ ingesting \in SUBSET Jobs /\ OneMessage
      /\ Queues \subseteq Places /\ "publish" \in Places /\ "results" \in Places
      /\ {"publish", "results"} \cap Queues = {} /\ "ingest" \in Queues
  BY DEF DeliveryInv, TableInv, Shape, TypeOK, OneCopy, Places, Queues
<1>1. ASSUME OrchUnchanged, UNCHANGED <<orch, requests, consumer>> PROVE Calm'
  BY <1>1 DEF OrchUnchanged, DeliveryInv, Calm, Final, Current
<1>2. OrchUnchanged => UNCHANGED <<results, md, oc>>
  BY DEF OrchUnchanged
<1>3. UNCHANGED table => RowsExist /\ UNCHANGED rows
  BY DEF table, RowsExist
<1>4. UNCHANGED queue => OneMessage' /\ \A q \in Queues : Listed(q)' = Listed(q)
  BY <1>0 DEF OneMessage, Listed, Ready
<1>5. ASSUME NEW j \in Jobs, IngestCommit(j) PROVE Turn /\ OneCopy' /\ Calm'
  <2>1. /\ status[j] = "absent" /\ status' = [status EXCEPT ![j] = "queued"]
        /\ ingesting' = ingesting \cup {j}
        /\ UNCHANGED <<queue, rows, abandoned, orch, requests, consumer>> /\ OrchUnchanged
    BY <1>5 DEF IngestCommit
  <2>2. \A p \in Places : ~IsAt(j, p)
    BY <2>1 DEF DeliveryInv, SettledOnce
  <2>3. Moved(j, "nowhere", "publish")
    <3>1. "nowhere" \notin Places
      BY DEF Places, Queues
    <3>2. \A k \in Jobs : \A p \in Queues : IsAt(k, p)' <=> IsAt(k, p)
      BY <1>2, <1>4, <2>1, OnlyQueues
    <3>3. \A k \in Jobs : IsAt(k, "publish")' <=> IsAt(k, "publish") \/ k = j
      BY <1>2, <2>1, OnlyQueues
    <3> QED
      BY <1>0, <1>2, <2>1, <3>1, <3>2, <3>3, OnlyQueues DEF Moved
  <2>4. Enter
    BY <1>2, <2>1, <2>3, OnlyQueues DEF Enter
  <2> QED
    BY <1>1, <1>2, <1>4, <2>1, <2>4, OnlyQueues DEF Turn, OneCopy
<1>6. ASSUME NEW j \in Jobs, IngestPublish(j) PROVE Turn /\ OneCopy' /\ Calm'
  <2> DEFINE m == [job |-> j, path |-> "raw"]
  <2>1. /\ j \in ingesting /\ Publish("ingest", m) /\ ingesting' = ingesting \ {j}
        /\ UNCHANGED table /\ UNCHANGED <<abandoned, orch, requests, consumer>> /\ OrchUnchanged
    BY <1>6 DEF IngestPublish
  <2>2. m \in Msg /\ m.job = j
    BY DEF Msg, Paths
  <2> HIDE DEF m
  <2>3. IsAt(j, "publish")
    BY <2>1 DEF IsAt
  <2>4. j \notin Listed("ingest")
    BY <1>0, <2>3 DEF DeliveryInv, InOnePlaceAtMost, IsAt
  <2>5. /\ OneMessage'
        /\ \A p \in Queues : \A k \in Jobs :
              k \in Listed(p)' <=> k \in Listed(p) \/ (p = "ingest" /\ k = j)
    BY <1>0, <2>1, <2>2, <2>4, PublishPlaces
  <2>6. Moved(j, "publish", "ingest")
    <3>1. \A k \in Jobs : \A p \in Queues :
             IsAt(k, p)' <=> IsAt(k, p) \/ (p = "ingest" /\ k = j)
      BY <1>2, <2>1, <2>5, OnlyQueues
    <3>2. \A k \in Jobs : IsAt(k, "publish")' <=> IsAt(k, "publish") /\ k # j
      BY <1>2, <2>1, OnlyQueues
    <3> QED
      BY <1>0, <1>2, <2>1, <3>1, <3>2, OnlyQueues DEF Moved
  <2>7. Turn
    BY <1>0, <1>2, <1>3, <2>1, <2>3, <2>6, ForwardBy, OnlyQueues DEF Describing
  <2> QED
    BY <1>1, <1>2, <2>1, <2>5, <2>7, OnlyQueues DEF OneCopy
<1>7. ASSUME NEW j \in Jobs, IngestFail(j) PROVE Turn /\ OneCopy' /\ Calm'
  <2>1. /\ j \in ingesting /\ Abandon(j, "unpublished") /\ ingesting' = ingesting \ {j}
        /\ UNCHANGED table /\ UNCHANGED <<queue, orch, requests, consumer>> /\ OrchUnchanged
    BY <1>7 DEF IngestFail
  <2>2. IsAt(j, "publish") /\ ~Applied(j)
    <3>1. IsAt(j, "publish")
      BY <2>1 DEF IsAt
    <3> QED
      BY <1>0, <3>1, AppliedNowhereElse
  <2>3. /\ abandoned'[j] # {} /\ \A k \in Jobs \ {j} : abandoned'[k] = abandoned[k]
    BY <1>0, <2>1 DEF Abandon
  <2>4. \A k \in Jobs : \A p \in Places :
           IsAt(k, p)' <=> IsAt(k, p) /\ ~(k \in {j} /\ p = "publish")
    <3>1. \A k \in Jobs : \A p \in Queues : IsAt(k, p)' <=> IsAt(k, p)
      BY <1>2, <1>4, <2>1, OnlyQueues
    <3>2. \A k \in Jobs : IsAt(k, "publish")' <=> IsAt(k, "publish") /\ k # j
      BY <1>2, <2>1, OnlyQueues
    <3> QED
      BY <1>0, <1>2, <2>1, <3>1, <3>2, OnlyQueues
  <2>5. {j} \in SUBSET Jobs /\ \A k \in {j} : IsAt(k, "publish") /\ ~Applied(k) /\ abandoned'[k] # {}
    BY <2>2, <2>3
  <2>6. RowsExist /\ AppliedStays /\ UNCHANGED rows
    BY <1>2, <1>3, <2>1, OnlyQueues
  <2>7. GiveUp
    BY <1>0, <2>3, <2>4, <2>5, <2>6 DEF GiveUp
  <2> QED
    BY <1>1, <1>2, <1>4, <2>1, <2>7, OnlyQueues DEF Turn, OneCopy
<1>8. ASSUME NEW from \in Queues, NEW to \in Queues, from # to, NEW m \in Msg,
             from \in Describing => to \in Describing,
             Ready(from, m), Transfer(from, to, m),
             UNCHANGED table, UNCHANGED <<abandoned, ingesting, consumer>>, OrchUnchanged
      PROVE  Turn /\ OneCopy'
  <2>1. m.job \in Jobs /\ m.job \in Listed(from)
    BY <1>8, ListedReady DEF Msg
  <2>2. IsAt(m.job, from)
    BY <2>1 DEF IsAt
  <2>3. m.job \notin Listed(to)
    BY <1>0, <1>8, <2>1, <2>2 DEF DeliveryInv, InOnePlaceAtMost, IsAt
  <2>4. /\ OneMessage'
        /\ \A p \in Queues : \A k \in Jobs :
              k \in Listed(p)' <=> \/ p = to /\ k = m.job
                                   \/ k \in Listed(p) /\ ~(p = from /\ k = m.job)
    BY <1>0, <1>8, <2>3, TransferPlaces
  <2>5. Moved(m.job, from, to)
    <3>1. \A k \in Jobs : \A p \in Queues :
             IsAt(k, p)' <=> (k = m.job /\ p = to) \/ (IsAt(k, p) /\ ~(k = m.job /\ p = from))
      BY <1>2, <1>8, <2>4, OnlyQueues
    <3>2. \A k \in Jobs : IsAt(k, "publish")' <=> IsAt(k, "publish")
      BY <1>2, <1>8, OnlyQueues
    <3> QED
      BY <1>0, <1>2, <1>8, <3>1, <3>2, OnlyQueues DEF Moved
  <2>6. Turn
    BY <1>0, <1>2, <1>3, <1>8, <2>1, <2>2, <2>5, ForwardBy, OnlyQueues
  <2> QED
    BY <1>2, <1>8, <2>4, <2>6, OnlyQueues DEF OneCopy
<1>9. ASSUME NEW q \in WorkQueues
      PROVE  /\ q \in Queues /\ DeadLetters[q] \in Queues /\ q # DeadLetters[q]
             /\ q \in Describing <=> DeadLetters[q] \in Describing
  BY DEF WorkQueues, DeadLetters, Queues, Describing
<1>10. ASSUME NEW q \in WorkQueues, NEW m \in Msg, RequeuePublish(q, m)
       PROVE  Turn /\ OneCopy' /\ Calm'
  BY <1>1, <1>8, <1>9, <1>10 DEF RequeuePublish
<1>11. ASSUME NEW q \in WorkQueues, NEW m \in Msg, Expire(q, m)
       PROVE  Turn /\ OneCopy' /\ Calm'
  BY <1>1, <1>8, <1>9, <1>11 DEF Expire, memory
<1>12. ASSUME NEW q \in WorkQueues, DlxPurge(q) PROVE Turn /\ OneCopy' /\ Calm'
  <2>1. /\ Purge(DeadLetters[q]) /\ DeadLetters[q] \in Queues /\ OrchUnchanged
        /\ UNCHANGED table /\ UNCHANGED <<orch, consumer, ingesting, requests>>
    BY <1>9, <1>12 DEF DlxPurge, memory
  <2> QED
    BY <1>1, <1>2, <2>1, PurgeTurn
<1>13. CASE RequeueAck
  BY <1>1, <1>2, <1>3, <1>13, RestTurn DEF RequeueAck
<1>14. ~OrchCrash /\ ~RecoveryStep /\ ~RecoveryAbort
  BY DEF OrchCrash, Disturb, NothingRepeats, Repeating, RecoveryStep, RecoveryLoad,
     RecoveryCommit, RecoveryPublish, RecoveryAbort, DeliveryInv, Calm
<1> QED
  BY <1>5, <1>6, <1>7, <1>10, <1>11, <1>12, <1>13, <1>14 DEF OrchestratorNext

-------------------------------------------------------------------------------
LEMMA DeliveryInvInit == Init => DeliveryInv
<1> SUFFICES ASSUME Init PROVE DeliveryInv
  OBVIOUS
<1>1. TableInv
  BY InitShape DEF Init, TableInv, StoredNameExists, CompletedHasRows, Transaction, IdleConsumer
<1>2. Calm
  BY DEF Init, Calm, Running, IdleRequest, IdleConsumer
<1>3. OneCopy
  BY DEF Init, OneCopy, OneMessage, OneMD, OneOC, OneFinal, Ready, HoldsMD, HoldsOC, IdleWorker
<1>4. \A j \in Jobs : \A p \in Places : ~IsAt(j, p)
  <2>1. \A j \in Jobs : \A q \in Queues : j \notin Listed(q)
    BY ListedReady DEF Init, Ready
  <2>2. \A j \in Jobs : ~InMD(j) /\ ~InOC(j) /\ ~InResults(j) /\ j \notin ingesting
    BY DEF Init, InMD, InOC, InResults, IdleWorker
  <2> QED
    BY <2>1, <2>2 DEF IsAt
<1>5. SettledOnce
  BY <1>4 DEF Init, SettledOnce
<1> QED
  BY <1>1, <1>2, <1>3, <1>4, <1>5 DEF DeliveryInv, InOnePlaceAtMost

LEMMA TurnNext ==
    ASSUME DeliveryInv, NothingRepeats, Next
    PROVE  Turn /\ OneCopy' /\ Calm'
<1>1. CASE WorkerNext
  BY <1>1, MDTurn, OCTurn DEF WorkerNext
<1> QED
  BY <1>1, ConsumerTurn, ApiTurn, OrchestratorTurn, NextSplit

LEMMA DeliveryInvKept ==
    ASSUME NothingRepeats, DeliveryInv, [Next]_vars
    PROVE  DeliveryInv'
<1>1. TableInv'
  BY TableInvKept DEF DeliveryInv
<1>2. CASE Next
  <2>1. Turn /\ OneCopy' /\ Calm'
    BY <1>2, TurnNext
  <2>2. InOnePlaceAtMost' /\ SettledOnce'
    BY <2>1, TurnKeepsPlaces DEF DeliveryInv, TableInv
  <2> QED
    BY <1>1, <2>1, <2>2 DEF DeliveryInv
<1>3. CASE UNCHANGED vars
  BY <1>1, <1>3 DEF vars, DeliveryInv, Calm, OneCopy, OneMessage, OneMD, OneOC, OneFinal,
     InOnePlaceAtMost, SettledOnce, Applied, Current, Final, IsAt, Listed, Ready, InMD, InOC,
     InResults, HoldsMD, HoldsOC
<1> QED
  BY <1>2, <1>3

(* The initial state and every step of the pipeline are those of           *)
(* JobDelivery, or leave every job at its stage.                           *)
LEMMA DeliveryInitRefines == Init => Delivery!Init
  BY DEF Init, Delivery!Init, StageOf

LEMMA DeliveryStepRefines ==
    ASSUME NothingRepeats, DeliveryInv, DeliveryInv', [Next]_vars
    PROVE  \/ Delivery!Next
           \/ UNCHANGED [j \in Jobs |-> StageOf(j)]
<1>1. CASE Next
  <2>1. Turn
    BY <1>1, TurnNext
  <2>2. \/ Delivery!Next
        \/ \A k \in Jobs : StageOf(k)' = StageOf(k)
    BY <2>1, TurnRefines DEF DeliveryInv, TableInv
  <2> QED
    BY <2>2
<1>2. CASE UNCHANGED vars
  BY <1>2 DEF vars, StageOf, Described, Listed, Ready, InOC, InResults
<1> QED
  BY <1>1, <1>2

(* A result is stored at most once, for a described clip, and never after  *)
(* the job was given up: whatever fails, is cancelled, held, killed,       *)
(* deleted, purged or requeued, as long as nothing is redelivered, resumed *)
(* or restarted.                                                           *)
THEOREM DeliveredAtMostOnce ==
    ASSUME NothingRepeats
    PROVE  Spec => DeliversAtMostOnce
<1>1. Spec => []DeliveryInv
  BY DeliveryInvInit, DeliveryInvKept, PTL DEF Spec
<1> QED
  BY <1>1, DeliveryInitRefines, DeliveryStepRefines, PTL
  DEF Spec, DeliversAtMostOnce, Delivery!Spec
===============================================================================
