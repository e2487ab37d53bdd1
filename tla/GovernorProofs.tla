---------------------------- MODULE GovernorProofs ----------------------------
(***************************************************************************)
(* The node agent keeps the machine's committed cores within the pool and  *)
(* runs at most one transcoder, for every pool, cost, limit, probe and     *)
(* fault of NodeGovernor.                                                  *)
(***************************************************************************)
EXTENDS NodeGovernor, TLAPS

(* What the cycle has in hand: the decision it carries out still holds,    *)
(* since only the agent itself adds containers.                            *)
Plan ==
    /\ pc \in {"create", "start"} => worker \in Types
    /\ pc = "park" => worker \in Scaled
    /\ pc = "create" /\ worker \in Scaled => Committed + CoreCost[worker] <= CorePool
    /\ pc = "create" /\ worker = "transcode" => Count("transcode") = 0
    /\ pc = "start" => created[worker] > 0

GovernorInv == TypeOK /\ Plan /\ CoresWithinPool /\ OneTranscoder

Counts == [t \in Scaled |-> running[t] + created[t]]

-------------------------------------------------------------------------------
(* Arithmetic of the core pool.                                            *)

LEMMA Distributes ==
    ASSUME NEW a \in Nat, NEW k \in Nat
    PROVE  (a + 1) * k = a * k + k
  OBVIOUS

LEMMA CoresOfType ==
    ASSUME NEW c \in [Scaled -> Nat]
    PROVE  CoresOf(c) \in Nat
  BY CostsAssumption DEF CoresOf, Scaled

(* One more worker of a type adds that type's cost.                        *)
LEMMA OneMore ==
    ASSUME NEW c \in [Scaled -> Nat], NEW d \in [Scaled -> Nat], NEW t \in Scaled,
           d[t] = c[t] + 1, \A u \in Scaled \ {t} : d[u] = c[u]
    PROVE  CoresOf(d) = CoresOf(c) + CoreCost[t]
<1> DEFINE oc == CoreCost["oc"]
           md == CoreCost["md"]
<1>0. oc \in Nat /\ md \in Nat /\ c["oc"] \in Nat /\ c["md"] \in Nat
  BY CostsAssumption DEF Scaled
<1>1. CASE t = "oc"
  <2>1. d["oc"] = c["oc"] + 1 /\ d["md"] = c["md"]
    BY <1>1 DEF Scaled
  <2>2. (c["oc"] + 1) * oc = c["oc"] * oc + oc
    BY <1>0, Distributes
  <2>3. c["oc"] * oc \in Nat /\ c["md"] * md \in Nat
    BY <1>0
  <2> QED
    BY <1>0, <1>1, <2>1, <2>2, <2>3 DEF CoresOf
<1>2. CASE t = "md"
  <2>1. d["md"] = c["md"] + 1 /\ d["oc"] = c["oc"]
    BY <1>2 DEF Scaled
  <2>2. (c["md"] + 1) * md = c["md"] * md + md
    BY <1>0, Distributes
  <2>3. c["oc"] * oc \in Nat /\ c["md"] * md \in Nat
    BY <1>0
  <2> QED
    BY <1>0, <1>2, <2>1, <2>2, <2>3 DEF CoresOf
<1> QED
  BY <1>1, <1>2 DEF Scaled

LEMMA CommittedIsCores == Committed = CoresOf(Counts)
  BY DEF Committed, Counts, Count

-------------------------------------------------------------------------------
LEMMA InitHolds == Init => GovernorInv
<1> SUFFICES ASSUME Init PROVE GovernorInv
  OBVIOUS
<1>1. TypeOK
  BY LimitsAssumption DEF Init, TypeOK, Steps, Types, Scaled
<1>2. Plan
  BY DEF Init, Plan
<1>3. CoresOf(Counts) = CoresOf(running)
  BY <1>1 DEF Init, CoresOf, Counts, TypeOK, Types, Scaled
<1>4. CoresWithinPool /\ OneTranscoder
  BY <1>1, <1>3 DEF Init, CoresWithinPool, Counts, OneTranscoder, TypeOK, Types
<1> QED
  BY <1>1, <1>2, <1>4 DEF GovernorInv

(* The steps that leave the containers alone.                              *)
LEMMA ThinkingHolds ==
    ASSUME GovernorInv, UNCHANGED Containers,
           \/ Wake \/ Probe \/ DecideHold \/ ActionFails \/ CycleFails \/ AgentRestarts
           \/ \E t \in Scaled : DecidePark(t) \/ DecideStart(t)
           \/ UNCHANGED vars
    PROVE  GovernorInv'
<1> USE DEF GovernorInv
<1>1. Committed' = Committed /\ Count("transcode")' = Count("transcode")
  BY DEF Committed, Count, CoresOf, Containers
<1>2. CoresWithinPool' /\ OneTranscoder'
  BY DEF CoresWithinPool, OneTranscoder, CoresOf, Containers
<1>3. CASE Wake
  <2>1. cooling' \in 0..Cooldown
    BY <1>3, LimitsAssumption DEF Wake, TypeOK
  <2>2. TypeOK'
    BY <1>3, <2>1 DEF Wake, TypeOK, Goto, Containers, Steps, Types
  <2>3. Plan'
    BY <1>1, <1>3 DEF Wake, Plan, Goto, Types, Scaled
  <2> QED
    BY <1>2, <2>2, <2>3
<1>4. CASE Probe
  BY <1>1, <1>2, <1>4 DEF Probe, TypeOK, Plan, Goto, Containers, Steps
<1>5. CASE DecideHold
  BY <1>1, <1>2, <1>5 DEF DecideHold, TypeOK, Plan, Goto, Containers, Steps
<1>6. CASE ActionFails
  BY <1>1, <1>2, <1>6, LimitsAssumption
     DEF ActionFails, Leave, Fault, TypeOK, Plan, Goto, Containers, Steps
<1>7. CASE CycleFails
  BY <1>1, <1>2, <1>7 DEF CycleFails, Fault, TypeOK, Plan, Goto, Containers, Steps
<1>8. CASE AgentRestarts
  BY <1>1, <1>2, <1>8, LimitsAssumption
     DEF AgentRestarts, Fault, TypeOK, Plan, Goto, Containers, Steps
<1>9. ASSUME NEW t \in Scaled, DecidePark(t)
      PROVE  GovernorInv'
  BY <1>1, <1>2, <1>9, LimitsAssumption
     DEF DecidePark, Act, TypeOK, Plan, Goto, Containers, Steps, Types
<1>10. ASSUME NEW t \in Scaled, DecideStart(t)
       PROVE  GovernorInv'
  <2>1. Committed + CoreCost[t] <= CorePool
    BY <1>10 DEF DecideStart, ToStart, ToRaise, ToAdd, BelowMin, Wanted, Fits
  <2> QED
    BY <1>1, <1>2, <1>10, <2>1, LimitsAssumption
       DEF DecideStart, Act, TypeOK, Plan, Goto, Containers, Steps, Types, Scaled
<1>11. CASE UNCHANGED vars
  BY <1>1, <1>2, <1>11 DEF vars, TypeOK, Plan
<1> QED
  BY <1>3, <1>4, <1>5, <1>6, <1>7, <1>8, <1>9, <1>10, <1>11

-------------------------------------------------------------------------------
(* The steps that change the containers.                                   *)

LEMMA CreateHolds ==
    ASSUME GovernorInv, Create
    PROVE  GovernorInv'
<1> USE DEF GovernorInv
<1>1. worker \in Types
  BY DEF Plan, Create
<1>2. TypeOK'
  BY <1>1 DEF Create, TypeOK, Goto, Steps, Types
<1>3. Plan'
  BY <1>1 DEF Create, Plan, Goto, TypeOK, Types
<1>4. CoresWithinPool' /\ OneTranscoder'
  <2>1. CASE worker \in Scaled
    <3>1. Counts \in [Scaled -> Nat] /\ Counts' \in [Scaled -> Nat]
      BY <1>2 DEF Counts, TypeOK, Types
    <3>2. Counts'[worker] = Counts[worker] + 1
      BY <2>1 DEF Create, Counts, TypeOK, Types
    <3>3. \A u \in Scaled \ {worker} : Counts'[u] = Counts[u]
      BY <2>1 DEF Create, Counts, TypeOK, Types
    <3>4. CoresOf(Counts') = CoresOf(Counts) + CoreCost[worker]
      BY <2>1, <3>1, <3>2, <3>3, OneMore
    <3>5. CoresOf(Counts') <= CorePool
      BY <2>1, <3>4, CommittedIsCores DEF Plan, Create
    <3>6. CoresWithinPool'
      BY <3>5 DEF CoresWithinPool, Counts, CoresOf
    <3> QED
      BY <2>1, <3>6 DEF OneTranscoder, Create, TypeOK, Types, Scaled
  <2>2. CASE worker = "transcode"
    <3>1. \A u \in Scaled : created'[u] = created[u] /\ running'[u] = running[u]
      BY <2>2 DEF Create, TypeOK, Types, Scaled
    <3>2. CoresWithinPool'
      BY <3>1 DEF CoresWithinPool, CoresOf, Scaled
    <3> QED
      BY <2>2, <3>2 DEF Plan, Create, Count, OneTranscoder, TypeOK, Types
  <2> QED
    BY <1>1, <2>1, <2>2 DEF Types
<1> QED
  BY <1>2, <1>3, <1>4

(* Moving a container from created to running keeps every count.           *)
LEMMA StartHolds ==
    ASSUME GovernorInv, Start
    PROVE  GovernorInv'
<1> USE DEF GovernorInv
<1>1. worker \in Types /\ created[worker] > 0
  BY DEF Plan, Start
<1>2. TypeOK'
  BY <1>1, LimitsAssumption DEF Start, Leave, TypeOK, Goto, Steps
<1>3. Plan'
  BY DEF Start, Leave, Plan, Goto
<1>4. \A t \in Types : running'[t] + created'[t] = running[t] + created[t]
  BY <1>1 DEF Start, TypeOK
<1>5. CoresWithinPool' /\ OneTranscoder'
  BY <1>4 DEF CoresWithinPool, CoresOf, OneTranscoder, Types, Scaled
<1> QED
  BY <1>2, <1>3, <1>5

(* One running container less.                                             *)
LEMMA FewerHolds ==
    ASSUME GovernorInv, NEW t \in Types, running[t] > 0, TypeOK', Plan', created' = created,
           running' = [running EXCEPT ![t] = @ - 1]
    PROVE  GovernorInv'
<1> USE DEF GovernorInv
<1>1. OneTranscoder'
  BY DEF OneTranscoder, TypeOK, Types
<1>2. CASE t \in Scaled
  <2>1. Counts \in [Scaled -> Nat] /\ Counts' \in [Scaled -> Nat]
    BY DEF Counts, TypeOK, Types
  <2>2. Counts[t] = Counts'[t] + 1 /\ \A u \in Scaled \ {t} : Counts[u] = Counts'[u]
    BY <1>2 DEF Counts, TypeOK, Types
  <2>3. CoresOf(Counts) = CoresOf(Counts') + CoreCost[t]
    BY <1>2, <2>1, <2>2, OneMore
  <2>4. CoresOf(Counts) <= CorePool
    BY DEF CoresWithinPool, Counts
  <2>5. CoresOf(Counts') <= CorePool
    BY <1>2, <2>1, <2>3, <2>4, CoresOfType, CostsAssumption
  <2> QED
    BY <1>1, <2>5 DEF CoresWithinPool, Counts, CoresOf
<1>3. CASE t = "transcode"
  <2>1. \A u \in Scaled : created'[u] = created[u] /\ running'[u] = running[u]
    BY <1>3 DEF TypeOK, Types, Scaled
  <2> QED
    BY <1>1, <2>1 DEF CoresWithinPool, CoresOf, Scaled
<1> QED
  BY <1>2, <1>3 DEF Types

LEMMA ParkHolds ==
    ASSUME GovernorInv, Park
    PROVE  GovernorInv'
<1> USE DEF GovernorInv
<1>1. worker \in Types
  BY DEF Plan, Park, Types
<1>2. TypeOK'
  BY <1>1, LimitsAssumption DEF Park, Leave, TypeOK, Goto, Steps
<1>3. Plan'
  BY DEF Park, Leave, Plan, Goto
<1>4. CASE running[worker] > 0
  BY <1>1, <1>2, <1>3, <1>4, FewerHolds DEF Park
<1>5. CASE ~(running[worker] > 0)
  BY <1>2, <1>3, <1>5 DEF Park, CoresWithinPool, OneTranscoder, CoresOf
<1> QED
  BY <1>4, <1>5

(* A worker that exits while another is about to be created only makes     *)
(* more room for it.                                                       *)
LEMMA ExitHolds ==
    ASSUME GovernorInv, NEW t \in Types, WorkerExits(t)
    PROVE  GovernorInv'
<1> USE DEF GovernorInv
<1>1. TypeOK'
  BY DEF WorkerExits, Fault, TypeOK
<1>2. Counts \in [Scaled -> Nat] /\ Counts' \in [Scaled -> Nat]
  BY <1>1 DEF Counts, TypeOK, Types
<1>3. Committed' <= Committed
  <2>1. CASE t \in Scaled
    <3>1. Counts[t] = Counts'[t] + 1 /\ \A u \in Scaled \ {t} : Counts[u] = Counts'[u]
      BY <2>1 DEF WorkerExits, Counts, TypeOK, Types
    <3>2. CoresOf(Counts) = CoresOf(Counts') + CoreCost[t]
      BY <2>1, <1>2, <3>1, OneMore
    <3>3. CoresOf(Counts') <= CoresOf(Counts)
      BY <2>1, <1>2, <3>2, CoresOfType, CostsAssumption
    <3> QED
      BY <3>3 DEF Committed, Counts, Count, CoresOf
  <2>2. CASE t = "transcode"
    <3>1. \A u \in Scaled : created'[u] = created[u] /\ running'[u] = running[u]
      BY <2>2 DEF WorkerExits, TypeOK, Types, Scaled
    <3>2. Counts' = Counts
      BY <3>1 DEF Counts
    <3>3. Committed' = Committed
      BY <3>2 DEF Committed, Counts, Count, CoresOf
    <3>4. CoresOf(Counts) \in Nat
      BY <1>2, CoresOfType
    <3> QED
      BY <3>3, <3>4, CommittedIsCores
  <2> QED
    BY <2>1, <2>2 DEF Types
<1>4. Committed \in Nat /\ Committed' \in Nat
  <2>1. CoresOf(Counts) \in Nat /\ CoresOf(Counts') \in Nat
    BY <1>2, CoresOfType
  <2> QED
    BY <2>1 DEF Committed, Counts, Count, CoresOf
<1>5. Plan'
  <2>1. Count("transcode")' <= Count("transcode") /\ Count("transcode")' \in Nat
    BY <1>1 DEF WorkerExits, Count, TypeOK, Types
  <2>2. pc = "create" /\ worker \in Scaled => Committed' + CoreCost[worker] <= CorePool
    BY <1>3, <1>4, CostsAssumption DEF Plan
  <2>3. pc = "create" /\ worker = "transcode" => Count("transcode")' = 0
    BY <2>1 DEF Plan
  <2> QED
    BY <2>2, <2>3 DEF WorkerExits, Plan
<1> QED
  BY <1>1, <1>5, FewerHolds DEF WorkerExits

-------------------------------------------------------------------------------
LEMMA StepHolds == GovernorInv /\ [Next]_vars => GovernorInv'
<1> SUFFICES ASSUME GovernorInv, [Next]_vars PROVE GovernorInv'
  OBVIOUS
<1>1. CASE Create
  BY <1>1, CreateHolds
<1>2. CASE Start
  BY <1>2, StartHolds
<1>3. CASE Park
  BY <1>3, ParkHolds
<1>4. ASSUME NEW t \in Types, WorkerExits(t)
      PROVE  GovernorInv'
  BY <1>4, ExitHolds
<1>5. CASE \/ Wake \/ Probe \/ DecideHold \/ ActionFails \/ CycleFails \/ AgentRestarts
           \/ \E t \in Scaled : DecidePark(t) \/ DecideStart(t)
           \/ UNCHANGED vars
  <2>1. UNCHANGED Containers
    BY <1>5 DEF Wake, Probe, DecideHold, ActionFails, CycleFails, AgentRestarts,
       DecidePark, DecideStart, vars, Containers
  <2> QED
    BY <1>5, <2>1, ThinkingHolds
<1> QED
  BY <1>1, <1>2, <1>3, <1>4, <1>5 DEF Next, Cycle

(* The invariant of every behaviour of the node agent.                     *)
THEOREM GovernorSafe == Spec => []GovernorInv
  BY InitHolds, StepHolds, PTL DEF Spec

(* The committed cores never exceed the shared pool (policy.decide,        *)
(* budget.compute_budget).                                                 *)
THEOREM CoresNeverExceeded == Spec => []CoresWithinPool
<1>1. GovernorInv => CoresWithinPool
  BY DEF GovernorInv
<1> QED
  BY <1>1, GovernorSafe, PTL

(* Supervisor.ensure_transcode never leaves two transcoders.               *)
THEOREM TranscoderIsUnique == Spec => []OneTranscoder
<1>1. GovernorInv => OneTranscoder
  BY DEF GovernorInv
<1> QED
  BY <1>1, GovernorSafe, PTL

(* Every variable keeps its type; no count goes below zero.                *)
THEOREM GovernorTypeCorrect == Spec => []TypeOK
<1>1. GovernorInv => TypeOK
  BY DEF GovernorInv
<1> QED
  BY <1>1, GovernorSafe, PTL
===============================================================================
