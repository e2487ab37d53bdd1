----------------------------- MODULE JobDelivery ------------------------------
(***************************************************************************)
(* What the pipeline promises for one clip while no worker crashes and     *)
(* nobody resumes or restarts anything: it is submitted once, described    *)
(* once, and its result is stored at most once, or it is given up for good.*)
(***************************************************************************)
EXTENDS Naturals

CONSTANT Jobs

VARIABLE stage

Stages == {"absent", "submitted", "described", "recorded", "dropped", "removed"}
Open == {"submitted", "described"}

Init == stage = [j \in Jobs |-> "absent"]

Step(j, from, to) == stage[j] \in from /\ stage' = [stage EXCEPT ![j] = to]

Submit(j) == Step(j, {"absent"}, "submitted")
Describe(j) == Step(j, {"submitted"}, "described")
Record(j) == Step(j, {"described"}, "recorded")

(* A purge gives up several jobs at once, a delete removes several.        *)
Together(from, to) ==
    \E S \in SUBSET {j \in Jobs : stage[j] \in from} :
        stage' = [j \in Jobs |-> IF j \in S THEN to ELSE stage[j]]
Drop == Together(Open, "dropped")
Remove == Together(Stages \ {"absent"}, "removed")

Next ==
    \/ \E j \in Jobs : Submit(j) \/ Describe(j) \/ Record(j)
    \/ Drop \/ Remove

Spec == Init /\ [][Next]_stage
===============================================================================
