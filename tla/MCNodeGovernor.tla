---------------------------- MODULE MCNodeGovernor ----------------------------
(* Instances of NodeGovernor with the agent's default settings: cores in   *)
(* halves, RAM in units of 200 MB.                                         *)
EXTENDS NodeGovernor

Both(oc, md) == [t \in Scaled |-> IF t = "oc" THEN oc ELSE md]
MCCoreCost == Both(3, 3)
MCRamCost == Both(7, 8)
MCMinWorkers == Both(1, 1)
MCMaxWorkers == Both(8, 8)
===============================================================================
