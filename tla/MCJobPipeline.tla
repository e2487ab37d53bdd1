---------------------------- MODULE MCJobPipeline -----------------------------
(* Small instances of JobPipeline for TLC.                                 *)
EXTENDS JobPipeline, TLC

Symmetry == Permutations(MDWorkers) \cup Permutations(OCWorkers)
                \cup Permutations(Requests)
===============================================================================
