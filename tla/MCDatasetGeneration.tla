------------------------ MODULE MCDatasetGeneration ------------------------
(***************************************************************************)
(* DatasetGeneration with a tick of 15 s: the orchestrator's 45 s, 30 s    *)
(* and 30 s are 3, 2 and 2 ticks.                                          *)
(***************************************************************************)
EXTENDS DatasetGeneration

\* The repetition of scripts/run_phase3_dataset_gen.py.
Repetition == <<"congestion_burst", "link_failure", "node_failure">>
=============================================================================
