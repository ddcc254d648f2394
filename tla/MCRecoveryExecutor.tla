------------------------- MODULE MCRecoveryExecutor -------------------------
(***************************************************************************)
(* RecoveryExecutor with clients that send one body of each kind.          *)
(***************************************************************************)
EXTENDS RecoveryExecutor

Predictive == [target_type |-> "link", target_link_id |-> "L1", new_path |-> <<"s1", "s2">>,
               reason |-> "predictive", run_id |-> "run_phase2"]
Reactive == [target_type |-> "link", target_link_id |-> "L1", reason |-> "reactive"]
UnknownRun == [Predictive EXCEPT !.run_id = "run_0009"]

SomeBodies == {Predictive, Reactive, UnknownRun}
=============================================================================
