------------------------- MODULE DatasetGeneration -------------------------
(***************************************************************************)
(* How the labelled dataset comes about: the orchestrator of               *)
(* scripts/run_phase3_dataset_gen.py with network/fault_injector.py, the   *)
(* collector's rows, and ml/dataset_pipeline.py, which reads both tables   *)
(* and labels the rows fault by fault.                                     *)
(*                                                                         *)
(* Time is counted in ticks; sleep(n) wakes up between n and n + MaxLag.   *)
(* A row stands for the complete rows of one tick: the labels do not look  *)
(* at the link.                                                            *)
(***************************************************************************)
EXTENDS Integers, Sequences, FiniteSets

CONSTANTS
    Settling,       \* the sleeps before the first repetition
    Baseline,       \* the sleep before a fault
    Duration,       \* duration_seconds of a fault
    Precursor,      \* PRECURSOR_WINDOW_MS
    FaultTypes,     \* the faults of a repetition, in order
    LogMayFail,     \* may the insert into fault_log fail
    MaxFaults,      \* the faults of the experiment
    MaxLag,         \* bound: how late a sleep or a command ends
    MaxRows         \* bound: rows written

ASSUME DatasetAssumption ==
    /\ Settling \in Nat /\ Baseline \in Nat /\ Precursor \in Nat
    /\ Duration \in Nat
    /\ MaxFaults \in Nat \ {0} /\ MaxLag \in Nat /\ MaxRows \in Nat
    /\ LogMayFail \in BOOLEAN
    /\ FaultTypes \in Seq(STRING) /\ Len(FaultTypes) > 0

VARIABLES
    now,
    phase,          \* of the orchestrator: "baseline", "logged", "active", "finished"
    since,          \* when its phase began
    injected,       \* faults injected or about to be
    fault_log,      \* rows of fault_log
    telemetry,      \* ts of the complete rows of link_telemetry
    active_times,   \* history: the ticks at which a fault was in effect
    stage,          \* of the pipeline: "idle", "telemetry", "labelling", "exported"
    telemetry_df,   \* its copy of the rows: ts -> [label, fault_type]
    known,          \* the faults it has read
    faults_df       \* those it has not applied yet

experimentVars == <<now, phase, since, injected, fault_log, telemetry, active_times>>
pipelineVars == <<stage, telemetry_df, known, faults_df>>
vars == <<experimentVars, pipelineVars>>

fault_type(n) == FaultTypes[((n - 1) % Len(FaultTypes)) + 1]

\* Every injector tells its duration_seconds, in severity_params.
Fault == [event : 1 .. MaxFaults, fault_type : {FaultTypes[i] : i \in DOMAIN FaultTypes},
          start : Nat, duration : {Duration}]
Labels == {-1, 0, 1}

TypeOK ==
    /\ now \in Nat /\ since \in 0 .. now
    /\ phase \in {"baseline", "logged", "active", "finished"}
    /\ injected \in 0 .. MaxFaults
    /\ fault_log \subseteq Fault
    /\ telemetry \subseteq 0 .. now
    /\ active_times \subseteq 0 .. now
    /\ stage \in {"idle", "telemetry", "labelling", "exported"}
    /\ DOMAIN telemetry_df \subseteq telemetry
    /\ \A t \in DOMAIN telemetry_df :
        /\ telemetry_df[t].label \in Labels
        /\ telemetry_df[t].fault_type \in {"none"} \cup {FaultTypes[i] : i \in DOMAIN FaultTypes}
    /\ known \subseteq fault_log /\ faults_df \subseteq known

Init ==
    /\ now = 0 /\ since = 0
    /\ phase = "baseline"
    /\ injected = 0
    /\ fault_log = {}
    /\ telemetry = {}
    /\ active_times = {}
    /\ stage = "idle"
    /\ telemetry_df = <<>>
    /\ known = {}
    /\ faults_df = {}

-----------------------------------------------------------------------------
\* The experiment.

\* A mutant: no longer than the precursor window.
ShortSleep ==
    CASE phase = "baseline" -> Precursor
      [] phase = "active" -> Duration
      [] OTHER -> 0

\* How long the orchestrator sleeps in its present phase.
Sleep ==
    CASE phase = "baseline" -> IF injected = 0 THEN Settling + Baseline ELSE Baseline
      [] phase = "active" -> Duration
      [] OTHER -> 0

Tick ==
    /\ phase # "finished"
    /\ now < since + Sleep + MaxLag
    /\ now' = now + 1
    /\ active_times' = IF phase = "active" THEN active_times \cup {now + 1} ELSE active_times
    /\ UNCHANGED <<phase, since, injected, fault_log, telemetry, pipelineVars>>

\* commit(), once a tick at most, with ts_epoch_ms taken when it writes.
WriteRow ==
    /\ phase # "finished"
    /\ now \notin telemetry /\ Cardinality(telemetry) < MaxRows
    /\ telemetry' = telemetry \cup {now}
    /\ UNCHANGED <<now, phase, since, injected, fault_log, active_times, pipelineVars>>

\* The baseline is over: log_fault_to_db, which reports an error to no one.
log_fault_to_db ==
    /\ phase = "baseline"
    /\ now - since >= Sleep
    /\ injected' = injected + 1
    /\ phase' = "logged" /\ since' = now
    /\ \/ fault_log' = fault_log \cup
            {[event |-> injected', fault_type |-> fault_type(injected'), start |-> now,
              duration |-> Duration]}
       \/ LogMayFail /\ UNCHANGED fault_log
    /\ UNCHANGED <<now, telemetry, active_times, pipelineVars>>

\* The command that brings the fault about takes effect.
Inject ==
    /\ phase = "logged"
    /\ phase' = "active" /\ since' = now
    /\ active_times' = active_times \cup {now}
    /\ UNCHANGED <<now, injected, fault_log, telemetry, pipelineVars>>

\* A mutant: the orchestrator does not count.
RestoreForever ==
    /\ phase = "active"
    /\ now - since >= Sleep
    /\ phase' = "baseline" /\ since' = now
    /\ UNCHANGED <<now, injected, fault_log, telemetry, active_times, pipelineVars>>

\* duration_seconds later the injector undoes it, and the next baseline begins.
Restore ==
    /\ phase = "active"
    /\ now - since >= Sleep
    /\ phase' = IF injected < MaxFaults THEN "baseline" ELSE "finished"
    /\ since' = now
    /\ UNCHANGED <<now, injected, fault_log, telemetry, active_times, pipelineVars>>

\* An exception or a KeyboardInterrupt: net.stop() and no more telemetry.
Abort ==
    /\ phase # "finished"
    /\ phase' = "finished" /\ since' = now
    /\ UNCHANGED <<now, injected, fault_log, telemetry, active_times, pipelineVars>>

-----------------------------------------------------------------------------
\* The pipeline, which anyone may start at any time.

ReadTelemetry ==
    /\ stage = "idle"
    /\ stage' = "telemetry"
    /\ telemetry_df' = [t \in telemetry |-> [label |-> 0, fault_type |-> "none"]]
    /\ UNCHANGED <<experimentVars, known, faults_df>>

ReadFaults ==
    /\ stage = "telemetry"
    /\ stage' = IF telemetry_df = <<>> THEN "idle" ELSE "labelling"
    /\ known' = IF telemetry_df = <<>> THEN {} ELSE fault_log
    /\ faults_df' = known'
    /\ UNCHANGED <<experimentVars, telemetry_df>>

active_mask(f, t) == f.start <= t /\ t <= f.start + f.duration

precursor_mask(f, t) == f.start - Precursor <= t /\ t < f.start

\* A mutant: the precursor label goes over any other.
LabelOver(f, t) ==
    CASE precursor_mask(f, t) -> [label |-> 1, fault_type |-> f.fault_type]
      [] active_mask(f, t) -> [label |-> -1, fault_type |-> f.fault_type]
      [] OTHER -> telemetry_df[t]

\* What one fault makes of the row of tick t.
Relabelled(f, t) ==
    CASE active_mask(f, t) -> [label |-> -1, fault_type |-> f.fault_type]
      [] precursor_mask(f, t) /\ telemetry_df[t].label = 0 ->
            [label |-> 1, fault_type |-> f.fault_type]
      [] OTHER -> telemetry_df[t]

\* One fault, in the order the database returns them.
LabelFault(f) ==
    /\ stage = "labelling"
    /\ f \in faults_df
    /\ faults_df' = faults_df \ {f}
    /\ telemetry_df' = [t \in DOMAIN telemetry_df |-> Relabelled(f, t)]
    /\ UNCHANGED <<experimentVars, stage, known>>

\* to_csv.
Export ==
    /\ stage = "labelling" /\ faults_df = {}
    /\ stage' = "exported"
    /\ UNCHANGED <<experimentVars, telemetry_df, known, faults_df>>

-----------------------------------------------------------------------------
Next ==
    \/ Tick \/ WriteRow \/ log_fault_to_db \/ Inject \/ Restore \/ Abort
    \/ ReadTelemetry \/ ReadFaults \/ (\E f \in faults_df : LabelFault(f)) \/ Export

Spec == Init /\ [][Next]_vars

-----------------------------------------------------------------------------
\* Properties.

\* The faults the pipeline has applied to its rows.
Applied == IF stage \in {"labelling", "exported"} THEN known \ faults_df ELSE {}

\* What the label of a row has to be, whatever the order of the faults: a fault in
\* effect outweighs a fault to come, and that one a quiet network.
LabelOf(t, faults) ==
    CASE \E f \in faults : active_mask(f, t) -> -1
      [] (\A f \in faults : ~active_mask(f, t)) /\ (\E f \in faults : precursor_mask(f, t)) -> 1
      [] OTHER -> 0

\* The labels do not depend on the order in which the database returns the faults,
\* and the fault_type beside a label is that of a fault which accounts for it.
LabelsAreJustified ==
    \A t \in DOMAIN telemetry_df :
        LET row == telemetry_df[t]
        IN  /\ row.label = LabelOf(t, Applied)
            /\ row.label = -1 => \E f \in Applied :
                    active_mask(f, t) /\ row.fault_type = f.fault_type
            /\ row.label = 1 => \E f \in Applied :
                    precursor_mask(f, t) /\ row.fault_type = f.fault_type
            /\ row.label = 0 => row.fault_type = "none"

\* A row labelled as the precursor of a fault was not measured during another one,
\* logged or not: the baseline before a fault outlasts the precursor window.
PrecursorsAreClean ==
    \A t \in DOMAIN telemetry_df : telemetry_df[t].label = 1 => t \notin active_times
=============================================================================
