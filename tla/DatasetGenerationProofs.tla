---------------------- MODULE DatasetGenerationProofs ----------------------
(***************************************************************************)
(* The labels of the dataset, for any number of faults and rows, any       *)
(* durations and any delay: they are those of a definition without an      *)
(* order, and, when the baseline outlasts the precursor window, no row     *)
(* labelled as a precursor was measured during a fault.                    *)
(***************************************************************************)
EXTENDS DatasetGeneration, TLAPS

\* The type of the n-th fault is one of the repetition's.
LEMMA FaultTypeInRange ==
    ASSUME DatasetAssumption, NEW n \in Nat \ {0}
    PROVE  fault_type(n) \in {FaultTypes[i] : i \in DOMAIN FaultTypes}
<1>1. Len(FaultTypes) \in Nat /\ Len(FaultTypes) > 0 /\ DOMAIN FaultTypes = 1 .. Len(FaultTypes)
  BY DEF DatasetAssumption
<1>2. ((n - 1) % Len(FaultTypes)) + 1 \in 1 .. Len(FaultTypes)
  BY <1>1
<1> QED  BY <1>1, <1>2 DEF fault_type

-----------------------------------------------------------------------------
TypeInvariant == TypeOK /\ (phase = "baseline" => injected < MaxFaults)

\* The actions of the experiment keep it.
LEMMA ExperimentTypes ==
    ASSUME DatasetAssumption, TypeInvariant,
           Tick \/ WriteRow \/ log_fault_to_db \/ Inject \/ Restore \/ Abort
    PROVE  TypeInvariant'
<1> USE DEF TypeInvariant, TypeOK
<1>1. CASE Tick
  <2>1. now' = now + 1 /\ 0 .. now \subseteq 0 .. now' /\ now' \in 0 .. now'
    BY <1>1 DEF Tick
  <2>2. active_times' \subseteq 0 .. now'
    BY <1>1, <2>1 DEF Tick
  <2>3. UNCHANGED <<phase, since, injected, fault_log, telemetry, stage, telemetry_df,
                    known, faults_df>>
    BY <1>1 DEF Tick, pipelineVars
  <2> QED  BY <2>1, <2>2, <2>3
<1>2. CASE WriteRow
  <2>1. telemetry' = telemetry \cup {now} /\ telemetry' \subseteq 0 .. now
    BY <1>2 DEF WriteRow
  <2>2. UNCHANGED <<now, phase, since, injected, fault_log, active_times, stage,
                    telemetry_df, known, faults_df>>
    BY <1>2 DEF WriteRow, pipelineVars
  <2> QED  BY <2>1, <2>2
<1>3. CASE log_fault_to_db
  <2>1. injected' \in 1 .. MaxFaults
    BY <1>3 DEF log_fault_to_db, DatasetAssumption
  <2>2. fault_type(injected') \in {FaultTypes[i] : i \in DOMAIN FaultTypes}
    BY <2>1, FaultTypeInRange DEF DatasetAssumption
  <2>3. fault_log' \subseteq Fault
    BY <1>3, <2>1, <2>2 DEF log_fault_to_db, Fault
  <2>4. known \subseteq fault_log'
    BY <1>3 DEF log_fault_to_db
  <2> QED  BY <1>3, <2>1, <2>3, <2>4 DEF log_fault_to_db, pipelineVars
<1>4. CASE Inject
  BY <1>4 DEF Inject, pipelineVars
<1>5. CASE Restore
  BY <1>5 DEF Restore, pipelineVars
<1>6. CASE Abort
  BY <1>6 DEF Abort, pipelineVars
<1> QED  BY <1>1, <1>2, <1>3, <1>4, <1>5, <1>6

\* And so do those of the pipeline.
LEMMA PipelineTypes ==
    ASSUME DatasetAssumption, TypeInvariant,
           ReadTelemetry \/ ReadFaults \/ (\E f \in faults_df : LabelFault(f)) \/ Export
    PROVE  TypeInvariant'
<1> USE DEF TypeInvariant, TypeOK
<1>1. CASE ReadTelemetry
  BY <1>1 DEF ReadTelemetry, experimentVars, Labels
<1>2. CASE ReadFaults
  BY <1>2 DEF ReadFaults, experimentVars
<1>3. ASSUME NEW f \in faults_df, LabelFault(f)  PROVE TypeInvariant'
  <2>1. f.fault_type \in {FaultTypes[i] : i \in DOMAIN FaultTypes}
    BY DEF Fault
  <2>2. \A t \in DOMAIN telemetry_df :
            /\ Relabelled(f, t).label \in Labels
            /\ Relabelled(f, t).fault_type
                 \in {"none"} \cup {FaultTypes[i] : i \in DOMAIN FaultTypes}
    BY <2>1 DEF Relabelled, Labels
  <2> QED  BY <1>3, <2>2 DEF LabelFault, experimentVars
<1>4. CASE Export
  BY <1>4 DEF Export, experimentVars
<1> QED  BY <1>1, <1>2, <1>3, <1>4

LEMMA StepTypes ==
    ASSUME DatasetAssumption, TypeInvariant, [Next]_vars
    PROVE  TypeInvariant'
<1>1. CASE UNCHANGED vars
  BY <1>1 DEF vars, experimentVars, pipelineVars, TypeInvariant, TypeOK
<1> QED  BY ExperimentTypes, PipelineTypes, <1>1 DEF Next

LEMMA InitTypes ==
    ASSUME DatasetAssumption  PROVE Init => TypeInvariant
BY DEF Init, TypeInvariant, TypeOK, DatasetAssumption

\* Type correctness: times, the count of faults and the rows of the dataset stay
\* in their sets; the orchestrator's count keeps it from a fault too many.
THEOREM TypeCorrect ==
    ASSUME DatasetAssumption  PROVE Spec => []TypeOK
<1>1. TypeInvariant /\ [Next]_vars => TypeInvariant'
  BY DatasetAssumption, StepTypes
<1>2. TypeInvariant => TypeOK
  BY DEF TypeInvariant
<1> QED  BY DatasetAssumption, InitTypes, <1>1, <1>2, PTL DEF Spec

-----------------------------------------------------------------------------
\* What the row of tick t has to look like once these faults are applied.
Justified(row, t, faults) ==
    /\ row.label = LabelOf(t, faults)
    /\ row.label = -1 => \E f \in faults : active_mask(f, t) /\ row.fault_type = f.fault_type
    /\ row.label = 1 => \E f \in faults : precursor_mask(f, t) /\ row.fault_type = f.fault_type
    /\ row.label = 0 => row.fault_type = "none"

\* One more fault: from a row justified by the faults before it to one justified
\* by them and it, whichever fault it is.
LEMMA OneMoreFault ==
    ASSUME NEW t \in Int, NEW faults, NEW f, f.start \in Int,
           Justified(telemetry_df[t], t, faults)
    PROVE  Justified(Relabelled(f, t), t, faults \cup {f})
<1> DEFINE old == telemetry_df[t]
<1>1. CASE active_mask(f, t)
  <2>1. LabelOf(t, faults \cup {f}) = -1
    BY <1>1 DEF LabelOf
  <2>2. Relabelled(f, t) = [label |-> -1, fault_type |-> f.fault_type]
    BY <1>1 DEF Relabelled, active_mask, precursor_mask
  <2> QED  BY <1>1, <2>1, <2>2 DEF Justified
<1>2. CASE ~active_mask(f, t) /\ precursor_mask(f, t) /\ old.label = 0
  <2>1. \A g \in faults : ~active_mask(g, t)
    BY <1>2 DEF Justified, LabelOf
  <2>2. LabelOf(t, faults \cup {f}) = 1
    BY <1>2, <2>1 DEF LabelOf
  <2>3. Relabelled(f, t) = [label |-> 1, fault_type |-> f.fault_type]
    BY <1>2 DEF Relabelled
  <2> QED  BY <1>2, <2>2, <2>3 DEF Justified
<1>3. CASE ~active_mask(f, t) /\ ~(precursor_mask(f, t) /\ old.label = 0)
  <2>1. Relabelled(f, t) = old
    BY <1>3 DEF Relabelled
  <2>2. LabelOf(t, faults \cup {f}) = LabelOf(t, faults)
    BY <1>3 DEF LabelOf, Justified
  <2> QED  BY <2>1, <2>2 DEF Justified
<1> QED  BY <1>1, <1>2, <1>3

\* Every row of the pipeline's copy is justified by the faults it has applied.
LabelInvariant ==
    \A t \in DOMAIN telemetry_df : Justified(telemetry_df[t], t, Applied)

LEMMA StepJustified ==
    ASSUME TypeInvariant, LabelInvariant, [Next]_vars
    PROVE  LabelInvariant'
<1> USE DEF LabelInvariant
<1>1. CASE ReadTelemetry
  <2>1. Applied' = {}
    BY <1>1 DEF ReadTelemetry, Applied
  <2>2. ASSUME NEW t \in DOMAIN telemetry_df'
        PROVE  Justified([label |-> 0, fault_type |-> "none"], t, {})
    BY DEF Justified, LabelOf
  <2>3. \A t \in DOMAIN telemetry_df' :
            telemetry_df'[t] = [label |-> 0, fault_type |-> "none"]
    BY <1>1 DEF ReadTelemetry
  <2> QED  BY <2>1, <2>2, <2>3 DEF Justified, LabelOf, active_mask, precursor_mask
<1>2. CASE ReadFaults
  <2>1. Applied' = {} /\ Applied = {}
    BY <1>2 DEF ReadFaults, Applied
  <2>2. UNCHANGED telemetry_df
    BY <1>2 DEF ReadFaults
  <2> QED  BY <2>1, <2>2 DEF Justified, LabelOf, active_mask, precursor_mask
<1>3. ASSUME NEW f \in faults_df, LabelFault(f)  PROVE LabelInvariant'
  <2>1. Applied' = Applied \cup {f}
    BY <1>3 DEF LabelFault, Applied, TypeInvariant, TypeOK
  <2>2. /\ DOMAIN telemetry_df' = DOMAIN telemetry_df
        /\ \A t \in DOMAIN telemetry_df : telemetry_df'[t] = Relabelled(f, t)
    BY <1>3 DEF LabelFault
  <2>3. f.start \in Int /\ \A t \in DOMAIN telemetry_df : t \in Int
    <3>1. f \in Fault
      BY DEF TypeInvariant, TypeOK
    <3>2. now \in Nat /\ DOMAIN telemetry_df \subseteq 0 .. now
      BY DEF TypeInvariant, TypeOK
    <3> QED  BY <3>1, <3>2 DEF Fault
  <2>4. \A t \in DOMAIN telemetry_df : Justified(Relabelled(f, t), t, Applied \cup {f})
    BY <2>3, OneMoreFault
  <2> QED  BY <2>1, <2>2, <2>4 DEF Justified, LabelOf, active_mask, precursor_mask
<1>4. CASE UNCHANGED <<telemetry_df, known, faults_df>> /\ Applied' = Applied
  BY <1>4 DEF Justified, LabelOf, active_mask, precursor_mask
<1>5. ASSUME Export  PROVE UNCHANGED <<telemetry_df, known, faults_df>> /\ Applied' = Applied
  BY <1>5 DEF Export, Applied
<1>6. ASSUME UNCHANGED pipelineVars
      PROVE  UNCHANGED <<telemetry_df, known, faults_df>> /\ Applied' = Applied
  BY <1>6 DEF pipelineVars, Applied
<1>7. ASSUME Tick \/ WriteRow \/ log_fault_to_db \/ Inject \/ Restore \/ Abort
      PROVE  UNCHANGED pipelineVars
  BY <1>7 DEF Tick, WriteRow, log_fault_to_db, Inject, Restore, Abort
<1> QED  BY <1>1, <1>2, <1>3, <1>4, <1>5, <1>6, <1>7 DEF Next, vars

\* The labels are those of a definition without an order, at every moment of the
\* loop over the faults, and each names a fault that accounts for it.
THEOREM LabelsHaveNoOrder ==
    ASSUME DatasetAssumption  PROVE Spec => []LabelsAreJustified
<1>1. Spec => []TypeInvariant
  <2>1. TypeInvariant /\ [Next]_vars => TypeInvariant'
    BY DatasetAssumption, StepTypes
  <2> QED  BY DatasetAssumption, InitTypes, <2>1, PTL DEF Spec
<1>2. Init => LabelInvariant
  BY DEF Init, LabelInvariant
<1>3. TypeInvariant /\ LabelInvariant /\ [Next]_vars => LabelInvariant'
  BY StepJustified
<1>4. LabelInvariant => LabelsAreJustified
  BY DEF LabelInvariant, LabelsAreJustified, Justified
<1> QED  BY <1>1, <1>2, <1>3, <1>4, PTL DEF Spec

-----------------------------------------------------------------------------
\* The orchestrator's timing: faults begin in the past, the last one is over when a
\* baseline begins, and no tick under a fault lies in another one's precursor window.
TimingInvariant ==
    /\ \A f \in fault_log : f.start <= now
    /\ phase = "baseline" => \A t \in active_times : t <= since
    /\ \A f \in fault_log : \A t \in active_times : ~precursor_mask(f, t)

LEMMA StepTiming ==
    ASSUME DatasetAssumption, Baseline > Precursor,
           TypeInvariant, TimingInvariant, [Next]_vars
    PROVE  TimingInvariant'
<1>0. /\ now \in Nat /\ since \in Nat /\ since <= now
      /\ Baseline \in Nat /\ Precursor \in Nat /\ Settling \in Nat
      /\ \A f \in fault_log : f.start \in Nat
      /\ \A t \in active_times : t \in Nat /\ t <= now
  <2>1. Baseline \in Nat /\ Precursor \in Nat /\ Settling \in Nat
    BY DEF DatasetAssumption
  <2>2. now \in Nat /\ since \in Nat /\ since <= now
    BY DEF TypeInvariant, TypeOK
  <2>3. \A f \in fault_log : f.start \in Nat
    BY DEF TypeInvariant, TypeOK, Fault
  <2>4. \A t \in active_times : t \in Nat /\ t <= now
    BY <2>2 DEF TypeInvariant, TypeOK
  <2> QED  BY <2>1, <2>2, <2>3, <2>4
<1> USE DEF TimingInvariant, precursor_mask
<1>1. CASE Tick
  <2>1. now' = now + 1 /\ UNCHANGED <<fault_log, phase, since>>
    BY <1>1 DEF Tick
  <2>2. \A t \in active_times' : t \in active_times \/ (t = now + 1 /\ phase = "active")
    BY <1>1 DEF Tick
  <2> QED  BY <1>0, <2>1, <2>2
<1>2. CASE log_fault_to_db
  <2>1. phase = "baseline" /\ phase' = "logged" /\ UNCHANGED <<now, active_times>>
    BY <1>2 DEF log_fault_to_db
  <2>2. \A t \in active_times : t <= since
    BY <2>1
  <2>3. now - since >= Baseline
    BY <1>0, <1>2, <2>1 DEF log_fault_to_db, Sleep
  <2>4. \A f \in fault_log' : f \in fault_log \/ f.start = now
    BY <1>2 DEF log_fault_to_db
  <2> QED  BY <1>0, <2>1, <2>2, <2>3, <2>4
<1>3. CASE Inject
  BY <1>0, <1>3 DEF Inject
<1>4. CASE Restore
  BY <1>0, <1>4 DEF Restore
<1>5. CASE Abort
  BY <1>5 DEF Abort
<1>6. CASE UNCHANGED <<now, phase, since, fault_log, active_times>>
  BY <1>6
<1>7. ASSUME WriteRow \/ UNCHANGED experimentVars
      PROVE  UNCHANGED <<now, phase, since, fault_log, active_times>>
  BY <1>7 DEF WriteRow, experimentVars
<1>8. ASSUME ReadTelemetry \/ ReadFaults \/ (\E f \in faults_df : LabelFault(f)) \/ Export
      PROVE  UNCHANGED experimentVars
  BY <1>8 DEF ReadTelemetry, ReadFaults, LabelFault, Export
<1> QED  BY <1>1, <1>2, <1>3, <1>4, <1>5, <1>6, <1>7, <1>8 DEF Next, vars

\* With a baseline longer than the precursor window, a row labelled as a precursor
\* was not measured during any fault, not even one fault_log does not know.
THEOREM PrecursorsAreNotFaulty ==
    ASSUME DatasetAssumption, Baseline > Precursor
    PROVE  Spec => []PrecursorsAreClean
<1>1. Spec => []TypeOK
  BY DatasetAssumption, TypeCorrect
<1>2. Spec => []LabelsAreJustified
  BY DatasetAssumption, LabelsHaveNoOrder
<1>3. Init => TypeInvariant /\ TimingInvariant
  BY DEF Init, TypeInvariant, TypeOK, TimingInvariant, DatasetAssumption
<1>4. TypeInvariant /\ TimingInvariant /\ [Next]_vars => TypeInvariant' /\ TimingInvariant'
  BY DatasetAssumption, Baseline > Precursor, StepTypes, StepTiming
<1>5. TypeOK /\ LabelsAreJustified /\ TimingInvariant => PrecursorsAreClean
  BY DEF TypeOK, LabelsAreJustified, TimingInvariant, PrecursorsAreClean, Applied
<1> QED  BY <1>1, <1>2, <1>3, <1>4, <1>5, PTL DEF Spec
=============================================================================
