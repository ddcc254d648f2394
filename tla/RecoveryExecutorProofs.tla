----------------------- MODULE RecoveryExecutorProofs -----------------------
(***************************************************************************)
(* The executor keeps the recovery contract for every set of bodies and    *)
(* any number of actions and restarts.                                     *)
(*                                                                         *)
(* ExecutorInvariant is inductive: a request is in the inbox, asleep or    *)
(* answered, never two of these, and an answer on its way agrees with the  *)
(* row.  With it every step of the executor is a step of the contract.     *)
(***************************************************************************)
EXTENDS RecoveryExecutor, TLAPS

\* A response only ever goes to a client that waits, with the code it is given.
LEMMA RespondValues ==
    ASSUME NEW i, NEW code, Respond(i, code)
    PROVE  /\ DOMAIN responses' \subseteq DOMAIN responses \cup {i}
           /\ outcome[i] = "waiting" \/ DOMAIN responses' = DOMAIN responses
           /\ \A j \in DOMAIN responses' :
                \/ j = i /\ outcome[i] = "waiting" /\ responses'[j] = code
                \/ j \in DOMAIN responses /\ responses'[j] = responses[j]
<1>1. CASE outcome[i] = "waiting"
  <2>1. responses' = Put(responses, i, code)
    BY <1>1 DEF Respond
  <2>2. /\ DOMAIN Put(responses, i, code) = DOMAIN responses \cup {i}
        /\ Put(responses, i, code)[i] = code
        /\ \A j \in DOMAIN responses \ {i} : Put(responses, i, code)[j] = responses[j]
    BY DEF Put
  <2> QED  BY <1>1, <2>1, <2>2
<1>2. CASE outcome[i] # "waiting"
  BY <1>2 DEF Respond
<1> QED  BY <1>1, <1>2

-----------------------------------------------------------------------------
\* The invariant for one action_id, so that a step can be looked at id by id.
Consistent(i) ==
    /\ ~(i \in inbox /\ i \in tasks)
    /\ i \in inbox \cup tasks => i \notin DOMAIN responses /\ i \notin recovery_actions
    /\ i \in DOMAIN responses => /\ outcome[i] = "waiting"
                                 /\ responses[i] = "200" <=> i \in recovery_actions
    /\ i \notin DOMAIN body => outcome[i] = "none"
    /\ i \in inbox \cup tasks \cup recovery_actions =>
            outcome[i] \notin {"none", "400", "422", "500"}
    /\ outcome[i] = "200" => i \in recovery_actions

LEMMA InvariantById ==
    ExecutorInvariant <=> ExecutorTypeOK /\ \A i \in Ids : Consistent(i)
BY DEF ExecutorInvariant, ExecutorTypeOK, Consistent, Refusals

LEMMA InitConsistent == ExecutorInit => ExecutorInvariant
BY DEF ExecutorInit, ExecutorInvariant, ExecutorTypeOK, Outcomes, Refusals

-----------------------------------------------------------------------------
\* What a step leaves of the type invariant.
LEMMA StepTypes ==
    ASSUME ExecutorTypeOK, ExecutorAssumption, [ExecutorNext]_executorVars
    PROVE  ExecutorTypeOK'
<1> USE DEF ExecutorTypeOK
<1>1. ASSUME NEW i \in Ids, NEW b \in Bodies, Post(i, b) \/ PostUnreachable(i, b)
      PROVE  ExecutorTypeOK'
  <2>1. /\ body' = Put(body, i, b)
        /\ DOMAIN body' = DOMAIN body \cup {i}
        /\ \A j \in DOMAIN body' : body'[j] \in Bodies
    BY <1>1 DEF Put, Post, PostUnreachable
  <2>2. outcome' \in [Ids -> Outcomes]
    BY <1>1 DEF Post, PostUnreachable, Outcomes
  <2> QED  BY <1>1, <2>1, <2>2 DEF Post, PostUnreachable
<1>2. ASSUME NEW i \in Ids, ReceiveRequest(i)  PROVE ExecutorTypeOK'
  <2>1. CASE UNCHANGED responses
    BY <1>2, <2>1 DEF ReceiveRequest
  <2>2. CASE Respond(i, "422") /\ UNCHANGED tasks
    BY <1>2, <2>2, RespondValues DEF ReceiveRequest, Refusals
  <2> QED  BY <1>2, <2>1, <2>2 DEF ReceiveRequest
<1>3. ASSUME NEW i \in Ids, PersistAction(i)  PROVE ExecutorTypeOK'
  <2>1. PICK code \in {"200", "400", "500"} : Respond(i, code)
    BY <1>3 DEF PersistAction
  <2>2. recovery_actions' \subseteq recovery_actions \cup {i}
    BY <1>3 DEF PersistAction
  <2> QED  BY <1>3, <2>1, <2>2, RespondValues DEF PersistAction, Refusals
<1>4. ASSUME NEW i \in Ids, GetResponse(i) \/ Timeout(i)  PROVE ExecutorTypeOK'
  BY <1>4 DEF Without, GetResponse, Timeout, Outcomes
<1>5. ASSUME Restart  PROVE ExecutorTypeOK'
  BY <1>5 DEF Restart, Outcomes
<1>6. CASE UNCHANGED executorVars
  BY <1>6 DEF executorVars
<1> QED  BY <1>1, <1>2, <1>3, <1>4, <1>5, <1>6 DEF ExecutorNext, ServiceNext

-----------------------------------------------------------------------------
\* What a step leaves of the rest of the invariant, action_id by action_id.
LEMMA StepConsistent ==
    ASSUME ExecutorTypeOK, [ExecutorNext]_executorVars, NEW k \in Ids, Consistent(k)
    PROVE  Consistent(k)'
<1> USE DEF Consistent, ExecutorTypeOK
<1>1. ASSUME NEW i \in Ids, NEW b \in Bodies, Post(i, b) \/ PostUnreachable(i, b)
      PROVE  Consistent(k)'
  <2>1. DOMAIN body' = DOMAIN body \cup {i}
    BY <1>1 DEF Put, Post, PostUnreachable
  <2> QED  BY <1>1, <2>1 DEF Post, PostUnreachable, Fresh
<1>2. ASSUME NEW i \in Ids, ReceiveRequest(i)  PROVE Consistent(k)'
  <2>1. CASE tasks' = tasks \cup {i} /\ UNCHANGED responses
    BY <1>2, <2>1 DEF ReceiveRequest
  <2>2. CASE Respond(i, "422") /\ UNCHANGED tasks
    BY <1>2, <2>2, RespondValues DEF ReceiveRequest
  <2> QED  BY <1>2, <2>1, <2>2 DEF ReceiveRequest
<1>3. ASSUME NEW i \in Ids, PersistAction(i)  PROVE Consistent(k)'
  <2>1. CASE Respond(i, "200") /\ recovery_actions' = recovery_actions \cup {i}
    BY <1>3, <2>1, RespondValues DEF PersistAction
  <2>2. ASSUME NEW code \in {"400", "500"}, Respond(i, code), UNCHANGED recovery_actions
        PROVE  Consistent(k)'
    BY <1>3, <2>2, RespondValues DEF PersistAction
  <2> QED  BY <1>3, <2>1, <2>2 DEF PersistAction
<1>4. ASSUME NEW i \in Ids, GetResponse(i)  PROVE Consistent(k)'
  BY <1>4 DEF Without, GetResponse, Refusals
<1>5. ASSUME NEW i \in Ids, Timeout(i)  PROVE Consistent(k)'
  BY <1>5 DEF Without, Timeout
<1>6. ASSUME Restart  PROVE Consistent(k)'
  BY <1>6 DEF Restart
<1>7. CASE UNCHANGED executorVars
  BY <1>7 DEF executorVars
<1> QED  BY <1>1, <1>2, <1>3, <1>4, <1>5, <1>6, <1>7 DEF ExecutorNext, ServiceNext

\* Whatever times out, overlaps or restarts: an action_id is never in two places,
\* and no answer on its way, nor one that arrived, contradicts the table.
THEOREM AnswersAgreeWithTable ==
    ASSUME ExecutorAssumption
    PROVE  ExecutorSpec => []ExecutorInvariant
<1>1. ExecutorInvariant /\ [ExecutorNext]_executorVars => ExecutorInvariant'
  <2> SUFFICES ASSUME ExecutorInvariant, [ExecutorNext]_executorVars
               PROVE  ExecutorInvariant'
    OBVIOUS
  <2>1. ExecutorTypeOK'
    BY ExecutorAssumption, StepTypes DEF ExecutorInvariant
  <2>2. \A k \in Ids : Consistent(k)'
    BY InvariantById, StepConsistent
  <2>3. Ids' = Ids
    BY DEF Ids
  <2> QED  BY <2>1, <2>2, <2>3 DEF ExecutorInvariant, ExecutorTypeOK, Consistent, Refusals
<1> QED  BY InitConsistent, <1>1, PTL DEF ExecutorSpec

-----------------------------------------------------------------------------
\* What a step leaves of a client's wait.
Remembered(i) == outcome[i] = "waiting" => i \in inbox \cup tasks \cup DOMAIN responses

LEMMA StepRemembers ==
    ASSUME ExecutorTypeOK, [ExecutorNext]_executorVars, NEW k \in Ids, Remembered(k)
    PROVE  Remembered(k)'
<1> USE DEF Remembered, ExecutorTypeOK
<1>1. ASSUME NEW i \in Ids, NEW b \in Bodies, Post(i, b) \/ PostUnreachable(i, b)
      PROVE  Remembered(k)'
  BY <1>1 DEF Post, PostUnreachable
<1>2. ASSUME NEW i \in Ids, NEW code, Respond(i, code), UNCHANGED outcome
      PROVE  k \in DOMAIN responses \/ (k = i /\ outcome[k] = "waiting") => k \in DOMAIN responses'
  BY <1>2 DEF Respond, Put
<1>3. ASSUME NEW i \in Ids, ReceiveRequest(i)  PROVE Remembered(k)'
  BY <1>2, <1>3 DEF ReceiveRequest
<1>4. ASSUME NEW i \in Ids, PersistAction(i)  PROVE Remembered(k)'
  BY <1>2, <1>4 DEF PersistAction
<1>5. ASSUME NEW i \in Ids, GetResponse(i)  PROVE Remembered(k)'
  BY <1>5 DEF GetResponse, Without, Refusals
<1>6. ASSUME NEW i \in Ids, Timeout(i)  PROVE Remembered(k)'
  BY <1>6 DEF Timeout, Without
<1>7. ASSUME Restart  PROVE Remembered(k)'
  BY <1>7 DEF Restart
<1>8. CASE UNCHANGED executorVars
  BY <1>8 DEF executorVars
<1> QED  BY <1>1, <1>3, <1>4, <1>5, <1>6, <1>7, <1>8 DEF ExecutorNext, ServiceNext

\* A client that waits waits for something: its request is in the service or its
\* answer is on the way, for any clients, restarts and refusals.
THEOREM WaitsAreForSomething ==
    ASSUME ExecutorAssumption
    PROVE  ExecutorSpec => []NoRequestForgotten
<1>1. ExecutorInit => NoRequestForgotten
  BY DEF ExecutorInit, NoRequestForgotten
<1>2. ExecutorTypeOK /\ NoRequestForgotten /\ [ExecutorNext]_executorVars => NoRequestForgotten'
  BY StepRemembers DEF NoRequestForgotten, Remembered, Ids
<1>3. ExecutorInvariant => ExecutorTypeOK
  BY DEF ExecutorInvariant
<1> QED  BY AnswersAgreeWithTable, <1>1, <1>2, <1>3, PTL DEF ExecutorSpec

-----------------------------------------------------------------------------
\* A change of one client's outcome is a change of what that client knows.
LEMMA OutcomeIsKnowledge ==
    ASSUME ExecutorTypeOK, NEW i \in Ids, NEW o \in Outcomes,
           outcome' = [outcome EXCEPT ![i] = o], UNCHANGED recovery_actions
    PROVE  Contract!Learn(i, Knowledge(outcome[i]), Knowledge(o))
<1>1. [j \in Ids |-> Knowledge(outcome[j])]'
        = [[j \in Ids |-> Knowledge(outcome[j])] EXCEPT ![i] = Knowledge(o)]
  BY DEF ExecutorTypeOK
<1> QED  BY <1>1 DEF Contract!Learn

LEMMA InitRefines == ExecutorInit => Contract!Init
BY DEF ExecutorInit, Contract!Init, Knowledge

\* Every step of the executor is a step of the contract, or none.
LEMMA StepRefines ==
    ASSUME ExecutorInvariant, [ExecutorNext]_executorVars
    PROVE  [Contract!Next]_(Contract!vars)
<1> USE DEF ExecutorInvariant, ExecutorTypeOK
<1>1. ASSUME NEW i \in Ids, NEW b \in Bodies, Post(i, b)  PROVE Contract!Next
  <2>1. Contract!Learn(i, "not requested", "waiting")
    BY <1>1, OutcomeIsKnowledge DEF Post, Fresh, Knowledge, Outcomes
  <2> QED  BY <2>1 DEF Contract!Next, Contract!Request
<1>2. ASSUME NEW i \in Ids, NEW b \in Bodies, PostUnreachable(i, b)  PROVE Contract!Next
  <2>1. Contract!Learn(i, "not requested", "unknown")
    BY <1>2, OutcomeIsKnowledge DEF PostUnreachable, Fresh, Knowledge, Outcomes
  <2> QED  BY <2>1 DEF Contract!Next, Contract!GiveUp
<1>3. ASSUME NEW i \in Ids, ReceiveRequest(i)  PROVE UNCHANGED Contract!vars
  BY <1>3 DEF ReceiveRequest, Contract!vars
<1>4. ASSUME NEW i \in Ids, PersistAction(i)
      PROVE  Contract!Next \/ UNCHANGED Contract!vars
  <2>1. CASE i \notin recovery_actions /\ recovery_actions' = recovery_actions \cup {i}
    <3>1. Knowledge(outcome[i]) \in {"waiting", "unknown"}
      BY <1>4, <2>1 DEF PersistAction, Knowledge, Refusals, Outcomes
    <3> QED  BY <1>4, <2>1, <3>1 DEF PersistAction, Contract!Next, Contract!Apply
  <2>2. CASE UNCHANGED recovery_actions
    BY <1>4, <2>2 DEF PersistAction, Contract!vars
  <2> QED  BY <1>4, <2>1, <2>2 DEF PersistAction
<1>5. ASSUME NEW i \in Ids, GetResponse(i)  PROVE Contract!Next
  <2>1. responses[i] \in {"200"} \cup Refusals /\ responses[i] \in Outcomes
    BY <1>5 DEF GetResponse, Outcomes
  <2>2. Contract!Learn(i, Knowledge("waiting"), Knowledge(responses[i]))
    BY <1>5, <2>1, OutcomeIsKnowledge DEF GetResponse
  <2>3. Knowledge("waiting") = "waiting"
    BY DEF Knowledge
  <2>4. CASE responses[i] = "200"
    <3>1. Knowledge(responses[i]) = "confirmed" /\ i \in recovery_actions
      BY <1>5, <2>4 DEF GetResponse, Knowledge
    <3> QED  BY <2>2, <2>3, <3>1 DEF Contract!Next, Contract!Confirm
  <2>5. CASE responses[i] \in Refusals
    <3>1. Knowledge(responses[i]) = "refused" /\ i \notin recovery_actions
      BY <1>5, <2>5 DEF GetResponse, Knowledge, Refusals
    <3> QED  BY <2>2, <2>3, <3>1 DEF Contract!Next, Contract!Refuse
  <2> QED  BY <2>1, <2>4, <2>5
<1>6. ASSUME NEW i \in Ids, Timeout(i)  PROVE Contract!Next
  <2>1. Contract!Learn(i, "waiting", "unknown")
    BY <1>6, OutcomeIsKnowledge DEF Timeout, Knowledge, Outcomes
  <2> QED  BY <2>1 DEF Contract!Next, Contract!GiveUp
<1>7. ASSUME Restart  PROVE Contract!Next
  <2>1. [j \in Ids |-> Knowledge(outcome[j])]'
          = [j \in Ids |-> IF Knowledge(outcome[j]) = "waiting" THEN "unknown"
                           ELSE Knowledge(outcome[j])]
    BY <1>7 DEF Restart, Knowledge, Outcomes, Refusals
  <2> QED  BY <1>7, <2>1 DEF Restart, Contract!Next, Contract!GiveUpAll
<1>8. CASE UNCHANGED executorVars
  BY <1>8 DEF executorVars, Contract!vars
<1> QED  BY <1>1, <1>2, <1>3, <1>4, <1>5, <1>6, <1>7, <1>8 DEF ExecutorNext, ServiceNext

\* The executor implements the contract: a client that reads 200 has its row, one
\* that reads a refusal never gets one, and a row appears once, for any clients.
THEOREM ExecutorKeepsContract ==
    ASSUME ExecutorAssumption
    PROVE  ExecutorSpec => ImplementsContract
<1>1. ExecutorSpec => []ExecutorInvariant
  BY AnswersAgreeWithTable
<1>2. ExecutorInvariant /\ [ExecutorNext]_executorVars => [Contract!Next]_(Contract!vars)
  BY StepRefines
<1> QED  BY <1>1, <1>2, InitRefines, PTL
         DEF ExecutorSpec, ImplementsContract, Contract!Spec
=============================================================================
