-------------------------- MODULE RecoveryExecutor --------------------------
(***************************************************************************)
(* The recovery action executor of recovery/recovery_stub.py and the HTTP  *)
(* exchange its clients have with it.  execute_action is a coroutine: one  *)
(* request is handled up to its sleep in one step and from there to the    *)
(* response in another, and any number of requests sleep at once.          *)
(* The clients (scripts/run_phase2.py, recovery/reactive_baseline.py) wait *)
(* two seconds and go on; their request does not stop with them.           *)
(***************************************************************************)
EXTENDS Integers, Sequences

CONSTANTS
    Bodies,         \* the request bodies the clients send
    TopologyLinks,  \* rows of topology_links
    ExperimentRuns, \* rows of experiment_runs
    DbMayFail,      \* may the insert fail for another reason than integrity
    MaxActions,     \* bound: actions ever requested
    MaxRestarts     \* bound: restarts of the service

Ids == 1 .. MaxActions

ASSUME ExecutorAssumption ==
    /\ DbMayFail \in BOOLEAN
    /\ MaxActions \in Nat
    /\ MaxRestarts \in Nat

VARIABLES
    body,               \* the body of every action requested so far
    inbox,              \* requests the event loop has not started
    tasks,              \* requests asleep in execute_action
    responses,          \* status codes on their way back
    recovery_actions,   \* action_ids of the rows of recovery_actions
    outcome,            \* what the client of each action has learned
    restarts

executorVars == <<body, inbox, tasks, responses, recovery_actions, outcome, restarts>>

Refusals == {"400", "422", "500"}
Outcomes == {"none", "waiting", "lost", "200"} \cup Refusals

ExecutorTypeOK ==
    /\ DOMAIN body \subseteq Ids
    /\ \A i \in DOMAIN body : body[i] \in Bodies
    /\ inbox \subseteq DOMAIN body
    /\ tasks \subseteq DOMAIN body
    /\ DOMAIN responses \subseteq DOMAIN body
    /\ \A i \in DOMAIN responses : responses[i] \in {"200"} \cup Refusals
    /\ recovery_actions \subseteq DOMAIN body
    /\ outcome \in [Ids -> Outcomes]
    /\ restarts \in Nat

ExecutorInit ==
    /\ body = <<>>
    /\ inbox = {}
    /\ tasks = {}
    /\ responses = <<>>
    /\ recovery_actions = {}
    /\ outcome = [i \in Ids |-> "none"]
    /\ restarts = 0

\* Functions with one more value, and with one less.
Put(f, i, v) == [j \in DOMAIN f \cup {i} |-> IF j = i THEN v ELSE f[j]]
Without(f, i) == [j \in DOMAIN f \ {i} |-> f[j]]

-----------------------------------------------------------------------------
\* The service.

\* jsonschema.validate against action_request, for what the clients vary.
RequiredFields == {"target_type", "new_path", "reason"}
Valid(b) ==
    /\ RequiredFields \subseteq DOMAIN b
    /\ b.new_path # <<>>
    /\ b.target_type = "link" => "target_link_id" \in DOMAIN b
    /\ b.target_type = "node" => "target_node_id" \in DOMAIN b

\* The foreign keys of recovery_actions; a run_id left out is NULL.
Referenced(b) ==
    /\ "target_link_id" \in DOMAIN b => b.target_link_id \in TopologyLinks
    /\ "run_id" \in DOMAIN b => b.run_id \in ExperimentRuns

\* The response reaches a client that still waits for it, or no one.
Respond(i, code) ==
    responses' = IF outcome[i] = "waiting" THEN Put(responses, i, code) ELSE responses

\* Mutant of the next action: a refusal without a return.
ReceiveGoesOn(i) ==
    /\ i \in inbox
    /\ inbox' = inbox \ {i}
    /\ tasks' = tasks \cup {i}
    /\ IF Valid(body[i]) THEN UNCHANGED responses ELSE Respond(i, "422")
    /\ UNCHANGED <<body, recovery_actions, outcome, restarts>>

\* Another: one without an answer.
ReceiveSilently(i) ==
    /\ i \in inbox
    /\ inbox' = inbox \ {i}
    /\ tasks' = IF Valid(body[i]) THEN tasks \cup {i} ELSE tasks
    /\ UNCHANGED <<body, responses, recovery_actions, outcome, restarts>>

\* execute_action, up to await asyncio.sleep(0.2) or the 422.
ReceiveRequest(i) ==
    /\ i \in inbox
    /\ inbox' = inbox \ {i}
    /\ \/ Valid(body[i]) /\ tasks' = tasks \cup {i} /\ UNCHANGED responses
       \/ ~Valid(body[i]) /\ Respond(i, "422") /\ UNCHANGED tasks
    /\ UNCHANGED <<body, recovery_actions, outcome, restarts>>

\* Mutants of the next action: an integrity error that is only logged, and a row
\* that stays when something else fails after it.
PersistLogsIntegrityErrors(i) ==
    /\ i \in tasks
    /\ tasks' = tasks \ {i}
    /\ recovery_actions' = IF Referenced(body[i]) THEN recovery_actions \cup {i}
                           ELSE recovery_actions
    /\ Respond(i, "200")
    /\ UNCHANGED <<body, inbox, outcome, restarts>>
PersistFailsAfterCommit(i) ==
    /\ i \in tasks
    /\ tasks' = tasks \ {i}
    /\ recovery_actions' = recovery_actions \cup {i}
    /\ \E code \in {"200", "500"} : Respond(i, code)
    /\ UNCHANGED <<body, inbox, outcome, restarts>>

\* execute_action, from the sleep on: the row goes in before the response.
PersistAction(i) ==
    /\ i \in tasks
    /\ tasks' = tasks \ {i}
    /\ \/ /\ Referenced(body[i]) /\ i \notin recovery_actions
          /\ recovery_actions' = recovery_actions \cup {i}
          /\ Respond(i, "200")
       \/ /\ ~Referenced(body[i]) \/ i \in recovery_actions
          /\ Respond(i, "400")
          /\ UNCHANGED recovery_actions
       \/ /\ DbMayFail
          /\ Respond(i, "500")
          /\ UNCHANGED recovery_actions
    /\ UNCHANGED <<body, inbox, outcome, restarts>>

\* The service is restarted: whoever waits for it gets a connection error.
Restart ==
    /\ restarts < MaxRestarts
    /\ restarts' = restarts + 1
    /\ inbox' = {}
    /\ tasks' = {}
    /\ responses' = <<>>
    /\ outcome' = [i \in Ids |-> IF outcome[i] = "waiting" THEN "lost" ELSE outcome[i]]
    /\ UNCHANGED <<body, recovery_actions>>

-----------------------------------------------------------------------------
\* The client's side of requests.post(..., timeout=2).

\* uuid4 never repeats: every request has an action_id of its own.
Fresh(i) == i \in Ids \ DOMAIN body /\ \A j \in Ids \ DOMAIN body : i <= j

Post(i, b) ==
    /\ Fresh(i)
    /\ body' = Put(body, i, b)
    /\ inbox' = inbox \cup {i}
    /\ outcome' = [outcome EXCEPT ![i] = "waiting"]
    /\ UNCHANGED <<tasks, responses, recovery_actions, restarts>>

\* Nothing listens on the port.
PostUnreachable(i, b) ==
    /\ Fresh(i)
    /\ body' = Put(body, i, b)
    /\ outcome' = [outcome EXCEPT ![i] = "lost"]
    /\ UNCHANGED <<inbox, tasks, responses, recovery_actions, restarts>>

GetResponse(i) ==
    /\ i \in DOMAIN responses
    /\ outcome[i] = "waiting"
    /\ outcome' = [outcome EXCEPT ![i] = responses[i]]
    /\ responses' = Without(responses, i)
    /\ UNCHANGED <<body, inbox, tasks, recovery_actions, restarts>>

\* requests.exceptions.Timeout, even with the response on its way.
Timeout(i) ==
    /\ outcome[i] = "waiting"
    /\ outcome' = [outcome EXCEPT ![i] = "lost"]
    /\ responses' = Without(responses, i)
    /\ UNCHANGED <<body, inbox, tasks, recovery_actions, restarts>>

-----------------------------------------------------------------------------
\* The service and the network, whoever the clients are.
ServiceNext ==
    \/ \E i \in Ids :
        ReceiveRequest(i) \/ PersistAction(i) \/ GetResponse(i) \/ Timeout(i)
    \/ Restart

ExecutorNext ==
    \/ \E i \in Ids, b \in Bodies : Post(i, b) \/ PostUnreachable(i, b)
    \/ ServiceNext

ExecutorSpec == ExecutorInit /\ [][ExecutorNext]_executorVars

\* uvicorn runs what is ready, and delivers what was sent.
ServiceFairness ==
    \A i \in Ids : /\ WF_executorVars(ReceiveRequest(i))
                   /\ WF_executorVars(PersistAction(i))
                   /\ WF_executorVars(GetResponse(i))

-----------------------------------------------------------------------------
\* Properties.

Knowledge(o) ==
    CASE o = "none" -> "not requested"
      [] o = "waiting" -> "waiting"
      [] o = "lost" -> "unknown"
      [] o = "200" -> "confirmed"
      [] OTHER -> "refused"

Contract == INSTANCE RecoveryContract
    WITH applied <- recovery_actions,
         knowledge <- [i \in Ids |-> Knowledge(outcome[i])]

\* The executor keeps the contract: a client that saw 200 has its row, one that
\* saw another code never gets one, and a row appears at most once per
\* action_id, whatever times out, restarts or overlaps.
ImplementsContract == Contract!Spec

\* Why: a request is in one place, and what a response says is true of the row.
ExecutorInvariant ==
    /\ ExecutorTypeOK
    /\ inbox \cap tasks = {}
    /\ (inbox \cup tasks) \cap (DOMAIN responses \cup recovery_actions) = {}
    /\ \A i \in DOMAIN responses :
        /\ outcome[i] = "waiting"
        /\ responses[i] = "200" <=> i \in recovery_actions
    /\ \A i \in Ids \ DOMAIN body : outcome[i] = "none"
    /\ \A i \in inbox \cup tasks \cup recovery_actions : outcome[i] \notin {"none"} \cup Refusals
    /\ \A i \in Ids : outcome[i] = "200" => i \in recovery_actions

\* No client waits for nothing: a request whose client waits is in the service or
\* its answer is on the way, so that a wait ends although nobody times out.  No
\* path through execute_action drops a request, not even a restart of the service.
NoRequestForgotten ==
    \A i \in Ids : outcome[i] = "waiting" => i \in inbox \cup tasks \cup DOMAIN responses
=============================================================================
