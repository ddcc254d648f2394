-------------------------- MODULE RecoveryContract --------------------------
(***************************************************************************)
(* What contracts/recovery_interface.json promises to whoever asks for a   *)
(* recovery action: a confirmed action is on record, a refused one never   *)
(* is, and about a request that went unanswered nothing is known.          *)
(***************************************************************************)
CONSTANT Ids        \* action_ids

VARIABLES
    applied,        \* the actions on record
    knowledge       \* what the requester of each action knows of it

vars == <<applied, knowledge>>

Init ==
    /\ applied = {}
    /\ knowledge = [i \in Ids |-> "not requested"]

Learn(i, from, to) ==
    /\ knowledge[i] = from
    /\ knowledge' = [knowledge EXCEPT ![i] = to]
    /\ UNCHANGED applied

Request(i) == Learn(i, "not requested", "waiting")

\* The requester stops waiting, or cannot even ask.
GiveUp(i) ==
    \/ Learn(i, "not requested", "unknown")
    \/ Learn(i, "waiting", "unknown")

Confirm(i) == i \in applied /\ Learn(i, "waiting", "confirmed")

Refuse(i) == i \notin applied /\ Learn(i, "waiting", "refused")

\* An action is applied at most once, and never after it was refused.
Apply(i) ==
    /\ i \notin applied
    /\ knowledge[i] \in {"waiting", "unknown"}
    /\ applied' = applied \cup {i}
    /\ UNCHANGED knowledge

\* The service restarts: all who wait give up together.
GiveUpAll ==
    /\ knowledge' = [i \in Ids |-> IF knowledge[i] = "waiting" THEN "unknown"
                                   ELSE knowledge[i]]
    /\ UNCHANGED applied

Next ==
    \/ \E i \in Ids : Request(i) \/ GiveUp(i) \/ Confirm(i) \/ Refuse(i) \/ Apply(i)
    \/ GiveUpAll

Spec == Init /\ [][Next]_vars
=============================================================================
