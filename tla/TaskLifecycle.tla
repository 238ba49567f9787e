--------------------------- MODULE TaskLifecycle ---------------------------
(***************************************************************************)
(* What the task queue promises about the life of a task, whoever updates  *)
(* it and however the Redis commands interleave: a task becomes pending    *)
(* once, when it is submitted; every later update takes it to executing or *)
(* to a finished status, in any order, because updates write whole copies; *)
(* and nothing makes it pending a second time.                             *)
(***************************************************************************)
CONSTANTS Task

VARIABLE state   \* "new", a Status, or "gone" when no document is stored

Updated == {"executing", "done", "failed", "cancelled"}
Stored == {"pending"} \cup Updated

Init == state = [t \in Task |-> "new"]

\* Enqueue stores the task.
Submit(t) ==
    /\ state[t] = "new"
    /\ state' = [state EXCEPT ![t] = "pending"]

\* Enqueue stops half-way, for some of the submissions under way.
Lose(S) ==
    /\ \A t \in S : state[t] = "new"
    /\ state' = [t \in Task |-> IF t \in S THEN "gone" ELSE state[t]]

\* UpdateStatus or Cancel writes a copy, over a document or over none.
Update(t, status) ==
    /\ state[t] # "new"
    /\ state' = [state EXCEPT ![t] = status]

\* The document's TTL runs out.
Expire(t) ==
    /\ state[t] \in Stored
    /\ state' = [state EXCEPT ![t] = "gone"]

Next ==
    \/ \E S \in SUBSET Task : Lose(S)
    \/ \E t \in Task : \/ Submit(t)
                       \/ Expire(t)
                       \/ \E status \in Updated : Update(t, status)

Spec == Init /\ [][Next]_state
=============================================================================
