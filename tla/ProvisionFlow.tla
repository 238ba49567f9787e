--------------------------- MODULE ProvisionFlow ---------------------------
(***************************************************************************)
(* What running a provision flow promises: the CPE carries out its active  *)
(* steps in order and skips none; only the step carried out last may be    *)
(* carried out again; and the flow is reported done only after the last    *)
(* one.  A flow is the set of the numbers of its active steps.             *)
(***************************************************************************)
EXTENDS Naturals, Sequences

CONSTANT Flows

VARIABLES
    left,       \* active steps the CPE has not carried out
    effects,    \* the steps it has carried out, repeats included
    outcome     \* "running", "done", "failed", or "gone" with the process

flow == <<left, effects, outcome>>

\* A flow without an active step fails.
Init ==
    /\ left \in Flows
    /\ effects = <<>>
    /\ outcome = IF left = {} THEN "failed" ELSE "running"

\* The next step of the flow.
IsNext(i) == i \in left /\ \A k \in left : i <= k

\* The step carried out last.
IsLast(i) == effects # <<>> /\ i = effects[Len(effects)]

Carry(i) ==
    /\ outcome = "running"
    /\ IsNext(i) \/ IsLast(i)
    /\ left' = left \ {i}
    /\ effects' = Append(effects, i)
    /\ \/ outcome' = "running"
       \/ left' = {} /\ outcome' = "done"

Stop ==
    /\ outcome = "running"
    /\ outcome' \in {"failed", "gone"}
    /\ UNCHANGED <<left, effects>>

Next == Stop \/ \E i \in left \cup {effects[k] : k \in DOMAIN effects} : Carry(i)

Spec == Init /\ [][Next]_flow
=============================================================================
