------------------------- MODULE ProvisionExecutor -------------------------
(***************************************************************************)
(* The run of one provision flow: ProvisionExecutor of internal/schema and *)
(* WANProvision of internal/cwmp, with the CPE that carries out the steps. *)
(* The executor keeps its position and its variables; instance numbers of  *)
(* AddObject answers become variables that later steps refer to.  Losing   *)
(* the connection leaves it where it was, and the next session sends the   *)
(* current step again.                                                     *)
(*                                                                         *)
(* A value is a number: 0 stands for a variable that is missing, empty or  *)
(* "0", which no reference can be made of; anything else for its text.     *)
(***************************************************************************)
EXTENDS Naturals, Sequences, FiniteSets

CONSTANTS
    Name,            \* variable names, {name} in the templates
    Jobs,            \* the tasks considered: flow, variables and features
    FirstInstance,   \* instance number of the next object a CPE creates
    MaxDrops         \* bound on lost connections

NoName == ""         \* Step.as when the step names no variable
StepKind == {"add_object", "set", "delete"}

ASSUME NameAssumption == "gpon_idx" \in Name /\ NoName \notin Name
ASSUME InstanceAssumption == FirstInstance \in Nat \ {0} /\ MaxDrops \in Nat

\* A job is a flow (ProvisionFlow.Steps), the variables of the driver's config
\* overridden by the task's, and the features of the driver that are on.
ASSUME JobAssumption == \A j \in Jobs :
    /\ j.given \in [Name -> Nat]
    /\ Len(j.steps) \in Nat /\ DOMAIN j.steps = 1 .. Len(j.steps)
    /\ \A i \in DOMAIN j.steps :
          /\ j.steps[i].kind \in StepKind
          /\ j.steps[i].as \in Name \cup {NoName}
          /\ j.steps[i].uses \subseteq Name

VARIABLES
    job,
    features,   \* pe.features: the conditions that hold
    vars,       \* pe.vars
    cur,        \* pe.cur, from 1
    rpc,        \* "sent", "lost", "done", "failed", or "gone" with the process
    accepted,   \* steps the CPE carried out, in order (for the properties)
    made,       \* objects the CPE created, with the variable of the step
    next,       \* the CPE's next instance number
    drops

state == <<job, features, vars, cur, rpc, accepted, made, next, drops>>

-----------------------------------------------------------------------------
\* Conditions are evaluated once, from what the task starts with
\* (NewProvisionExecutor): an AddObject answer changes none of them.
Features(j) ==
    {<<"feature", f>> : f \in j.features}
    \cup {IF j.given["gpon_idx"] > 0 THEN <<"gpon_reuse">> ELSE <<"gpon_create">>}
    \cup {<<"has", n>> : n \in {m \in Name : j.given[m] > 0}}

\* evalCondition; an empty condition always holds.
Holds(step, conditions) ==
    step.cond = <<>> \/ (step.cond \in conditions <=> ~step.neg)

Active(j, conditions) == {i \in DOMAIN j.steps : Holds(j.steps[i], conditions)}
ActiveSteps == Active(job, features)

\* Where skipInactive leaves pe.cur when it starts from c (one number).
Skipped(c) ==
    {i \in c .. Len(job.steps) + 1 :
        /\ i \in ActiveSteps \/ i = Len(job.steps) + 1
        /\ \A k \in c .. i - 1 : k \notin ActiveSteps}

Step == job.steps[cur]

\* executeTask creates the executor and sends the first step; with none to
\* send, buildCurrentXML fails and so does the task.
Init ==
    /\ job \in Jobs
    /\ features = Features(job)
    /\ vars = job.given
    /\ cur \in Skipped(1)
    /\ rpc = IF cur \in ActiveSteps THEN "sent" ELSE "failed"
    /\ accepted = <<>>
    /\ made = {}
    /\ next = FirstInstance
    /\ drops = 0

-----------------------------------------------------------------------------
(* The CPE.                                                                *)

Carried == {accepted[k] : k \in DOMAIN accepted}

\* The CPE carries out the step it was sent.  Adding an object once more makes
\* another one; an object that was deleted cannot be deleted again.
Accept ==
    /\ rpc = "sent"
    /\ Step.kind = "delete" => cur \notin Carried
    /\ accepted' = Append(accepted, cur)
    /\ IF Step.kind = "add_object"
       THEN /\ made' = made \cup {[as |-> Step.as, number |-> next]}
            /\ next' = next + 1
       ELSE UNCHANGED <<made, next>>

-----------------------------------------------------------------------------
(* The executor.                                                           *)

\* Mutant: the answer to the last step sends another one.
AdvanceAlwaysSends ==
    /\ cur' \in Skipped(cur + 1)
    /\ rpc' = "sent"

\* Mutant: the position moves on a second time.
AdvanceTwice ==
    /\ \E c \in Skipped(cur + 1) :
          cur' \in IF c = Len(job.steps) + 1 THEN {c} ELSE Skipped(c + 1)
    /\ rpc' = IF cur' = Len(job.steps) + 1 THEN "done" ELSE "sent"

\* Advance and the next step's RPC, or the end of the task.
Advance ==
    /\ cur' \in Skipped(cur + 1)
    /\ rpc' = IF cur' = Len(job.steps) + 1 THEN "done" ELSE "sent"

\* Mutant: the instance number is not recorded.
AddObjectResponseUnbound ==
    /\ rpc = "sent" /\ Step.kind = "add_object"
    /\ Accept
    /\ Advance
    /\ UNCHANGED <<job, features, vars, drops>>

\* onAddObject: the instance number of the answer becomes a variable.
AddObjectResponse ==
    /\ rpc = "sent" /\ Step.kind = "add_object"
    /\ Accept
    /\ vars' = IF Step.as = NoName THEN vars ELSE [vars EXCEPT ![Step.as] = next]
    /\ Advance
    /\ UNCHANGED <<job, features, drops>>

\* onSetParams.
SetParamValuesResponse ==
    /\ rpc = "sent" /\ Step.kind = "set"
    /\ Accept
    /\ Advance
    /\ UNCHANGED <<job, features, vars, drops>>

\* onDeleteObject.
DeleteObjectResponse ==
    /\ rpc = "sent" /\ Step.kind = "delete"
    /\ Accept
    /\ Advance
    /\ UNCHANGED <<job, features, vars, drops>>

\* A Fault ends the flow and the task (ServeHTTP).
Fault ==
    /\ rpc = "sent"
    /\ rpc' = "failed"
    /\ UNCHANGED <<job, features, vars, cur, accepted, made, next, drops>>

-----------------------------------------------------------------------------
(* What happens to the connection and the process.                         *)

\* The connection is lost after the CPE has carried out the step.
LoseAnswer ==
    /\ drops < MaxDrops
    /\ Accept
    /\ rpc' = "lost"
    /\ drops' = drops + 1
    /\ UNCHANGED <<job, features, vars, cur>>

\* The connection is lost before that.
LoseRequest ==
    /\ rpc = "sent"
    /\ drops < MaxDrops
    /\ rpc' = "lost"
    /\ drops' = drops + 1
    /\ UNCHANGED <<job, features, vars, cur, accepted, made, next>>

\* Mutant: the adopted flow starts again.
ResumeFromStart ==
    /\ rpc = "lost"
    /\ rpc' = "sent"
    /\ cur' \in Skipped(1)
    /\ UNCHANGED <<job, features, vars, accepted, made, next, drops>>

\* Mutant: the adopted flow goes on after the step whose answer was lost.
ResumeAfter ==
    /\ rpc = "lost"
    /\ Advance
    /\ UNCHANGED <<job, features, vars, accepted, made, next, drops>>

\* The next session adopts the flow and resends its current step (ServeHTTP).
Resume ==
    /\ rpc = "lost"
    /\ rpc' = "sent"
    /\ UNCHANGED <<job, features, vars, cur, accepted, made, next, drops>>

\* The executor lives in memory only.
Restart ==
    /\ rpc \in {"sent", "lost"}
    /\ rpc' = "gone"
    /\ UNCHANGED <<job, features, vars, cur, accepted, made, next, drops>>

Next ==
    \/ AddObjectResponse
    \/ SetParamValuesResponse
    \/ DeleteObjectResponse
    \/ Fault
    \/ LoseAnswer
    \/ LoseRequest
    \/ Resume
    \/ Restart

Spec == Init /\ [][Next]_state

-----------------------------------------------------------------------------
(* Properties                                                              *)

\* Types; and while an RPC is out or lost the executor stands at an active
\* step, which currentStepKind and buildCurrentXML rely on.
TypeOK ==
    /\ job \in Jobs
    /\ vars \in [Name -> Nat]
    /\ cur \in 1 .. Len(job.steps) + 1
    /\ rpc \in {"sent", "lost", "done", "failed", "gone"}
    /\ rpc \in {"sent", "lost"} => cur \in ActiveSteps
    /\ accepted \in Seq(ActiveSteps)
    /\ made \subseteq [as : Name \cup {NoName}, number : Nat]
    /\ next \in Nat
    /\ drops \in 0 .. MaxDrops

\* The active AddObject steps already passed that store the variable n.
Binders(n) ==
    {k \in ActiveSteps : k < cur /\ job.steps[k].kind = "add_object"
                                 /\ job.steps[k].as = n}

\* A step that is sent refers only to things that exist: to the object made
\* for the variable by an earlier step, else to what the task came with
\* (substitute, resolveParams).
ReferencesResolve ==
    rpc = "sent" =>
        \A n \in Step.uses :
            IF Binders(n) = {} THEN vars[n] = job.given[n] /\ vars[n] > 0
            ELSE [as |-> n, number |-> vars[n]] \in made

\* A flow is complete, and its task done, when the CPE has carried out every
\* active step and no other (AdvanceAddObject, Advance, skipInactive).
CompleteMeansAllSteps == rpc = "done" => Carried = ActiveSteps

\* A lost connection repeats one step at most: resuming an adopted flow starts
\* neither the flow nor earlier steps again (ServeHTTP).
OneRepeatPerDrop == Len(accepted) <= Cardinality(Carried) + drops

\* The executor implements ProvisionFlow: the active steps in order, each
\* carried out before the next, whatever is lost or fails in between.
Promise == INSTANCE ProvisionFlow WITH
    Flows <- {Active(j, Features(j)) : j \in Jobs},
    left <- ActiveSteps \ Carried,
    effects <- accepted,
    outcome <- IF rpc \in {"sent", "lost"} THEN "running" ELSE rpc
ImplementsProvisionFlow == Promise!Spec

\* Every variable an active step uses comes with the task or from an earlier
\* active AddObject step.
WellFormed(j) ==
    LET active == Active(j, Features(j))
    IN \A i \in active : \A n \in j.steps[i].uses :
          \/ j.given[n] > 0
          \/ \E k \in active : /\ k < i
                               /\ j.steps[k].kind = "add_object"
                               /\ j.steps[k].as = n
=============================================================================
