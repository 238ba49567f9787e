---------------------- MODULE ProvisionExecutorProofs ----------------------
(***************************************************************************)
(* Proofs about ProvisionExecutor, for every set of jobs: any flow, any    *)
(* variables and features, any number of lost connections.                 *)
(***************************************************************************)
EXTENDS ProvisionExecutor, FiniteSetTheorems, TLAPS

(***************************************************************************)
(* The position of the executor.                                           *)
(***************************************************************************)

\* skipInactive stops at an active step or behind the last one, and passes
\* over inactive steps only.
LEMMA SkippedStops ==
    ASSUME job \in Jobs, NEW c \in Nat, NEW i \in Skipped(c)
    PROVE  /\ i \in c .. Len(job.steps) + 1
           /\ i <= Len(job.steps) => i \in ActiveSteps
           /\ \A k \in ActiveSteps : c <= k => i <= k
<1>1. i \in c .. Len(job.steps) + 1 /\ (i \in ActiveSteps \/ i = Len(job.steps) + 1)
  BY DEF Skipped
<1>2. ASSUME NEW k \in ActiveSteps, c <= k, ~(i <= k)
      PROVE  FALSE
  <2>1. k \in Nat /\ k \in c .. i - 1
    BY <1>1, <1>2, JobAssumption DEF ActiveSteps, Active
  <2> QED BY <2>1, <1>2 DEF Skipped
<1> QED BY <1>1, <1>2, JobAssumption

\* Active steps are steps.
LEMMA ActiveAreSteps ==
    ASSUME job \in Jobs, NEW k \in ActiveSteps
    PROVE  k \in 1 .. Len(job.steps) /\ k \in DOMAIN job.steps
BY JobAssumption DEF ActiveSteps, Active

(***************************************************************************)
(* Type correctness.                                                       *)
(***************************************************************************)

\* The conditions are those the task started with, whatever its variables
\* are by now.
FeaturesFixed == features = Features(job)

\* A step that is sent is there to be sent.
LEMMA StepIsActive ==
    ASSUME TypeOK, rpc = "sent"
    PROVE  /\ cur \in ActiveSteps
           /\ cur \in 1 .. Len(job.steps)
           /\ cur \in Nat
           /\ Len(job.steps) \in Nat
           /\ Step.kind \in StepKind
           /\ Step.as \in Name \cup {NoName}
           /\ Step.uses \subseteq Name
BY ActiveAreSteps, JobAssumption DEF TypeOK, Step

\* Carrying out a step adds it to the steps carried out.
LEMMA AcceptCarries ==
    ASSUME TypeOK, Accept
    PROVE  /\ accepted' \in Seq(ActiveSteps)
           /\ Len(accepted') = Len(accepted) + 1
           /\ accepted'[Len(accepted')] = cur
           /\ Carried' = Carried \cup {cur}
<1>1. cur \in ActiveSteps /\ accepted \in Seq(ActiveSteps) /\ accepted' = Append(accepted, cur)
  BY StepIsActive DEF Accept, TypeOK
<1>2. accepted' \in Seq(ActiveSteps) /\ Len(accepted') = Len(accepted) + 1
  BY <1>1
<1>3. /\ accepted'[Len(accepted')] = cur
      /\ \A k \in 1 .. Len(accepted) : accepted'[k] = accepted[k]
  BY <1>1
<1>4. DOMAIN accepted = 1 .. Len(accepted) /\ DOMAIN accepted' = 1 .. Len(accepted) + 1
  BY <1>1, <1>2
<1>5. Carried' \subseteq Carried \cup {cur}
  <2> SUFFICES ASSUME NEW k \in 1 .. Len(accepted) + 1
               PROVE  accepted'[k] \in Carried \cup {cur}
    BY <1>4 DEF Carried
  <2>1. CASE k = Len(accepted) + 1
    BY <2>1, <1>2, <1>3
  <2>2. CASE k # Len(accepted) + 1
    <3>1. k \in 1 .. Len(accepted)
      BY <2>2, <1>1
    <3> QED BY <3>1, <1>3, <1>4 DEF Carried
  <2> QED BY <2>1, <2>2
<1>6. Carried \cup {cur} \subseteq Carried'
  <2>1. ASSUME NEW k \in DOMAIN accepted
        PROVE  accepted[k] \in Carried'
    <3>1. k \in DOMAIN accepted' /\ accepted'[k] = accepted[k]
      BY <1>1, <1>3, <1>4
    <3> QED BY <3>1 DEF Carried
  <2>2. cur \in Carried'
    <3>1. Len(accepted') \in DOMAIN accepted'
      BY <1>1, <1>2, <1>4
    <3> QED BY <3>1, <1>3 DEF Carried
  <2> QED BY <2>1, <2>2 DEF Carried
<1> QED BY <1>2, <1>3, <1>5, <1>6

\* Carrying out a step keeps the types of what the CPE has done.
LEMMA AcceptTypes ==
    ASSUME TypeOK, Accept
    PROVE  /\ next' \in Nat
           /\ made' \subseteq [as : Name \cup {NoName}, number : Nat]
<1>1. rpc = "sent"
  BY DEF Accept
<1> QED BY <1>1, StepIsActive DEF Accept, TypeOK

\* Moving on leaves the executor at an active step or done.
LEMMA AdvanceTypes ==
    ASSUME TypeOK, rpc = "sent", Advance
    PROVE  /\ cur' \in Nat
           /\ cur < cur'
           /\ cur' \in 1 .. Len(job.steps) + 1
           /\ \/ rpc' = "sent" /\ cur' \in ActiveSteps
              \/ rpc' = "done" /\ cur' = Len(job.steps) + 1
           /\ \A k \in ActiveSteps : cur < k => cur' <= k
<1>1. cur \in 1 .. Len(job.steps) /\ Len(job.steps) \in Nat /\ job \in Jobs
  BY StepIsActive DEF TypeOK
<1>2. cur + 1 \in Nat /\ cur' \in Skipped(cur + 1)
  BY <1>1 DEF Advance
<1>3. /\ cur' \in cur + 1 .. Len(job.steps) + 1
      /\ cur' <= Len(job.steps) => cur' \in ActiveSteps
      /\ \A k \in ActiveSteps : cur + 1 <= k => cur' <= k
  BY <1>1, <1>2, SkippedStops
<1>4. \/ rpc' = "sent" /\ cur' \in ActiveSteps
      \/ rpc' = "done" /\ cur' = Len(job.steps) + 1
  BY <1>1, <1>3 DEF Advance
<1>5. ASSUME NEW k \in ActiveSteps, cur < k
      PROVE  cur' <= k
  <2>1. k \in Nat /\ cur + 1 <= k
    BY <1>1, <1>5, ActiveAreSteps
  <2> QED BY <2>1, <1>3
<1> QED BY <1>1, <1>3, <1>4, <1>5

LEMMA InitTypes == Init => TypeOK /\ FeaturesFixed
<1> SUFFICES ASSUME Init
             PROVE  TypeOK /\ FeaturesFixed
  OBVIOUS
<1>1. job \in Jobs /\ Len(job.steps) \in Nat /\ vars \in [Name -> Nat]
  BY JobAssumption DEF Init
<1>2. cur \in 1 .. Len(job.steps) + 1
  BY <1>1, SkippedStops DEF Init
<1>3. rpc \in {"sent", "failed"} /\ (rpc = "sent" => cur \in ActiveSteps)
  BY DEF Init
<1>4. next \in Nat /\ drops \in 0 .. MaxDrops /\ accepted \in Seq(ActiveSteps) /\ made = {}
  BY InstanceAssumption DEF Init
<1> QED BY <1>1, <1>2, <1>3, <1>4 DEF TypeOK, FeaturesFixed, Init

LEMMA NextTypes == TypeOK /\ FeaturesFixed /\ [Next]_state => TypeOK' /\ FeaturesFixed'
<1> SUFFICES ASSUME TypeOK, FeaturesFixed, [Next]_state
             PROVE  TypeOK' /\ FeaturesFixed'
  OBVIOUS
<1>1. job' = job /\ features' = features
  BY DEF Next, state, AddObjectResponse, SetParamValuesResponse, DeleteObjectResponse,
         Fault, LoseAnswer, LoseRequest, Resume, Restart
<1>2. FeaturesFixed' /\ ActiveSteps' = ActiveSteps
  BY <1>1 DEF FeaturesFixed, ActiveSteps
<1>3. CASE AddObjectResponse
  <2>1. Accept /\ Advance /\ rpc = "sent" /\ drops' = drops
    BY <1>3 DEF AddObjectResponse
  <2>2. vars' \in [Name -> Nat]
    <3>1. Step.as \in Name \cup {NoName}
      BY <2>1, StepIsActive
    <3> QED BY <3>1, <1>3 DEF AddObjectResponse, TypeOK
  <2> QED BY <1>1, <1>2, <2>1, <2>2, AcceptCarries, AcceptTypes, AdvanceTypes DEF TypeOK
<1>4. CASE SetParamValuesResponse \/ DeleteObjectResponse
  <2>1. Accept /\ Advance /\ rpc = "sent" /\ vars' = vars /\ drops' = drops
    BY <1>4 DEF SetParamValuesResponse, DeleteObjectResponse
  <2> QED BY <1>1, <1>2, <2>1, AcceptCarries, AcceptTypes, AdvanceTypes DEF TypeOK
<1>5. CASE LoseAnswer
  <2>1. Accept /\ rpc = "sent" /\ rpc' = "lost" /\ vars' = vars /\ cur' = cur
    BY <1>5 DEF LoseAnswer, Accept
  <2>2. drops' \in 0 .. MaxDrops
    BY <1>5, InstanceAssumption DEF LoseAnswer, TypeOK
  <2> QED BY <1>1, <1>2, <2>1, <2>2, AcceptCarries, AcceptTypes DEF TypeOK
<1>6. CASE LoseRequest
  <2>1. drops' \in 0 .. MaxDrops
    BY <1>6, InstanceAssumption DEF LoseRequest, TypeOK
  <2> QED BY <1>1, <1>2, <1>6, <2>1 DEF LoseRequest, TypeOK
<1>7. CASE Fault \/ Resume \/ Restart
  BY <1>1, <1>2, <1>7 DEF Fault, Resume, Restart, TypeOK
<1>8. CASE UNCHANGED state
  BY <1>1, <1>2, <1>8 DEF state, TypeOK
<1> QED BY <1>3, <1>4, <1>5, <1>6, <1>7, <1>8 DEF Next

\* TypeOK is an invariant: while an RPC is out or lost, the executor stands at
\* an active step, which buildCurrentXML can send.
THEOREM TypeCorrect == Spec => []TypeOK
<1>1. Init => TypeOK /\ FeaturesFixed
  BY InitTypes
<1>2. TypeOK /\ FeaturesFixed /\ [Next]_state => TypeOK' /\ FeaturesFixed'
  BY NextTypes
<1> QED BY <1>1, <1>2, PTL DEF Spec

(***************************************************************************)
(* Progress: the CPE has carried out every active step before the current  *)
(* one, nothing after it, and the current one only if its answer was lost  *)
(* or the flow was given up.                                               *)
(***************************************************************************)

Progress ==
    /\ \A k \in ActiveSteps : k < cur => k \in Carried
    /\ \A k \in Carried : k <= cur
    /\ cur \in Carried => accepted # <<>> /\ accepted[Len(accepted)] = cur

\* The steps carried out are active.
LEMMA CarriedAreActive ==
    ASSUME TypeOK
    PROVE  /\ Carried \subseteq ActiveSteps
           /\ \A k \in Carried : k \in Nat
<1>1. Carried \subseteq ActiveSteps
  BY DEF TypeOK, Carried
<1>2. \A k \in ActiveSteps : k \in Nat
  BY ActiveAreSteps, JobAssumption DEF TypeOK
<1> QED BY <1>1, <1>2

\* An answered step is behind the executor.
LEMMA AnsweredIsBehind ==
    ASSUME TypeOK, Progress, rpc = "sent", Accept, Advance,
           ActiveSteps' = ActiveSteps
    PROVE  /\ Progress'
           /\ \A k \in Carried' : k < cur'
<1>1. Carried' = Carried \cup {cur}
  BY AcceptCarries
<1>2. /\ cur \in Nat /\ cur' \in Nat /\ cur < cur'
      /\ \A k \in ActiveSteps : cur < k => cur' <= k
  BY StepIsActive, AdvanceTypes
<1>3. \A k \in Carried' : k < cur'
  BY <1>1, <1>2, CarriedAreActive DEF Progress
<1>4. ASSUME NEW k \in ActiveSteps, k < cur'
      PROVE  k \in Carried'
  <2>1. k \in Nat
    BY ActiveAreSteps, JobAssumption DEF TypeOK
  <2>2. k < cur \/ k = cur
    BY <1>2, <1>4, <2>1
  <2> QED BY <1>1, <2>2 DEF Progress
<1>5. cur' \notin Carried'
  BY <1>2, <1>3
<1>6. \A k \in Carried' : k <= cur'
  BY <1>1, <1>2, <1>3, CarriedAreActive
<1> QED BY <1>3, <1>4, <1>5, <1>6 DEF Progress

LEMMA NextProgress ==
    TypeOK /\ Progress /\ [Next]_state => Progress'
<1> SUFFICES ASSUME TypeOK, Progress, [Next]_state
             PROVE  Progress'
  OBVIOUS
<1>1. job' = job /\ features' = features /\ ActiveSteps' = ActiveSteps
  BY DEF Next, state, AddObjectResponse, SetParamValuesResponse, DeleteObjectResponse,
         Fault, LoseAnswer, LoseRequest, Resume, Restart, ActiveSteps
<1>2. CASE AddObjectResponse \/ SetParamValuesResponse \/ DeleteObjectResponse
  <2>1. rpc = "sent" /\ Accept /\ Advance
    BY <1>2 DEF AddObjectResponse, SetParamValuesResponse, DeleteObjectResponse
  <2> QED BY <1>1, <2>1, AnsweredIsBehind
<1>3. CASE LoseAnswer
  <2>1. Accept /\ rpc = "sent" /\ cur' = cur
    BY <1>3 DEF LoseAnswer, Accept
  <2>2. /\ Carried' = Carried \cup {cur}
        /\ Len(accepted') = Len(accepted) + 1
        /\ accepted'[Len(accepted')] = cur
        /\ accepted \in Seq(ActiveSteps)
    BY <2>1, AcceptCarries DEF TypeOK
  <2>3. accepted' # <<>>
    BY <2>2
  <2>4. cur \in Nat
    BY <2>1, StepIsActive
  <2> QED BY <1>1, <2>1, <2>2, <2>3, <2>4 DEF Progress
<1>4. CASE Fault \/ LoseRequest \/ Resume \/ Restart \/ UNCHANGED state
  <2>1. cur' = cur /\ accepted' = accepted
    BY <1>4 DEF Fault, LoseRequest, Resume, Restart, state
  <2> QED BY <1>1, <2>1 DEF Progress, Carried
<1> QED BY <1>2, <1>3, <1>4 DEF Next

LEMMA InitProgress == Init => Progress
<1> SUFFICES ASSUME Init
             PROVE  Progress
  OBVIOUS
<1>1. Carried = {}
  BY DEF Init, Carried
<1>2. job \in Jobs /\ cur \in Skipped(1)
  BY DEF Init
<1>3. ASSUME NEW k \in ActiveSteps, k < cur
      PROVE  FALSE
  <2>1. k \in Nat /\ 1 <= k
    BY <1>2, ActiveAreSteps, JobAssumption
  <2>2. cur \in Nat /\ cur <= k
    BY <1>2, <2>1, SkippedStops, JobAssumption
  <2> QED BY <1>3, <2>1, <2>2
<1> QED BY <1>1, <1>3 DEF Progress

\* A flow that is done is behind its last step.
DoneIsAtTheEnd == rpc = "done" => cur = Len(job.steps) + 1

LEMMA NextDone == TypeOK /\ DoneIsAtTheEnd /\ [Next]_state => DoneIsAtTheEnd'
BY DEF DoneIsAtTheEnd, Next, state, AddObjectResponse, SetParamValuesResponse,
       DeleteObjectResponse, Advance, Fault, LoseAnswer, LoseRequest, Resume, Restart

IInv == TypeOK /\ FeaturesFixed /\ Progress /\ DoneIsAtTheEnd

LEMMA Invariance == Spec => []IInv
<1>1. Init => IInv
  BY InitTypes, InitProgress DEF IInv, DoneIsAtTheEnd, Init
<1>2. IInv /\ [Next]_state => IInv'
  BY NextTypes, NextProgress, NextDone DEF IInv
<1> QED BY <1>1, <1>2, PTL DEF Spec

\* A task is done only when the CPE has carried out every active step.
THEOREM CompleteFlowsAreCarriedOut == Spec => []CompleteMeansAllSteps
<1>1. IInv => CompleteMeansAllSteps
  <2> SUFFICES ASSUME IInv, rpc = "done"
               PROVE  Carried = ActiveSteps
    BY DEF CompleteMeansAllSteps
  <2>1. cur = Len(job.steps) + 1 /\ job \in Jobs /\ Len(job.steps) \in Nat
    BY JobAssumption DEF IInv, DoneIsAtTheEnd, TypeOK
  <2>2. \A k \in ActiveSteps : k < cur
    BY <2>1, ActiveAreSteps
  <2> QED BY <2>2, CarriedAreActive DEF IInv, Progress
<1> QED BY <1>1, Invariance, PTL

(***************************************************************************)
(* Repeats.  A loss that the CPE answered already leaves the executor at a *)
(* step that has been carried out; it is paid for by the loss that put it  *)
(* there.                                                                  *)
(***************************************************************************)

Owing == IF rpc \in {"sent", "lost"} /\ cur \in Carried THEN 1 ELSE 0

RepeatsCounted ==
    /\ IsFiniteSet(Carried)
    /\ Len(accepted) + Owing <= Cardinality(Carried) + drops

\* Carrying out a step adds it to a finite set.
LEMMA AcceptCounts ==
    ASSUME TypeOK, IsFiniteSet(Carried), Accept
    PROVE  /\ IsFiniteSet(Carried')
           /\ Cardinality(Carried) \in Nat
           /\ Cardinality(Carried') =
                 IF cur \in Carried THEN Cardinality(Carried)
                 ELSE Cardinality(Carried) + 1
<1>1. Carried' = Carried \cup {cur}
  BY AcceptCarries
<1> QED BY <1>1, FS_AddElement, FS_CardinalityType

LEMMA NextRepeats == IInv /\ RepeatsCounted /\ [Next]_state => RepeatsCounted'
<1> SUFFICES ASSUME IInv, RepeatsCounted, [Next]_state
             PROVE  RepeatsCounted'
  OBVIOUS
<1>1. /\ Len(accepted) \in Nat
      /\ drops \in Nat
      /\ Cardinality(Carried) \in Nat
  BY FS_CardinalityType, InstanceAssumption DEF RepeatsCounted, IInv, TypeOK
<1>2. ActiveSteps' = ActiveSteps
  BY DEF Next, state, AddObjectResponse, SetParamValuesResponse, DeleteObjectResponse,
         Fault, LoseAnswer, LoseRequest, Resume, Restart, ActiveSteps
<1>3. CASE AddObjectResponse \/ SetParamValuesResponse \/ DeleteObjectResponse
  <2>1. rpc = "sent" /\ Accept /\ Advance /\ drops' = drops
    BY <1>3 DEF AddObjectResponse, SetParamValuesResponse, DeleteObjectResponse
  <2>2. cur' \notin Carried'
    <3>1. \A k \in Carried' : k < cur'
      BY <1>2, <2>1, AnsweredIsBehind DEF IInv
    <3>2. cur' \in Nat
      BY <2>1, AdvanceTypes DEF IInv
    <3> QED BY <3>1, <3>2
  <2>3. Owing' = 0 /\ Owing = (IF cur \in Carried THEN 1 ELSE 0)
    BY <2>1, <2>2 DEF Owing
  <2>4. Len(accepted') = Len(accepted) + 1
    BY <2>1, AcceptCarries DEF IInv
  <2> QED BY <1>1, <2>1, <2>3, <2>4, AcceptCounts DEF RepeatsCounted, IInv
<1>4. CASE LoseAnswer
  <2>1. rpc = "sent" /\ rpc' = "lost" /\ Accept /\ cur' = cur /\ drops' = drops + 1
    BY <1>4 DEF LoseAnswer, Accept
  <2>2. Owing' <= 1 /\ Owing' \in Nat /\ Owing = (IF cur \in Carried THEN 1 ELSE 0)
    BY <2>1 DEF Owing
  <2>3. Len(accepted') = Len(accepted) + 1
    BY <2>1, AcceptCarries DEF IInv
  <2> QED BY <1>1, <2>1, <2>2, <2>3, AcceptCounts DEF RepeatsCounted, IInv
<1>5. CASE LoseRequest
  <2>1. accepted' = accepted /\ drops' = drops + 1 /\ Owing' = Owing /\ Owing \in Nat
    BY <1>5 DEF LoseRequest, Owing, Carried
  <2> QED BY <1>1, <2>1 DEF RepeatsCounted, Carried
<1>6. CASE Fault \/ Resume \/ Restart \/ UNCHANGED state
  <2>1. /\ accepted' = accepted /\ drops' = drops /\ cur' = cur
        /\ rpc' \in {"sent", "lost"} => rpc \in {"sent", "lost"}
    BY <1>6 DEF Fault, Resume, Restart, state
  <2>2. Carried' = Carried
    BY <2>1 DEF Carried
  <2>3. Owing' <= Owing /\ Owing' \in Nat /\ Owing \in Nat
    BY <2>1, <2>2 DEF Owing
  <2> QED BY <1>1, <2>1, <2>2, <2>3 DEF RepeatsCounted
<1> QED BY <1>3, <1>4, <1>5, <1>6 DEF Next

\* Each lost connection repeats one step at most, in flows of any length.
THEOREM LossesCostOneRepeatEach == Spec => []OneRepeatPerDrop
<1>1. Init => RepeatsCounted
  <2> SUFFICES ASSUME Init
               PROVE  RepeatsCounted
    OBVIOUS
  <2>1. Carried = {} /\ Len(accepted) = 0 /\ drops = 0
    BY DEF Init, Carried
  <2>2. Owing = 0
    BY <2>1 DEF Owing
  <2> QED BY <2>1, <2>2, FS_EmptySet DEF RepeatsCounted
<1>2. IInv /\ RepeatsCounted => OneRepeatPerDrop
  <2> SUFFICES ASSUME IInv, RepeatsCounted
               PROVE  OneRepeatPerDrop
    OBVIOUS
  <2>1. /\ Len(accepted) \in Nat
        /\ drops \in Nat
        /\ Cardinality(Carried) \in Nat
        /\ Owing \in {0, 1}
    BY FS_CardinalityType, InstanceAssumption DEF RepeatsCounted, IInv, TypeOK, Owing
  <2> QED BY <2>1 DEF RepeatsCounted, OneRepeatPerDrop
<1> QED BY <1>1, <1>2, Invariance, NextRepeats, PTL DEF Spec

(***************************************************************************)
(* References: a variable that a passed active AddObject step stores names *)
(* an object made for it; every other one has the value it came with.  A   *)
(* lost answer adds an object and binds nothing, so both still hold.       *)
(***************************************************************************)

VarsSound ==
    \A n \in Name :
        IF Binders(n) = {} THEN vars[n] = job.given[n]
        ELSE [as |-> n, number |-> vars[n]] \in made

\* Binders when the executor has moved on from an active step.
LEMMA BindersAfter ==
    ASSUME TypeOK, rpc = "sent", Advance, job' = job, ActiveSteps' = ActiveSteps,
           NEW n \in Name
    PROVE  Binders(n)' = Binders(n) \cup
               (IF Step.kind = "add_object" /\ Step.as = n THEN {cur} ELSE {})
<1>1. /\ cur \in ActiveSteps /\ cur \in Nat /\ cur' \in Nat /\ cur < cur'
      /\ \A k \in ActiveSteps : cur < k => cur' <= k
  BY StepIsActive, AdvanceTypes
<1>2. ASSUME NEW k \in ActiveSteps
      PROVE  k < cur' <=> k < cur \/ k = cur
  <2>1. k \in Nat
    BY ActiveAreSteps, JobAssumption DEF TypeOK
  <2> QED BY <1>1, <2>1
<1> QED BY <1>1, <1>2 DEF Binders, Step

LEMMA NextVars == IInv /\ VarsSound /\ [Next]_state => VarsSound'
<1> SUFFICES ASSUME IInv, VarsSound, [Next]_state, NEW n \in Name
             PROVE  (IF Binders(n) = {} THEN vars[n] = job.given[n]
                     ELSE [as |-> n, number |-> vars[n]] \in made)'
  BY DEF VarsSound
<1>1. job' = job /\ ActiveSteps' = ActiveSteps
  BY DEF Next, state, AddObjectResponse, SetParamValuesResponse, DeleteObjectResponse,
         Fault, LoseAnswer, LoseRequest, Resume, Restart, ActiveSteps
<1>2. IF Binders(n) = {} THEN vars[n] = job.given[n]
      ELSE [as |-> n, number |-> vars[n]] \in made
  BY DEF VarsSound
<1>3. CASE AddObjectResponse
  <2>1. /\ rpc = "sent" /\ Advance /\ Accept /\ Step.kind = "add_object"
        /\ made' = made \cup {[as |-> Step.as, number |-> next]}
        /\ vars' = IF Step.as = NoName THEN vars ELSE [vars EXCEPT ![Step.as] = next]
    BY <1>3 DEF AddObjectResponse, Accept
  <2>2. Binders(n)' = Binders(n) \cup (IF Step.as = n THEN {cur} ELSE {})
    BY <1>1, <2>1, BindersAfter DEF IInv
  <2>3. vars \in [Name -> Nat] /\ Step.as \in Name \cup {NoName} /\ n # NoName
    BY <2>1, StepIsActive, NameAssumption DEF IInv, TypeOK
  <2>4. CASE Step.as = n
    <3>1. vars'[n] = next
      BY <2>1, <2>3, <2>4
    <3> QED BY <2>1, <2>2, <2>4, <3>1
  <2>5. CASE Step.as # n
    <3>1. vars'[n] = vars[n] /\ Binders(n)' = Binders(n)
      BY <2>1, <2>2, <2>3, <2>5
    <3> QED BY <1>1, <1>2, <2>1, <3>1
  <2> QED BY <2>4, <2>5
<1>4. CASE SetParamValuesResponse \/ DeleteObjectResponse
  <2>1. /\ rpc = "sent" /\ Advance /\ Accept /\ vars' = vars /\ made' = made
        /\ Step.kind # "add_object"
    BY <1>4 DEF SetParamValuesResponse, DeleteObjectResponse, Accept
  <2>2. Binders(n)' = Binders(n)
    BY <1>1, <2>1, BindersAfter DEF IInv
  <2> QED BY <1>1, <1>2, <2>1, <2>2
<1>5. CASE LoseAnswer \/ LoseRequest \/ Fault \/ Resume \/ Restart \/ UNCHANGED state
  <2>1. cur' = cur /\ vars' = vars /\ made \subseteq made'
    BY <1>5 DEF LoseAnswer, Accept, LoseRequest, Fault, Resume, Restart, state
  <2>2. Binders(n)' = Binders(n)
    BY <1>1, <2>1 DEF Binders
  <2> QED BY <1>1, <1>2, <2>1, <2>2
<1> QED BY <1>3, <1>4, <1>5 DEF Next

\* In flows whose variables come from the task or an earlier step, every RPC
\* refers to what was given or to the object made for it.
THEOREM ReferencesAlwaysResolve ==
    ASSUME \A j \in Jobs : WellFormed(j)
    PROVE  Spec => []ReferencesResolve
<1>1. Init => VarsSound
  <2> SUFFICES ASSUME Init, NEW n \in Name
               PROVE  Binders(n) = {} /\ vars[n] = job.given[n]
    BY DEF VarsSound
  <2>1. Progress /\ TypeOK /\ Carried = {}
    BY InitProgress, InitTypes DEF Init, Carried
  <2> QED BY <2>1 DEF Binders, Progress, Init
<1>2. IInv /\ VarsSound => ReferencesResolve
  <2> SUFFICES ASSUME IInv, VarsSound, rpc = "sent", NEW n \in Step.uses
               PROVE  IF Binders(n) = {} THEN vars[n] = job.given[n] /\ vars[n] > 0
                      ELSE [as |-> n, number |-> vars[n]] \in made
    BY DEF ReferencesResolve
  <2>1. cur \in ActiveSteps /\ n \in Name /\ job \in Jobs
    BY StepIsActive DEF IInv, TypeOK
  <2>2. ActiveSteps = Active(job, Features(job))
    BY DEF ActiveSteps, IInv, FeaturesFixed
  <2>3. \/ job.given[n] > 0
        \/ \E k \in ActiveSteps : /\ k < cur
                                  /\ job.steps[k].kind = "add_object"
                                  /\ job.steps[k].as = n
    BY <2>1, <2>2 DEF WellFormed, Step
  <2>4. Binders(n) # {} \/ job.given[n] > 0
    BY <2>3 DEF Binders
  <2>5. IF Binders(n) = {} THEN vars[n] = job.given[n]
        ELSE [as |-> n, number |-> vars[n]] \in made
    BY <2>1 DEF VarsSound
  <2> QED BY <2>4, <2>5
<1>3. IInv /\ VarsSound /\ [Next]_state => VarsSound'
  BY NextVars
<1> QED BY <1>1, <1>2, <1>3, Invariance, PTL DEF Spec

(***************************************************************************)
(* Refinement.                                                             *)
(***************************************************************************)

\* A step that the CPE carries out is the next of the flow or the last again.
LEMMA AcceptIsCarry ==
    ASSUME IInv, Accept, ActiveSteps' = ActiveSteps,
           \/ rpc' \in {"sent", "lost"}
           \/ rpc' = "done" /\ ActiveSteps \subseteq Carried'
    PROVE  Promise!Next
<1>1. /\ rpc = "sent" /\ cur \in ActiveSteps /\ cur \in Nat
      /\ accepted' = Append(accepted, cur)
      /\ Carried' = Carried \cup {cur}
  BY StepIsActive, AcceptCarries DEF Accept, IInv
<1>2. Promise!IsNext(cur) \/ Promise!IsLast(cur)
  <2>1. CASE cur \in Carried
    BY <2>1 DEF IInv, Progress, Promise!IsLast
  <2>2. CASE cur \notin Carried
    <3>1. ASSUME NEW k \in ActiveSteps \ Carried
          PROVE  cur <= k
      <4>1. k \in Nat
        BY ActiveAreSteps, JobAssumption DEF IInv, TypeOK
      <4> QED BY <1>1, <4>1 DEF IInv, Progress
    <3> QED BY <1>1, <2>2, <3>1 DEF Promise!IsNext
  <2> QED BY <2>1, <2>2
<1>3. cur \in (ActiveSteps \ Carried) \cup {accepted[k] : k \in DOMAIN accepted}
  BY <1>1 DEF Carried
<1>4. (ActiveSteps \ Carried)' = (ActiveSteps \ Carried) \ {cur}
  BY <1>1
<1>5. CASE rpc' \in {"sent", "lost"}
  BY <1>1, <1>2, <1>4, <1>3, <1>5 DEF Promise!Carry, Promise!Next
<1>6. CASE rpc' = "done" /\ ActiveSteps \subseteq Carried'
  <2>1. (ActiveSteps \ Carried)' = {}
    BY <1>6
  <2> QED BY <1>1, <1>2, <1>4, <1>3, <1>6, <2>1 DEF Promise!Carry, Promise!Next
<1> QED BY <1>5, <1>6

LEMMA InitRefines == Init => Promise!Init
<1> SUFFICES ASSUME Init
             PROVE  Promise!Init
  OBVIOUS
<1>1. Carried = {} /\ accepted = <<>>
  BY DEF Init, Carried
<1>2. ActiveSteps \in {Active(j, Features(j)) : j \in Jobs}
  BY DEF Init, ActiveSteps
<1>3. rpc = "sent" <=> ActiveSteps # {}
  <2>1. CASE cur \in ActiveSteps
    BY <2>1 DEF Init
  <2>2. CASE cur \notin ActiveSteps
    <3>1. ASSUME NEW k \in ActiveSteps
          PROVE  FALSE
      <4>1. job \in Jobs /\ cur \in Skipped(1) /\ k \in 1 .. Len(job.steps)
            /\ Len(job.steps) \in Nat
        BY ActiveAreSteps, JobAssumption DEF Init
      <4>2. cur <= k /\ cur \in Nat
        BY <4>1, SkippedStops
      <4> QED BY <2>2, <4>1, <4>2, SkippedStops
    <3> QED BY <2>2, <3>1 DEF Init
  <2> QED BY <2>1, <2>2
<1> QED BY <1>1, <1>2, <1>3 DEF Init, Promise!Init

LEMMA NextRefines == IInv /\ IInv' /\ [Next]_state => [Promise!Next]_Promise!flow
<1> SUFFICES ASSUME IInv, IInv', [Next]_state
             PROVE  [Promise!Next]_Promise!flow
  OBVIOUS
<1>1. ActiveSteps' = ActiveSteps
  BY DEF Next, state, AddObjectResponse, SetParamValuesResponse, DeleteObjectResponse,
         Fault, LoseAnswer, LoseRequest, Resume, Restart, ActiveSteps
<1>2. CASE AddObjectResponse \/ SetParamValuesResponse \/ DeleteObjectResponse
  <2>1. rpc = "sent" /\ Accept /\ Advance
    BY <1>2 DEF AddObjectResponse, SetParamValuesResponse, DeleteObjectResponse
  <2>2. CASE rpc' = "sent"
    BY <1>1, <2>1, <2>2, AcceptIsCarry
  <2>3. CASE rpc' # "sent"
    <3>1. rpc' = "done"
      BY <2>1, <2>3 DEF Advance
    <3>2. cur' = Len(job'.steps) + 1 /\ job' \in Jobs /\ Len(job'.steps) \in Nat
      BY <3>1, JobAssumption DEF IInv, DoneIsAtTheEnd, TypeOK
    <3>3. \A k \in ActiveSteps' : k < cur'
      BY <3>2, JobAssumption DEF ActiveSteps, Active
    <3>4. ActiveSteps \subseteq Carried'
      BY <1>1, <3>3 DEF IInv, Progress
    <3> QED BY <1>1, <2>1, <3>1, <3>4, AcceptIsCarry
  <2> QED BY <2>2, <2>3
<1>3. CASE LoseAnswer
  BY <1>1, <1>3, AcceptIsCarry DEF LoseAnswer
<1>4. CASE Fault \/ Restart
  <2>1. accepted' = accepted /\ rpc \in {"sent", "lost"} /\ rpc' \in {"failed", "gone"}
    BY <1>4 DEF Fault, Restart
  <2> QED BY <1>1, <2>1 DEF Promise!Next, Promise!Stop, Carried
<1>5. CASE LoseRequest \/ Resume \/ UNCHANGED state
  <2>1. /\ accepted' = accepted
        /\ \/ rpc \in {"sent", "lost"} /\ rpc' \in {"sent", "lost"}
           \/ rpc' = rpc
    BY <1>5 DEF LoseRequest, Resume, state
  <2> QED BY <1>1, <2>1 DEF Promise!flow, Carried
<1> QED BY <1>2, <1>3, <1>4, <1>5 DEF Next

\* The executor, with the CPE, implements ProvisionFlow.
THEOREM ExecutorImplementsFlow == Spec => ImplementsProvisionFlow
BY Invariance, InitRefines, NextRefines, PTL
   DEF Spec, ImplementsProvisionFlow, Promise!Spec
=============================================================================
