------------------------- MODULE DeviceStoreProofs -------------------------
(***************************************************************************)
(* Proofs about DeviceStore, for any names, any number of handlers and     *)
(* goroutines, changes, deletions and faults.                              *)
(***************************************************************************)
EXTENDS DeviceStore, FiniteSetTheorems, WellFoundedInduction, TLAPS

(***************************************************************************)
(* Least and greatest numbers.                                             *)
(***************************************************************************)

Smaller == {pair \in Nat \X Nat : pair[1] < pair[2]}

LEMMA SmallerIsLess == OpToRel(<, Nat) = Smaller
BY Zenon DEF OpToRel, Smaller

LEMMA SmallerIsWellFounded == IsWellFoundedOn(Smaller, Nat)
BY SmallerIsLess, NatLessThanWellFounded, Zenon

LEMMA SmallerIntro ==
    ASSUME NEW x \in Nat, NEW y \in Nat, y < x
    PROVE  <<y, x>> \in Smaller
BY DEF Smaller

\* A set of natural numbers has a least element.
LEMMA LeastNatural ==
    ASSUME NEW T \in SUBSET Nat, T # {}
    PROVE  \E x \in T : \A y \in T : x <= y
<1>1. PICK x \in T : \A y \in T : <<y, x>> \notin Smaller
  BY SmallerIsWellFounded, WFMin, Zenon
<1>2. ASSUME NEW y \in T
      PROVE  x <= y
  <2>1. x \in Nat /\ y \in Nat
    OBVIOUS
  <2>2. ~ (y < x)
    BY <1>1, <2>1, SmallerIntro, Zenon
  <2> QED BY <2>1, <2>2
<1> QED BY <1>2, Zenon

\* A bounded set of natural numbers has a greatest element.
LEMMA GreatestNatural ==
    ASSUME NEW T \in SUBSET Nat, T # {}, NEW m \in Nat, \A y \in T : y <= m
    PROVE  \E x \in T : \A y \in T : x >= y
<1> DEFINE U == {n \in Nat : m - n \in T}
<1>1. \A y \in T : m - y \in U
  <2> SUFFICES ASSUME NEW y \in T PROVE m - y \in Nat /\ m - (m - y) \in T
    BY Zenon DEF U
  <2>1. y \in Nat /\ m - y \in Nat /\ m - (m - y) = y
    OBVIOUS
  <2> QED BY <2>1
<1>2. PICK n \in U : \A k \in U : n <= k
  <2>1. U \in SUBSET Nat /\ U # {}
    BY <1>1
  <2> HIDE DEF U
  <2> QED BY <2>1, LeastNatural
<1>3. m - n \in T /\ n \in Nat
  BY <1>2
<1>4. ASSUME NEW y \in T
      PROVE  m - n >= y
  <2>1. y \in Nat /\ m - y \in Nat
    OBVIOUS
  <2>2. n <= m - y
    BY <1>1, <1>2
  <2> QED BY <2>1, <2>2, <1>3
<1> QED BY <1>3, <1>4

(***************************************************************************)
(* Maps of parameters.                                                     *)
(***************************************************************************)

LEMMA EmptyIsParams == Empty \in Params
BY DEF Empty, Params

LEMMA OverlayIsParams ==
    ASSUME NEW old \in Params, NEW new \in Params
    PROVE  Overlay(old, new) \in Params
BY DEF Overlay, Params

\* The overlay has the names of both maps.
LEMMA OverlayNames ==
    ASSUME NEW old, NEW new
    PROVE  Names(Overlay(old, new)) = Names(old) \cup Names(new)
BY DEF Overlay, Names

LEMMA MergedIsParams ==
    ASSUME NEW seen \in Params, NEW sent \in Params
    PROVE  Merged(seen, sent) \in Params
BY OverlayIsParams DEF Merged

LEMMA ReportedIsParams ==
    ASSUME cpe \in Version, NEW keys
    PROVE  Reported(keys) \in Params
BY DEF Reported, Params

LEMMA ReportedNames ==
    ASSUME cpe \in Version, NEW keys
    PROVE  Names(Reported(keys)) = Key \cap keys
BY DEF Reported, Names, Version

\* The youngest value of a map has a version.
LEMMA WansOfType ==
    ASSUME NEW params \in Params
    PROVE  WansOf(params) \in Version \cup {0}
<1> DEFINE T == {params[k] : k \in Key \ InformKeys} \cup {0}
<1>1. T \subseteq Version \cup {0} /\ 0 \in T
  BY DEF Params
<1>2. /\ T \in SUBSET Nat
      /\ MaxChanges + 1 \in Nat
      /\ \A y \in T : y <= MaxChanges + 1
  BY <1>1, BoundsAssumption DEF Version
<1> HIDE DEF T
<1>3. \E x \in T : \A y \in T : x >= y
  BY <1>1, <1>2, GreatestNatural
<1>4. Max(T) \in T
  BY <1>3 DEF Max
<1>5. WansOf(params) = Max(T)
  BY DEF WansOf, T
<1> QED BY <1>1, <1>4, <1>5

Handlers == [at : Points, sent : Params, seen : Params]
Goroutines == [at : {"record", "select", "backfill", "delete"}, params : Params]

LEMMA IdleIsHandler == Idle \in Handlers
BY EmptyIsParams DEF Idle, Handlers, Points

LEMMA StoredIsParams ==
    ASSUME TypeOK
    PROVE  Stored \in Params
BY EmptyIsParams DEF TypeOK, Documents, Stored

(***************************************************************************)
(* Type correctness.                                                       *)
(***************************************************************************)

\* An Inform or a command of a session.
LEMMA SessionTypeOK ==
    ASSUME TypeOK, NEW s \in Session, Inform(s) \/ Step(s) \/ CommandFails(s)
    PROVE  TypeOK'
<1> USE DEF Handlers, Goroutines
<1>0. /\ op[s] \in Handlers /\ Idle \in Handlers /\ Empty \in Params
      /\ op \in [Session -> Handlers]
      /\ doc \in Documents \cup {Null} /\ pg \in Params /\ cpe \in Version
      /\ Reported(Key) \in Params /\ Reported(InformKeys) \in Params
      /\ Stored \in Params /\ faults \in 0..MaxFaults /\ MaxFaults \in Nat
  BY EmptyIsParams, IdleIsHandler, StoredIsParams, ReportedIsParams, BoundsAssumption DEF TypeOK
<1>1. CASE Inform(s)
  <2>1. op' \in [Session -> Handlers]
    BY <1>0, <1>1 DEF Inform, Points
  <2>2. faults' \in 0..MaxFaults
    BY <1>0, <1>1 DEF Inform
  <2> QED BY <1>1, <2>1, <2>2 DEF Inform, TypeOK
<1>2. CASE Find(s)
  BY <1>0, <1>2 DEF Find, TypeOK, Points
<1>3. CASE Upsert(s)
  <2>1. Merged(op[s].seen, op[s].sent) \in Params
    BY <1>0, MergedIsParams
  <2>2. doc' \in Documents
    BY <1>0, <1>3, <2>1 DEF Upsert, Documents
  <2>3. jobs' \subseteq Goroutines
    BY <1>0, <1>3 DEF Upsert, TypeOK
  <2>4. op' \in [Session -> Handlers]
    BY <1>0, <1>3 DEF Upsert, Points
  <2> QED BY <1>3, <2>2, <2>3, <2>4 DEF Upsert, TypeOK
<1>4. CASE Decide(s)
  <2>1. op' \in [Session -> Handlers]
    BY <1>0, <1>4 DEF Decide, Return, Points
  <2> QED BY <1>4, <2>1 DEF Decide, TypeOK
<1>5. CASE Replace(s)
  BY <1>0, <1>5 DEF Replace, Set, Continue, Documents, TypeOK, Points
<1>6. CASE Read(s)
  BY <1>0, <1>6 DEF Read, TypeOK, Points
<1>7. CASE Merge(s)
  <2>1. Overlay(op[s].seen, op[s].sent) \in Params
    BY <1>0, OverlayIsParams
  <2> QED BY <1>0, <1>7, <2>1 DEF Merge, Set, Documents, TypeOK, Points
<1>8. CASE Rows(s)
  <2>1. Overlay(pg, op[s].sent) \in Params
    BY <1>0, OverlayIsParams
  <2> QED BY <1>0, <1>8, <2>1 DEF Rows, Continue, TypeOK, Points
<1>9. CASE Info(s)
  <2>1. WansOf(op[s].sent) \in Version \cup {0}
    BY <1>0, WansOfType
  <2> QED BY <1>0, <1>9, <2>1 DEF Info, SetWans, Return, Documents, TypeOK
<1>10. CASE CommandFails(s)
  <2>1. op' \in [Session -> Handlers]
    BY <1>0, <1>10 DEF CommandFails, Return, Continue, Points
  <2> QED BY <1>0, <1>10, <2>1 DEF CommandFails, TypeOK
<1> QED BY <1>1, <1>2, <1>3, <1>4, <1>5, <1>6, <1>7, <1>8, <1>9, <1>10 DEF Step

\* A goroutine goes on or fails.
LEMMA GoroutineTypeOK ==
    ASSUME TypeOK, NEW j \in jobs,
           Record(j) \/ Select(j) \/ Backfill(j) \/ DeleteRows(j) \/ JobFails(j)
    PROVE  TypeOK'
<1> USE DEF Goroutines
<1>0. /\ j \in Goroutines /\ pg \in Params /\ Empty \in Params
      /\ jobs \subseteq Goroutines /\ MaxFaults \in Nat
  BY EmptyIsParams, BoundsAssumption DEF TypeOK
<1>1. CASE Record(j)
  <2>1. Overlay(pg, j.params) \in Params
    BY <1>0, OverlayIsParams
  <2> QED BY <1>0, <1>1, <2>1 DEF Record, TypeOK
<1>2. CASE Select(j)
  BY <1>0, <1>2 DEF Select, TypeOK
<1>3. CASE Backfill(j)
  <2>1. WansOf(j.params) \in Version \cup {0}
    BY <1>0, WansOfType
  <2> QED BY <1>0, <1>3, <2>1 DEF Backfill, SetWans, Documents, TypeOK
<1>4. CASE DeleteRows(j)
  BY <1>0, <1>4 DEF DeleteRows, TypeOK
<1>5. CASE JobFails(j)
  BY <1>0, <1>5 DEF JobFails, TypeOK
<1> QED BY <1>1, <1>2, <1>3, <1>4, <1>5

LEMMA InitTypeOK == Init => TypeOK
<1> SUFFICES ASSUME Init PROVE TypeOK
  OBVIOUS
<1>1. /\ Empty \in Params /\ Idle \in Handlers
      /\ {MaxChanges, MaxFaults, MaxDeletes} \subseteq Nat
  BY EmptyIsParams, IdleIsHandler, BoundsAssumption
<1>2. cpe \in Version /\ deletes \in 0..MaxDeletes /\ faults \in 0..MaxFaults
  BY <1>1 DEF Init, Version
<1> QED BY <1>1, <1>2 DEF Init, TypeOK, Handlers

LEMMA NextTypeOK == TypeOK /\ [Next]_vars => TypeOK'
<1> SUFFICES ASSUME TypeOK, [Next]_vars PROVE TypeOK'
  OBVIOUS
<1>0. /\ Empty \in Params /\ MaxFaults \in Nat /\ MaxDeletes \in Nat /\ MaxChanges \in Nat
  BY EmptyIsParams, BoundsAssumption
<1>1. ASSUME NEW s \in Session, Inform(s) \/ Step(s) \/ CommandFails(s)
      PROVE  TypeOK'
  BY <1>1, SessionTypeOK
<1>2. ASSUME NEW j \in jobs,
             Record(j) \/ Select(j) \/ Backfill(j) \/ DeleteRows(j) \/ JobFails(j)
      PROVE  TypeOK'
  BY <1>2, GoroutineTypeOK
<1>3. CASE TwoMinutes
  BY <1>3 DEF TwoMinutes, TypeOK
<1>4. CASE Delete
  BY <1>0, <1>4 DEF Delete, TypeOK
<1>5. CASE Change
  BY <1>0, <1>5 DEF Change, TypeOK, Version
<1>6. CASE Restart
  <2>1. op' \in [Session -> Handlers]
    BY <1>6, IdleIsHandler DEF Restart
  <2>2. faults' \in 0..MaxFaults
    BY <1>0, <1>6 DEF Restart, TypeOK
  <2> QED BY <1>6, <2>1, <2>2 DEF Restart, TypeOK, Handlers
<1>7. CASE UNCHANGED vars
  BY <1>7 DEF vars, TypeOK
<1> QED BY <1>1, <1>2, <1>3, <1>4, <1>5, <1>6, <1>7 DEF Next, Work

\* However handlers, goroutines, deletions and restarts interleave, the state
\* keeps its types: in particular the WANs of a document always come from a
\* version the device has had (repository.go, session.go).
THEOREM TypeCorrect == Spec => []TypeOK
<1> QED BY InitTypeOK, NextTypeOK, PTL DEF Spec

(***************************************************************************)
(* Summoned parameters stay.                                               *)
(***************************************************************************)

\* A handler holds the names of an Inform until it has stored it, and all names
\* once it has summoned them.
HeldNames ==
    \A s \in Session :
        /\ op[s].at \in {"find", "upsert"} => Names(op[s].sent) = InformKeys
        /\ op[s].at \in {"replace", "read", "merge"} => Names(op[s].sent) = Key

\* A stored document has at least the names of an Inform.
StoredNames == doc # Null => InformKeys \subseteq Names(doc.params)

\* Upsert keeps the names of what it read, if that has the names of an Inform:
\* the map with more names wins, and it is not larger only when it is no larger.
LEMMA MergedNames ==
    ASSUME NEW seen, NEW sent, Names(sent) = InformKeys,
           InformKeys \subseteq Names(seen) \/ Names(seen) = {}
    PROVE  Names(Merged(seen, sent)) = Names(seen) \cup InformKeys
<1>1. CASE Cardinality(Names(seen)) > Cardinality(Names(sent))
  BY <1>1, OverlayNames DEF Merged
<1>2. CASE ~(Cardinality(Names(seen)) > Cardinality(Names(sent)))
  <2>1. Merged(seen, sent) = sent
    BY <1>2 DEF Merged
  <2>2. IsFiniteSet(Names(seen)) /\ IsFiniteSet(InformKeys)
    BY KeysAssumption, FS_Subset DEF Names
  <2>3. Names(seen) \subseteq InformKeys
    <3> SUFFICES ASSUME InformKeys \subseteq Names(seen), InformKeys # Names(seen) PROVE FALSE
      OBVIOUS
    <3>1. Cardinality(InformKeys) < Cardinality(Names(seen))
      BY <2>2, FS_Subset, FS_CardinalityType
    <3> QED BY <1>2, <3>1, <2>2, FS_CardinalityType
  <2> QED BY <2>1, <2>3
<1> QED BY <1>1, <1>2

\* What the handler of an Upsert has read has the names of an Inform, or it read
\* no document, or the read failed.
SeenNames ==
    \A s \in Session : op[s].at \in {"find", "upsert"} =>
        InformKeys \subseteq Names(op[s].seen) \/ Names(op[s].seen) = {}

IInv == TypeOK /\ HeldNames /\ StoredNames /\ SeenNames

LEMMA EmptyNames == Names(Empty) = {}
BY DEF Names, Empty

\* A command leaves these facts about the other handlers alone.
LEMMA SessionInv ==
    ASSUME IInv, NEW s \in Session, Inform(s) \/ Step(s) \/ CommandFails(s)
    PROVE  HeldNames' /\ SeenNames'
<1>0. op \in [Session -> Handlers] /\ op[s] \in Handlers
  BY DEF IInv, TypeOK, Handlers
<1>1. Idle.at = "idle" /\ Idle.seen = Empty /\ Idle \in Handlers
  BY IdleIsHandler DEF Idle
<1>2. /\ Names(Reported(Key)) = Key
      /\ Names(Reported(InformKeys)) = InformKeys
      /\ Names(Empty) = {}
  <2>1. cpe \in Version
    BY DEF IInv, TypeOK
  <2>2. Names(Reported(Key)) = Key \cap Key /\ Names(Reported(InformKeys)) = Key \cap InformKeys
    BY <2>1, ReportedNames
  <2> QED BY <2>2, EmptyNames, KeysAssumption
<1>3. InformKeys \subseteq Names(Stored) \/ Names(Stored) = {}
  BY <1>2 DEF IInv, StoredNames, Stored
<1>4. \A t \in Session : t # s => op'[t] = op[t]
  BY <1>0 DEF Inform, Step, Find, Upsert, Decide, Replace, Read, Merge, Rows, Info,
              CommandFails, Continue, Return
<1> DEFINE Facts(p) ==
      /\ p.at \in {"find", "upsert"} => Names(p.sent) = InformKeys
      /\ p.at \in {"replace", "read", "merge"} => Names(p.sent) = Key
      /\ p.at \in {"find", "upsert"} =>
            InformKeys \subseteq Names(p.seen) \/ Names(p.seen) = {}
<1>5. Facts(op[s])
  BY DEF IInv, HeldNames, SeenNames
<1>6. SUFFICES Facts(op'[s])
  BY <1>4 DEF IInv, HeldNames, SeenNames
<1>7. CASE Inform(s)
  BY <1>0, <1>1, <1>2, <1>7 DEF Inform, Handlers
<1>8. CASE Find(s)
  BY <1>0, <1>3, <1>5, <1>8 DEF Find, Handlers
<1>9. CASE Upsert(s)
  BY <1>0, <1>1, <1>9 DEF Upsert, Handlers
<1>10. CASE Decide(s)
  <2>1. CASE op'[s] = Idle
    BY <1>1, <2>1
  <2>2. CASE op' = [op EXCEPT ![s].at = "replace", ![s].sent = Reported(Key)]
    BY <1>0, <1>2, <2>2 DEF Handlers
  <2>3. CASE op' = [op EXCEPT ![s].at = "read", ![s].sent = Reported(Key)]
    BY <1>0, <1>2, <2>3 DEF Handlers
  <2> QED BY <1>0, <1>10, <2>1, <2>2, <2>3 DEF Decide, Return
<1>11. CASE Read(s)
  BY <1>0, <1>5, <1>11 DEF Read, Handlers
<1>12. CASE Replace(s) \/ Merge(s) \/ Rows(s)
  BY <1>0, <1>12 DEF Replace, Merge, Rows, Continue, Handlers
<1>13. CASE Info(s)
  BY <1>0, <1>1, <1>13 DEF Info, Return, Handlers
<1>14. CASE CommandFails(s)
  <2>1. CASE Return(s)
    BY <1>0, <1>1, <2>1 DEF Return
  <2>2. CASE op[s].at = "find" /\ Continue(s, "upsert")
    BY <1>0, <1>5, <2>2 DEF Continue, Handlers
  <2>3. CASE op[s].at = "read" /\ Continue(s, "merge")
    BY <1>0, <1>5, <2>3 DEF Continue, Handlers
  <2>4. CASE op' = [op EXCEPT ![s].at = "rows", ![s].seen = Empty]
    BY <1>0, <2>4 DEF Handlers
  <2>5. CASE Continue(s, "info")
    BY <1>0, <2>5 DEF Continue, Handlers
  <2> QED BY <1>14, <2>1, <2>2, <2>3, <2>4, <2>5 DEF CommandFails
<1> QED BY <1>7, <1>8, <1>9, <1>10, <1>11, <1>12, <1>13, <1>14 DEF Step

\* Every write of the document writes the names of an Inform.
LEMMA SessionStoresNames ==
    ASSUME IInv, NEW s \in Session, Inform(s) \/ Step(s) \/ CommandFails(s)
    PROVE  StoredNames'
<1>0. op[s] \in Handlers /\ doc \in Documents \cup {Null}
  BY DEF IInv, TypeOK, Handlers
<1>1. CASE Upsert(s)
  <2>1. Names(Merged(op[s].seen, op[s].sent)) = Names(op[s].seen) \cup InformKeys
    BY <1>1, MergedNames DEF Upsert, IInv, HeldNames, SeenNames
  <2> QED BY <1>1, <2>1 DEF Upsert, StoredNames
<1>2. CASE Replace(s)
  <2>1. Names(op[s].sent) = Key
    BY <1>2 DEF Replace, IInv, HeldNames
  <2>2. doc # Null => doc'.params = op[s].sent
    BY <1>0, <1>2 DEF Replace, Set, Documents
  <2>3. doc = Null => doc' = Null
    BY <1>2 DEF Replace, Set
  <2> QED BY <2>1, <2>2, <2>3, KeysAssumption DEF StoredNames
<1>3. CASE Merge(s)
  <2>1. InformKeys \subseteq Names(Overlay(op[s].seen, op[s].sent))
    BY <1>3, OverlayNames, KeysAssumption DEF Merge, IInv, HeldNames
  <2>2. doc # Null => doc'.params = Overlay(op[s].seen, op[s].sent)
    BY <1>0, <1>3 DEF Merge, Set, Documents
  <2>3. doc = Null => doc' = Null
    BY <1>3 DEF Merge, Set
  <2> QED BY <2>1, <2>2, <2>3 DEF StoredNames
<1>4. CASE Info(s)
  <2>1. doc # Null => doc'.params = doc.params
    BY <1>0, <1>4 DEF Info, SetWans, Documents
  <2>2. doc = Null => doc' = Null
    BY <1>4 DEF Info, SetWans
  <2> QED BY <2>1, <2>2 DEF IInv, StoredNames
<1>5. CASE doc' = doc
  BY <1>5 DEF IInv, StoredNames
<1> QED BY <1>1, <1>2, <1>3, <1>4, <1>5
    DEF Step, Inform, Find, Decide, Read, Rows, CommandFails

LEMMA NextInv == IInv /\ [Next]_vars => IInv'
<1> SUFFICES ASSUME IInv, [Next]_vars PROVE IInv'
  OBVIOUS
<1>0. TypeOK'
  BY NextTypeOK DEF IInv
<1>1. ASSUME NEW s \in Session, Inform(s) \/ Step(s) \/ CommandFails(s)
      PROVE  IInv'
  BY <1>0, <1>1, SessionInv, SessionStoresNames DEF IInv
<1>2. ASSUME NEW j \in jobs, Backfill(j)
      PROVE  IInv'
  <2>1. doc # Null => doc'.params = doc.params
    BY <1>2 DEF Backfill, SetWans, IInv, TypeOK, Documents
  <2>2. doc = Null => doc' = Null
    BY <1>2 DEF Backfill, SetWans
  <2>3. op' = op
    BY <1>2 DEF Backfill
  <2> QED BY <1>0, <2>1, <2>2, <2>3 DEF IInv, HeldNames, StoredNames, SeenNames
<1>3. CASE UNCHANGED <<doc, op>> \/ (doc' = Null /\ UNCHANGED op)
  BY <1>0, <1>3 DEF IInv, HeldNames, StoredNames, SeenNames
<1>4. CASE Restart
  <2>1. Idle.at = "idle"
    BY DEF Idle
  <2> QED BY <1>0, <1>4, <2>1 DEF Restart, IInv, HeldNames, StoredNames, SeenNames
<1> QED BY <1>1, <1>2, <1>3, <1>4
    DEF Next, Work, Record, Select, DeleteRows, JobFails, TwoMinutes, Delete, Change, vars

\* With the invariant, a step that drops names is an Upsert over parameters that
\* its handler had not read.
LEMMA NamesDropOnlyInARace ==
    ASSUME IInv, [Next]_vars, doc # Null, doc' # Null,
           ~(Names(doc.params) \subseteq Names(doc'.params))
    PROVE  Racing
<1>0. doc \in Documents
  BY DEF IInv, TypeOK
<1>1. ASSUME NEW s \in Session, Upsert(s), op[s].seen = Stored
      PROVE  FALSE
  <2>1. Names(Merged(op[s].seen, op[s].sent)) = Names(op[s].seen) \cup InformKeys
    BY <1>1, MergedNames DEF Upsert, IInv, HeldNames, SeenNames
  <2>2. doc'.params = Merged(op[s].seen, op[s].sent)
    BY <1>1 DEF Upsert
  <2> QED BY <1>1, <2>1, <2>2 DEF Stored
<1>2. ASSUME NEW s \in Session, Replace(s) \/ Merge(s)
      PROVE  FALSE
  <2>1. Names(op[s].sent) = Key
    BY <1>2 DEF Replace, Merge, IInv, HeldNames
  <2>2. Key \subseteq Names(doc'.params)
    <3>1. CASE Replace(s)
      BY <1>0, <2>1, <3>1 DEF Replace, Set, Documents
    <3>2. CASE Merge(s)
      <4>1. doc'.params = Overlay(op[s].seen, op[s].sent)
        BY <1>0, <3>2 DEF Merge, Set, Documents
      <4> QED BY <2>1, <4>1, OverlayNames
    <3> QED BY <1>2, <3>1, <3>2
  <2> QED BY <2>2 DEF Names
<1>3. ASSUME doc'.params = doc.params
      PROVE  FALSE
  BY <1>3
<1>4. ASSUME NEW s \in Session, Info(s)
      PROVE  doc'.params = doc.params
  BY <1>0, <1>4 DEF Info, SetWans, Documents
<1>5. ASSUME NEW j \in jobs, Backfill(j)
      PROVE  doc'.params = doc.params
  BY <1>0, <1>5 DEF Backfill, SetWans, Documents
<1>6. \E s \in Session : Upsert(s)
  BY <1>2, <1>3, <1>4, <1>5
  DEF Next, Step, Work, Inform, Find, Decide, Read, Rows, CommandFails, Record, Select,
      DeleteRows, JobFails, TwoMinutes, Delete, Change, Restart, vars
<1> QED BY <1>1, <1>6 DEF Racing, Upsert

\* A parameter that a summon has brought into the document disappears from it
\* only by the write of a handler that had read other parameters than it
\* overwrites (Upsert and MergeParameters of repository.go, from any number of
\* sessions of the device): alone, the choice Upsert makes by the sizes of the
\* two maps loses nothing, since an Inform always carries the same names.
THEOREM SummonedParametersStayHolds == Spec => SummonedParametersStay
<1>1. Init => IInv
  BY InitTypeOK DEF Init, IInv, HeldNames, StoredNames, SeenNames, Idle
<1>2. IInv /\ [Next]_vars =>
        [doc # Null /\ doc' # Null /\ ~(Names(doc.params) \subseteq Names(doc'.params))
           => Racing]_vars
  BY NamesDropOnlyInARace
<1> QED BY <1>1, <1>2, NextInv, PTL DEF Spec, SummonedParametersStay
=============================================================================
