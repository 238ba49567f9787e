------------------------ MODULE ParameterStoreProofs ------------------------
(***************************************************************************)
(* Proofs about ParameterStore, for any names, any number of goroutines,   *)
(* writes and faults.                                                      *)
(***************************************************************************)
EXTENDS ParameterStore, TLAPS

(***************************************************************************)
(* Type correctness.                                                       *)
(***************************************************************************)

\* The goroutines' part of TypeOK.
OpOK ==
    /\ op \in [Proc -> [job : AllJobs, at : Command, params : Params \cup {Null}]]
    /\ \A p \in Proc : op[p].params = Null <=> op[p].at \in {"idle", "lookup", "select"}

\* A command that carries parameters has them at hand.
LEMMA ParamsAtHand ==
    ASSUME TypeOK, NEW p \in Proc
    PROVE  /\ op[p].job \in AllJobs
           /\ op[p].at \in Command
           /\ op[p].params \in Params \cup {Null}
           /\ op[p].at \in {"rows", "clear", "upsert", "invalidate", "fill", "snapshot"}
                => op[p].params \in Params
BY DEF TypeOK

LEMMA EmptyIsParams == Empty \in Params
BY DEF Empty, Params

LEMMA MergeIsParams ==
    ASSUME NEW old \in Params, NEW new \in Params
    PROVE  Merge(old, new) \in Params
BY DEF Merge, Params

\* The next command of a goroutine, and the end of its operation.
LEMMA GotoOK ==
    ASSUME TypeOK, NEW p \in Proc, NEW job \in AllJobs, NEW at \in Command,
           NEW params \in Params \cup {Null},
           params = Null <=> at \in {"idle", "lookup", "select"},
           Goto(p, job, at, params)
    PROVE  OpOK'
<1> DEFINE next == [job |-> job, at |-> at, params |-> params]
<1>1. next \in [job : AllJobs, at : Command, params : Params \cup {Null}]
  OBVIOUS
<1>2. op' = [op EXCEPT ![p] = next]
  BY DEF Goto
<1>3. next.params = Null <=> next.at \in {"idle", "lookup", "select"}
  OBVIOUS
<1> HIDE DEF next
<1> QED BY <1>1, <1>2, <1>3 DEF TypeOK, OpOK

LEMMA ContinueOK ==
    ASSUME TypeOK, NEW p \in Proc, NEW at \in Command,
           op[p].params = Null <=> at \in {"idle", "lookup", "select"},
           Continue(p, at)
    PROVE  OpOK'
<1>1. /\ [op[p] EXCEPT !.at = at] \in [job : AllJobs, at : Command, params : Params \cup {Null}]
      /\ [op[p] EXCEPT !.at = at].params = op[p].params
      /\ [op[p] EXCEPT !.at = at].at = at
  BY DEF TypeOK
<1>2. op' = [op EXCEPT ![p] = [op[p] EXCEPT !.at = at]]
  BY DEF Continue, TypeOK
<1> QED BY <1>1, <1>2 DEF TypeOK, OpOK

LEMMA ReturnOK ==
    ASSUME TypeOK, NEW p \in Proc, Return(p)
    PROVE  OpOK'
<1>1. Idle.params = Null /\ Idle.at = "idle"
  BY DEF Idle
<1>2. Idle \in [job : AllJobs, at : Command, params : Params \cup {Null}]
  BY DEF Idle, AllJobs, Command
<1> QED BY <1>1, <1>2 DEF TypeOK, OpOK, Return

LEMMA GotOK ==
    ASSUME TypeOK, NEW p \in Proc, NEW params \in Params, Got(p, params)
    PROVE  OpOK'
<1>1. CASE Return(p)
  BY <1>1, ReturnOK
<1>2. CASE Goto(p, op[p].job, "snapshot", params)
  BY <1>2, GotoOK, ParamsAtHand, NullAssumption DEF Command
<1> QED BY <1>1, <1>2 DEF Got

LEMMA AfterClearOK ==
    ASSUME TypeOK, NEW p \in Proc, op[p].at = "clear", AfterClear(p)
    PROVE  OpOK'
<1>1. CASE Return(p)
  BY <1>1, ReturnOK
<1>2. CASE Continue(p, "upsert")
  BY <1>2, ContinueOK, ParamsAtHand, NullAssumption DEF Command
<1> QED BY <1>1, <1>2 DEF AfterClear

\* Every step keeps the type invariant.
LEMMA TypeStep ==
    ASSUME TypeOK, [Next]_vars
    PROVE  TypeOK'
<1> USE NullAssumption
<1>1. ASSUME NEW p \in Proc, Start(p)
      PROVE  TypeOK'
  <2>1. ASSUME NEW ns \in SUBSET Name, StartUpdate(p, ns) \/ StartPut(p, ns)
        PROVE  TypeOK'
    <3>1. writes' \in Nat
      BY <2>1 DEF StartUpdate, StartPut, TypeOK
    <3>2. [n \in Name |-> IF n \in ns THEN writes' ELSE 0] \in Params
      BY <3>1 DEF Params
    <3>3. OpOK'
      BY <2>1, <3>2, GotoOK DEF StartUpdate, StartPut, AllJobs, Command
    <3> QED BY <2>1, <3>1, <3>3 DEF StartUpdate, StartPut, TypeOK, OpOK
  <2>2. CASE StartDelete(p)
    <3>1. OpOK'
      BY <2>2, EmptyIsParams, GotoOK DEF StartDelete, AllJobs, Command
    <3> QED BY <2>2, <3>1 DEF StartDelete, TypeOK, OpOK
  <2>3. CASE StartGet(p) \/ StartSave(p) \/ StartCapture(p)
    <3>1. OpOK'
      BY <2>3, GotoOK DEF StartGet, StartSave, StartCapture, AllJobs, Command
    <3> QED BY <2>3, <3>1 DEF StartGet, StartSave, StartCapture, TypeOK, OpOK
  <2> QED BY <1>1, <2>1, <2>2, <2>3 DEF Start
<1>2. ASSUME NEW p \in Proc, Step(p)
      PROVE  TypeOK'
  <2>1. CASE Rows(p)
    <3>1. OpOK'
      BY <2>1, ContinueOK, ParamsAtHand DEF Rows, Command
    <3> QED BY <2>1, <3>1, EmptyIsParams DEF Rows, Commit, TypeOK, OpOK
  <2>2. CASE Clear(p)
    <3>1. OpOK'
      BY <2>2, AfterClearOK DEF Clear
    <3> QED BY <2>2, <3>1 DEF Clear, TypeOK, OpOK
  <2>3. CASE Upsert(p)
    <3>1. OpOK'
      BY <2>3, ContinueOK, ParamsAtHand DEF Upsert, Command
    <3>2. Merge(db, op[p].params) \in Params
      BY <2>3, MergeIsParams, ParamsAtHand DEF Upsert, TypeOK
    <3> QED BY <2>3, <3>1, <3>2 DEF Upsert, Commit, TypeOK, OpOK
  <2>4. CASE Invalidate(p)
    <3>1. OpOK'
      BY <2>4, ReturnOK DEF Invalidate
    <3> QED BY <2>4, <3>1 DEF Invalidate, TypeOK, OpOK
  <2>5. CASE LookupHit(p)
    <3>1. OpOK'
      BY <2>5, GotOK DEF LookupHit, TypeOK
    <3> QED BY <2>5, <3>1 DEF LookupHit, TypeOK, OpOK
  <2>6. CASE LookupMiss(p)
    <3>1. op[p].params = Null
      BY <2>6 DEF LookupMiss, TypeOK
    <3>2. OpOK'
      BY <2>6, <3>1, ContinueOK DEF LookupMiss, Command
    <3> QED BY <2>6, <3>2 DEF LookupMiss, TypeOK, OpOK
  <2>7. CASE Select(p)
    <3>1. Goto(p, op[p].job, "fill", db)
      BY <2>7, ParamsAtHand DEF Select, Goto, TypeOK
    <3>2. OpOK'
      BY <3>1, GotoOK, ParamsAtHand DEF TypeOK, Command
    <3> QED BY <2>7, <3>2 DEF Select, TypeOK, OpOK
  <2>8. CASE Fill(p)
    <3>1. op[p].params \in Params
      BY <2>8, ParamsAtHand DEF Fill
    <3>2. OpOK'
      BY <2>8, <3>1, GotOK DEF Fill
    <3> QED BY <2>8, <3>1, <3>2 DEF Fill, TypeOK, OpOK
  <2>9. CASE SaveSnapshot(p)
    <3>1. OpOK' /\ op[p].params \in Params
      BY <2>9, ReturnOK, ParamsAtHand DEF SaveSnapshot
    <3> QED BY <2>9, <3>1 DEF SaveSnapshot, TypeOK, OpOK
  <2> QED BY <1>2, <2>1, <2>2, <2>3, <2>4, <2>5, <2>6, <2>7, <2>8, <2>9 DEF Step
<1>3. ASSUME NEW p \in Proc, DatabaseFails(p)
      PROVE  TypeOK'
  <2>1. OpOK'
    BY <1>3, ReturnOK DEF DatabaseFails
  <2> QED BY <1>3, <2>1 DEF DatabaseFails, TypeOK, OpOK
<1>4. ASSUME NEW p \in Proc, RedisFails(p)
      PROVE  TypeOK'
  <2>1. OpOK' /\ current' \in BOOLEAN
    <3>1. CASE op[p].at = "lookup" /\ Continue(p, "select") /\ UNCHANGED current
      <4>1. op[p].params = Null
        BY <3>1 DEF TypeOK
      <4> QED BY <3>1, <4>1, ContinueOK DEF Command, TypeOK
    <3>2. CASE op[p].at = "fill" /\ Got(p, op[p].params) /\ UNCHANGED current
      BY <3>2, GotOK, ParamsAtHand DEF TypeOK
    <3>3. CASE op[p].at = "clear" /\ AfterClear(p) /\ current' = FALSE
      BY <3>3, AfterClearOK
    <3>4. CASE op[p].at = "invalidate" /\ Return(p) /\ current' = FALSE
      BY <3>4, ReturnOK
    <3> QED BY <1>4, <3>1, <3>2, <3>3, <3>4 DEF RedisFails
  <2> QED BY <1>4, <2>1 DEF RedisFails, TypeOK, OpOK
<1>5. CASE Expire
  BY <1>5 DEF Expire, TypeOK
<1>6. CASE Restart
  BY <1>6 DEF Restart, TypeOK, Idle, AllJobs, Command
<1>7. CASE UNCHANGED vars
  BY <1>7 DEF vars, TypeOK
<1> QED BY <1>1, <1>2, <1>3, <1>4, <1>5, <1>6, <1>7 DEF Next

\* Rows, copies and the parameters at hand are maps from names to values, and
\* the error of a command never leaves a goroutine with a map it did not read.
THEOREM TypeCorrect == Spec => []TypeOK
<1>1. Init => TypeOK
  <2> SUFFICES ASSUME Init PROVE TypeOK
    OBVIOUS
  <2>1. db \in Params
    BY DEF Init, Params
  <2> QED BY <2>1 DEF Init, TypeOK, Idle, AllJobs, Command
<1> QED BY <1>1, TypeStep, PTL DEF Spec

(***************************************************************************)
(* Copies.                                                                 *)
(***************************************************************************)

\* A committed state never leaves committed, and the rows are one.
CopiesInv == CopiesAreOfOneMoment /\ db \in committed

\* What a goroutine returns with, or goes on to save, it had in hand.
LEMMA GotCopy ==
    ASSUME TypeOK, NEW p \in Proc, NEW params \in committed, Got(p, params),
           \A q \in Proc : op[q].at \in Reading /\ q # p => op[q].params \in committed
    PROVE  \A q \in Proc : op'[q].at \in Reading => op'[q].params \in committed
<1>1. CASE Return(p)
  BY <1>1 DEF Return, Idle, Reading, TypeOK
<1>2. CASE Goto(p, op[p].job, "snapshot", params)
  BY <1>2 DEF Goto, TypeOK
<1> QED BY <1>1, <1>2 DEF Got

\* No step mixes two states of the rows: a reader, the cache and the snapshot
\* get whole maps, and the rows change in one command.
LEMMA CopiesStep ==
    ASSUME TypeOK, CopiesInv, [Next]_vars
    PROVE  CopiesInv'
<1> USE DEF CopiesInv, CopiesAreOfOneMoment
<1>1. ASSUME NEW p \in Proc, Start(p)
      PROVE  CopiesInv'
  <2>1. UNCHANGED <<db, cache, snap, committed>>
    BY <1>1 DEF Start, StartUpdate, StartPut, StartDelete, StartGet, StartSave, StartCapture
  <2>2. \A q \in Proc : op'[q].at \in Reading => op'[q] = op[q]
    BY <1>1 DEF Start, StartUpdate, StartPut, StartDelete, StartGet, StartSave,
                StartCapture, Goto, Reading, TypeOK
  <2> QED BY <2>1, <2>2
<1>2. ASSUME NEW p \in Proc, Step(p)
      PROVE  CopiesInv'
  <2>1. CASE Rows(p) \/ Upsert(p)
    <3>1. UNCHANGED <<cache, snap>> /\ db' \in committed' /\ committed \subseteq committed'
      BY <2>1 DEF Rows, Upsert, Commit
    <3>2. \A q \in Proc : op'[q].at \in Reading => op'[q] = op[q]
      BY <2>1 DEF Rows, Upsert, Continue, Reading, TypeOK
    <3> QED BY <3>1, <3>2
  <2>2. CASE Clear(p) \/ Invalidate(p)
    <3>1. cache' = Null /\ UNCHANGED <<db, snap, committed>>
      BY <2>2 DEF Clear, Invalidate
    <3>2. \A q \in Proc : op'[q].at \in Reading => op'[q] = op[q]
      BY <2>2 DEF Clear, Invalidate, AfterClear, Return, Continue, Idle, Reading, TypeOK
    <3> QED BY <3>1, <3>2
  <2>3. CASE LookupHit(p)
    <3>1. cache \in committed /\ UNCHANGED <<db, cache, snap, committed>> /\ Got(p, cache)
      BY <2>3 DEF LookupHit
    <3> QED BY <3>1, GotCopy
  <2>4. CASE LookupMiss(p)
    <3>1. \A q \in Proc : op'[q].at \in Reading => op'[q] = op[q]
      BY <2>4 DEF LookupMiss, Continue, Reading, TypeOK
    <3> QED BY <2>4, <3>1 DEF LookupMiss
  <2>5. CASE Select(p)
    <3>1. \A q \in Proc : op'[q].at \in Reading => op'[q] = op[q] \/ op'[q].params = db
      BY <2>5 DEF Select, Reading, TypeOK
    <3>2. UNCHANGED <<db, cache, snap, committed>>
      BY <2>5 DEF Select
    <3> QED BY <3>1, <3>2
  <2>6. CASE Fill(p)
    <3>1. op[p].params \in committed
      BY <2>6 DEF Fill, Reading
    <3>2. \A q \in Proc : op'[q].at \in Reading => op'[q].params \in committed
      BY <2>6, <3>1, GotCopy DEF Fill
    <3> QED BY <2>6, <3>1, <3>2 DEF Fill
  <2>7. CASE SaveSnapshot(p)
    <3>1. op[p].params \in committed
      BY <2>7 DEF SaveSnapshot, Reading
    <3>2. \A q \in Proc : op'[q].at \in Reading => op'[q] = op[q]
      BY <2>7 DEF SaveSnapshot, Return, Idle, Reading, TypeOK
    <3> QED BY <2>7, <3>1, <3>2 DEF SaveSnapshot
  <2> QED BY <1>2, <2>1, <2>2, <2>3, <2>4, <2>5, <2>6, <2>7 DEF Step
<1>3. ASSUME NEW p \in Proc, DatabaseFails(p)
      PROVE  CopiesInv'
  <2>1. \A q \in Proc : op'[q].at \in Reading => op'[q] = op[q]
    BY <1>3 DEF DatabaseFails, Return, Idle, Reading, TypeOK
  <2> QED BY <1>3, <2>1 DEF DatabaseFails
<1>4. ASSUME NEW p \in Proc, RedisFails(p)
      PROVE  CopiesInv'
  <2>1. UNCHANGED <<db, cache, snap, committed>>
    BY <1>4 DEF RedisFails
  <2>2. CASE op[p].at = "fill" /\ Got(p, op[p].params)
    <3>1. op[p].params \in committed
      BY <2>2 DEF Reading
    <3> QED BY <2>1, <2>2, <3>1, GotCopy
  <2>3. CASE op[p].at # "fill"
    <3>1. \A q \in Proc : op'[q].at \in Reading => op'[q] = op[q]
      BY <1>4, <2>3 DEF RedisFails, AfterClear, Return, Continue, Idle, Reading, TypeOK
    <3> QED BY <2>1, <3>1
  <2> QED BY <1>4, <2>2, <2>3 DEF RedisFails
<1>5. CASE Expire
  BY <1>5 DEF Expire
<1>6. CASE Restart
  BY <1>6 DEF Restart, Idle, Reading
<1>7. CASE UNCHANGED vars
  BY <1>7 DEF vars
<1> QED BY <1>1, <1>2, <1>3, <1>4, <1>5, <1>6, <1>7 DEF Next

\* What readers get, the cache holds and snapshots keep is what the rows were
\* at one moment (GetAllParameters, UpdateParameters, SaveSnapshot).
THEOREM CopiesAreWhole == Spec => []CopiesAreOfOneMoment
<1>1. Init => CopiesInv
  BY DEF Init, CopiesInv, CopiesAreOfOneMoment, Idle, Reading
<1>2. CopiesInv => CopiesAreOfOneMoment
  BY DEF CopiesInv
<1> QED BY <1>1, <1>2, CopiesStep, TypeCorrect, PTL DEF Spec

(***************************************************************************)
(* Staleness.                                                              *)
(***************************************************************************)

Deleting(p) == op[p].at \in {"clear", "invalidate"}

\* A commit is followed by the deletion of the entry, and an entry that is set
\* is current only if it equals the rows.
LEMMA CurrentStep ==
    ASSUME TypeOK, CurrentEntriesAreInvalidated, [Next]_vars
    PROVE  CurrentEntriesAreInvalidated'
<1> USE DEF CurrentEntriesAreInvalidated
\* Steps that keep the rows, the entry and the goroutines that are to delete it.
<1> DEFINE Quiet == /\ UNCHANGED <<db, cache, current>>
                    /\ \A q \in Proc : Deleting(q) => Deleting(q)'
<1>0. Quiet => CurrentEntriesAreInvalidated'
  BY DEF Deleting
<1>1. ASSUME NEW p \in Proc, Start(p)
      PROVE  CurrentEntriesAreInvalidated'
  <2>1. Quiet
    BY <1>1 DEF Start, StartUpdate, StartPut, StartDelete, StartGet, StartSave,
                StartCapture, Goto, Deleting, Idle, TypeOK
  <2> QED BY <2>1, <1>0
<1>2. ASSUME NEW p \in Proc, Step(p)
      PROVE  CurrentEntriesAreInvalidated'
  <2>1. CASE Rows(p) \/ Upsert(p)
    <3>1. Deleting(p)'
      BY <2>1 DEF Rows, Upsert, Continue, Deleting, TypeOK
    <3> QED BY <3>1 DEF Deleting
  <2>2. CASE Clear(p) \/ Invalidate(p)
    BY <2>2 DEF Clear, Invalidate
  <2>3. CASE LookupHit(p) \/ LookupMiss(p) \/ Select(p) \/ SaveSnapshot(p)
    <3>1. Quiet
      BY <2>3 DEF LookupHit, LookupMiss, Select, SaveSnapshot, Got, Goto, Continue,
                  Return, Deleting, TypeOK
    <3> QED BY <3>1, <1>0
  <2>4. CASE Fill(p)
    BY <2>4 DEF Fill
  <2> QED BY <1>2, <2>1, <2>2, <2>3, <2>4 DEF Step
<1>3. ASSUME NEW p \in Proc, DatabaseFails(p)
      PROVE  CurrentEntriesAreInvalidated'
  <2>1. Quiet
    BY <1>3 DEF DatabaseFails, Return, Deleting, TypeOK
  <2> QED BY <2>1, <1>0
<1>4. ASSUME NEW p \in Proc, RedisFails(p)
      PROVE  CurrentEntriesAreInvalidated'
  <2>1. CASE op[p].at \in {"lookup", "fill"} /\ UNCHANGED current
    <3>1. Quiet
      BY <1>4, <2>1 DEF RedisFails, Got, Goto, Continue, Return, Deleting, TypeOK
    <3> QED BY <3>1, <1>0
  <2>2. CASE current' = FALSE
    BY <2>2
  <2> QED BY <1>4, <2>1, <2>2 DEF RedisFails
<1>5. CASE Expire
  BY <1>5 DEF Expire
<1>6. CASE Restart
  BY <1>6 DEF Restart
<1>7. CASE UNCHANGED vars
  BY <1>7 DEF vars
<1> QED BY <1>1, <1>2, <1>3, <1>4, <1>5, <1>6, <1>7 DEF Next

\* A writer's commit leaves no entry behind that was up to date when it was
\* set, but for the time until its deletion, or if the deletion failed
\* (UpdateParameters, DeleteDeviceParameters).
THEOREM StaleEntriesAreDeleted == Spec => []CurrentEntriesAreInvalidated
<1>1. Init => CurrentEntriesAreInvalidated
  BY DEF Init, CurrentEntriesAreInvalidated
<1> QED BY <1>1, CurrentStep, TypeCorrect, PTL DEF Spec
=============================================================================
