--------------------------- MODULE ParameterStore ---------------------------
(***************************************************************************)
(* The parameters of one serial (internal/parameter): rows in PostgreSQL,  *)
(* a copy of all of them in Redis under params:<serial>, filled by readers *)
(* and deleted by writers, and the last_known_good snapshot.  Every client *)
(* is a goroutine that sends one database or Redis command at a time; no   *)
(* operation of the repository spans two of them in a transaction.         *)
(*                                                                         *)
(* A serial is a device's or "__system__", whose rows are the global       *)
(* defaults.  The repository makes no difference between them, and the     *)
(* model lets one serial see the operations of both kinds.                 *)
(***************************************************************************)
EXTENDS Integers, FiniteSets

CONSTANTS
    Name,        \* parameter names
    Proc,        \* goroutines: CWMP sessions, API requests, the scheduler
    Null,        \* no cache entry, no snapshot, no value in hand
    Jobs,        \* the operations the goroutines perform
    MaxWrites,   \* bound: writes of parameters
    MaxFaults    \* bound: failed commands and process restarts

AllJobs == {"update", "delete", "put", "get", "save", "capture"}

ASSUME JobsAssumption == Jobs \subseteq AllJobs
ASSUME MaxWritesAssumption == MaxWrites \in Nat \ {0}
ASSUME MaxFaultsAssumption == MaxFaults \in Nat

\* A map from names to values.  The n-th write writes the value n; 0 stands
\* for a name that is not in the map.
Params == [Name -> Nat]

ASSUME NullAssumption == Null \notin Params

Empty == [n \in Name |-> 0]

\* upsert_device_parameters: insert the new names, overwrite the known ones.
Merge(old, new) == [n \in Name |-> IF new[n] = 0 THEN old[n] ELSE new[n]]

VARIABLES
    db,         \* device_parameters
    cache,      \* params:<serial>
    snap,       \* device_parameter_snapshots, last_known_good
    op,         \* the command each goroutine sends next
    writes,     \* history: writes so far
    committed,  \* history: every state the rows have been in
    current,    \* history: the cache entry was the rows when it was set, and
                \* no deletion of it has failed since
    faults      \* history: failed commands and restarts so far

vars == <<db, cache, snap, op, writes, committed, current, faults>>

Command == {"idle", "rows", "clear", "upsert", "invalidate",
            "lookup", "select", "fill", "snapshot"}
Idle == [job |-> "get", at |-> "idle", params |-> Null]

Init ==
    /\ db = [n \in Name |-> 1]
    /\ cache = Null
    /\ snap = Null
    /\ op = [p \in Proc |-> Idle]
    /\ writes = 1
    /\ committed = {db}
    /\ current = TRUE
    /\ faults = 0

Goto(p, job, at, params) ==
    op' = [op EXCEPT ![p] = [job |-> job, at |-> at, params |-> params]]

Continue(p, at) == op' = [op EXCEPT ![p].at = at]
Return(p) == op' = [op EXCEPT ![p] = Idle]

Commit(rows) ==
    /\ db' = rows
    /\ committed' = committed \cup {rows}

-----------------------------------------------------------------------------
(* Writers                                                                 *)

\* UpdateParameters(serial, params); nothing happens for an empty map.
StartUpdate(p, ns) ==
    /\ "update" \in Jobs
    /\ op[p] = Idle
    /\ ns # {}
    /\ writes < MaxWrites
    /\ writes' = writes + 1
    /\ Goto(p, "update", "upsert", [n \in Name |-> IF n \in ns THEN writes' ELSE 0])
    /\ UNCHANGED <<db, cache, snap, committed, current, faults>>

\* DELETE of a device, or the reset handler before it restores one.
StartDelete(p) ==
    /\ "delete" \in Jobs
    /\ op[p] = Idle
    /\ writes < MaxWrites
    /\ writes' = writes + 1
    /\ Goto(p, "delete", "rows", Empty)
    /\ UNCHANGED <<db, cache, snap, committed, current, faults>>

\* PUT of the global defaults, the only operation made of two repository calls:
\* DeleteDeviceParameters, then UpdateParameters unless the body is empty.
StartPut(p, ns) ==
    /\ "put" \in Jobs
    /\ op[p] = Idle
    /\ writes < MaxWrites
    /\ writes' = writes + 1
    /\ Goto(p, "put", "rows", [n \in Name |-> IF n \in ns THEN writes' ELSE 0])
    /\ UNCHANGED <<db, cache, snap, committed, current, faults>>

Rows(p) ==
    /\ op[p].at = "rows"
    /\ Commit(Empty)
    /\ Continue(p, "clear")
    /\ UNCHANGED <<cache, snap, writes, current, faults>>

AfterClear(p) ==
    IF op[p].params = Empty THEN Return(p) ELSE Continue(p, "upsert")

Clear(p) ==
    /\ op[p].at = "clear"
    /\ cache' = Null
    /\ AfterClear(p)
    /\ UNCHANGED <<db, snap, writes, committed, current, faults>>

\* Mutant: the rows are written one name at a time.
UpsertOneByOne(p) ==
    /\ op[p].at = "upsert"
    /\ \E n \in Name :
        LET rest == [op[p].params EXCEPT ![n] = 0] IN
        /\ op[p].params[n] # 0
        /\ db' = [db EXCEPT ![n] = op[p].params[n]]
        /\ op' = [op EXCEPT ![p].params = rest,
                            ![p].at = IF rest = Empty THEN "invalidate" ELSE "upsert"]
        /\ committed' = IF rest = Empty THEN committed \cup {db'} ELSE committed
    /\ UNCHANGED <<cache, snap, writes, current, faults>>

\* Mutant: the entry is left to its TTL.
UpsertOnly(p) ==
    /\ op[p].at = "upsert"
    /\ Commit(Merge(db, op[p].params))
    /\ Return(p)
    /\ UNCHANGED <<cache, snap, writes, current, faults>>

\* One call of the stored procedure.
Upsert(p) ==
    /\ op[p].at = "upsert"
    /\ Commit(Merge(db, op[p].params))
    /\ Continue(p, "invalidate")
    /\ UNCHANGED <<cache, snap, writes, current, faults>>

Invalidate(p) ==
    /\ op[p].at = "invalidate"
    /\ cache' = Null
    /\ Return(p)
    /\ UNCHANGED <<db, snap, writes, committed, current, faults>>

-----------------------------------------------------------------------------
(* Readers: GetAllParameters, called for its value by the API, and by the  *)
(* two callers of SaveSnapshot.                                            *)

StartGet(p) ==
    /\ "get" \in Jobs
    /\ op[p] = Idle
    /\ Goto(p, "get", "lookup", Null)
    /\ UNCHANGED <<db, cache, snap, writes, committed, current, faults>>

\* POST .../snapshots/last-known-good
StartSave(p) ==
    /\ "save" \in Jobs
    /\ op[p] = Idle
    /\ Goto(p, "save", "lookup", Null)
    /\ UNCHANGED <<db, cache, snap, writes, committed, current, faults>>

\* The daily job asks for the serials that have rows.
StartCapture(p) ==
    /\ "capture" \in Jobs
    /\ op[p] = Idle
    /\ db # Empty
    /\ Goto(p, "capture", "lookup", Null)
    /\ UNCHANGED <<db, cache, snap, writes, committed, current, faults>>

\* GetAllParameters returns params to its caller; the API handler refuses to
\* save an empty snapshot, the daily job does not.
Got(p, params) ==
    IF op[p].job = "capture" \/ (op[p].job = "save" /\ params # Empty)
    THEN Goto(p, op[p].job, "snapshot", params)
    ELSE Return(p)

LookupHit(p) ==
    /\ op[p].at = "lookup"
    /\ cache # Null
    /\ Got(p, cache)
    /\ UNCHANGED <<db, cache, snap, writes, committed, current, faults>>

LookupMiss(p) ==
    /\ op[p].at = "lookup"
    /\ cache = Null
    /\ Continue(p, "select")
    /\ UNCHANGED <<db, cache, snap, writes, committed, current, faults>>

Select(p) ==
    /\ op[p].at = "select"
    /\ op' = [op EXCEPT ![p].at = "fill", ![p].params = db]
    /\ UNCHANGED <<db, cache, snap, writes, committed, current, faults>>

Fill(p) ==
    /\ op[p].at = "fill"
    /\ cache' = op[p].params
    /\ current' = (op[p].params = db)
    /\ Got(p, op[p].params)
    /\ UNCHANGED <<db, snap, writes, committed, faults>>

SaveSnapshot(p) ==
    /\ op[p].at = "snapshot"
    /\ snap' = op[p].params
    /\ Return(p)
    /\ UNCHANGED <<db, cache, writes, committed, current, faults>>

-----------------------------------------------------------------------------
(* The environment                                                         *)

\* Mutant: the entry is set without a TTL.
NeverExpires ==
    /\ FALSE
    /\ UNCHANGED vars

\* The entry's hour is over.
Expire ==
    /\ cache # Null
    /\ cache' = Null
    /\ UNCHANGED <<db, snap, op, writes, committed, current, faults>>

\* Mutant: the error of the SELECT is not looked at, the map is nil.
DatabaseErrorIgnored(p) ==
    /\ op[p].at \in {"rows", "upsert", "select", "snapshot"}
    /\ faults < MaxFaults
    /\ faults' = faults + 1
    /\ IF op[p].at = "select" THEN Continue(p, "fill") ELSE Return(p)
    /\ UNCHANGED <<db, cache, snap, writes, committed, current>>

\* A database command fails: every operation returns the error at once.
DatabaseFails(p) ==
    /\ op[p].at \in {"rows", "upsert", "select", "snapshot"}
    /\ faults < MaxFaults
    /\ faults' = faults + 1
    /\ Return(p)
    /\ UNCHANGED <<db, cache, snap, writes, committed, current>>

\* A Redis command fails: a failed lookup is a miss, the other errors are
\* ignored.
RedisFails(p) ==
    /\ faults < MaxFaults
    /\ faults' = faults + 1
    /\ \/ op[p].at = "lookup" /\ Continue(p, "select") /\ UNCHANGED current
       \/ op[p].at = "fill" /\ Got(p, op[p].params) /\ UNCHANGED current
       \/ op[p].at = "clear" /\ AfterClear(p) /\ current' = FALSE
       \/ op[p].at = "invalidate" /\ Return(p) /\ current' = FALSE
    /\ UNCHANGED <<db, cache, snap, writes, committed>>

\* The process stops; PostgreSQL and Redis keep what they have.
Restart ==
    /\ faults < MaxFaults
    /\ faults' = faults + 1
    /\ op' = [p \in Proc |-> Idle]
    /\ current' = (current /\ \A p \in Proc : op[p].at \notin {"clear", "invalidate"})
    /\ UNCHANGED <<db, cache, snap, writes, committed>>

Start(p) ==
    \/ \E ns \in SUBSET Name : StartUpdate(p, ns) \/ StartPut(p, ns)
    \/ StartDelete(p) \/ StartGet(p) \/ StartSave(p) \/ StartCapture(p)

Step(p) ==
    \/ Rows(p) \/ Clear(p) \/ Upsert(p) \/ Invalidate(p)
    \/ LookupHit(p) \/ LookupMiss(p) \/ Select(p) \/ Fill(p) \/ SaveSnapshot(p)

Next ==
    \/ \E p \in Proc : Start(p) \/ Step(p) \/ DatabaseFails(p) \/ RedisFails(p)
    \/ Expire
    \/ Restart

Spec == Init /\ [][Next]_vars

\* Every command has a deadline, and Redis drops an entry after its TTL.
FairSpec == Spec /\ WF_vars(Expire) /\ \A p \in Proc : WF_vars(Step(p))

-----------------------------------------------------------------------------
(* Properties                                                              *)

TypeOK ==
    /\ db \in Params
    /\ cache \in Params \cup {Null}
    /\ snap \in Params \cup {Null}
    /\ op \in [Proc -> [job : AllJobs, at : Command, params : Params \cup {Null}]]
    /\ \A p \in Proc : op[p].params = Null <=> op[p].at \in {"idle", "lookup", "select"}
    /\ writes \in Nat
    /\ committed \subseteq Params
    /\ current \in BOOLEAN
    /\ faults \in Nat

Reading == {"fill", "snapshot"}

\* Whatever a reader gets, the cache holds or a snapshot keeps is what the
\* rows were at one moment: no mixture of two writes, though reads, fills,
\* writes and snapshots of several goroutines interleave.
CopiesAreOfOneMoment ==
    /\ cache # Null => cache \in committed
    /\ snap # Null => snap \in committed
    /\ \A p \in Proc : op[p].at \in Reading => op[p].params \in committed

\* A writer commits and then deletes the entry: an entry that was up to date
\* when it was set is never left behind by a later write, unless the deletion
\* is still to come or failed.  (A reader that selects before the commit and
\* sets after the deletion is the one other way to a stale entry.)
CurrentEntriesAreInvalidated ==
    cache # Null /\ current =>
        \/ cache = db
        \/ \E p \in Proc : op[p].at \in {"clear", "invalidate"}

\* The overlap and the failed deletion leave a stale entry for one TTL at
\* most: once the writers are done, readers get what the database has.
EventuallyFresh == <>[](cache # Null => cache = db)

=============================================================================
