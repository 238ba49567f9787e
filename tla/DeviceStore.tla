----------------------------- MODULE DeviceStore -----------------------------
(***************************************************************************)
(* What the ACS remembers of one device: its document in MongoDB           *)
(* (internal/device/repository.go) and its rows in PostgreSQL.  A session  *)
(* stores the Inform, may refresh the document with the values of a summon *)
(* and starts goroutines that go on after it; the API deletes devices.     *)
(* Each command to a database is one step, and the commands of one         *)
(* operation interleave with those of the others.  The online flag of the  *)
(* document is the subject of Presence.                                    *)
(***************************************************************************)
EXTENDS Integers, FiniteSets, FiniteSetsExt

CONSTANTS
    Session,     \* handlers of the device's sessions
    Key,         \* parameter names
    InformKeys,  \* those every Inform carries
    Null,        \* no document
    MaxChanges,  \* bound: changes of the device's values
    MaxJobs,     \* bound: goroutines that go on after a session
    MaxDeletes,  \* bound: deletions of the device
    MaxFaults    \* bound: failed commands, cut connections, restarts

ASSUME KeysAssumption == IsFiniteSet(Key) /\ InformKeys \subseteq Key
ASSUME BoundsAssumption == {MaxChanges, MaxJobs, MaxDeletes, MaxFaults} \subseteq Nat

\* The device changes all its values at once: a value is known by the number
\* of changes before it, plus one; 0 is a name that is not in the map.
Version == 1..(MaxChanges + 1)
Params == [Key -> Version \cup {0}]
Empty == [k \in Key |-> 0]
Names(params) == {k \in Key : params[k] # 0}
Overlay(old, new) == [k \in Key |-> IF new[k] = 0 THEN old[k] ELSE new[k]]

VARIABLES
    doc,      \* the document: its parameters, and the version of the values
              \* its wans were taken from
    pg,       \* the rows of the parameter store
    op,       \* the next command of each session handler
    jobs,     \* goroutines started by sessions
    fresh,    \* a summon was scheduled less than two minutes ago
    cpe,      \* the version of the device's own values
    deletes,  \* history: deletions so far
    faults    \* history: faults so far

vars == <<doc, pg, op, jobs, fresh, cpe, deletes, faults>>

Documents == [params : Params, wans : Version \cup {0}]
Points == {"idle", "find", "upsert", "decide", "read", "merge", "replace", "rows", "info"}
Idle == [at |-> "idle", sent |-> Empty, seen |-> Empty]

Init ==
    /\ doc = Null
    /\ pg = Empty
    /\ op = [s \in Session |-> Idle]
    /\ jobs = {}
    /\ fresh = FALSE
    /\ cpe = 1
    /\ deletes = 0
    /\ faults = 0

Continue(s, at) == op' = [op EXCEPT ![s].at = at]
Return(s) == op' = [op EXCEPT ![s] = Idle]
Stored == IF doc = Null THEN Empty ELSE doc.params
Reported(keys) == [k \in Key |-> IF k \in keys THEN cpe ELSE 0]

\* The update of an existing document; without one, UpdateOne matches nothing.
Set(params) == doc' = IF doc = Null THEN Null ELSE [doc EXCEPT !.params = params]
SetWans(version) == doc' = IF doc = Null THEN Null ELSE [doc EXCEPT !.wans = version]

\* The WANs extracted from a map, known by the youngest value they rest on; the
\* extraction needs the names only a summon asks for.
WansOf(params) == Max({params[k] : k \in Key \ InformKeys} \cup {0})

-----------------------------------------------------------------------------
(* A session                                                               *)

\* The device opens a session.  While another handler is busy it does so only
\* because its connection was cut, which the other handler does not notice.
Inform(s) ==
    LET busy == \E t \in Session : op[t] # Idle IN
    /\ op[s] = Idle
    /\ Cardinality(jobs) < MaxJobs
    /\ IF busy THEN faults < MaxFaults /\ faults' = faults + 1 ELSE UNCHANGED faults
    /\ op' = [op EXCEPT ![s] = [Idle EXCEPT !.at = "find", !.sent = Reported(InformKeys)]]
    /\ UNCHANGED <<doc, pg, jobs, fresh, cpe, deletes>>

\* Upsert's first command; its error is ignored.
Find(s) ==
    /\ op[s].at = "find"
    /\ op' = [op EXCEPT ![s].at = "upsert", ![s].seen = Stored]
    /\ UNCHANGED <<doc, pg, jobs, fresh, cpe, deletes, faults>>

\* Mutant: the Inform's parameters replace the stored ones.
InformOnly(seen, sent) == sent

\* The map Upsert writes: the Inform's parameters alone, unless there are more
\* stored ones to lay them over.
Merged(seen, sent) ==
    IF Cardinality(Names(seen)) > Cardinality(Names(sent)) THEN Overlay(seen, sent) ELSE sent

\* Mutant: the WANs are those of a document without fields.
UpsertForgetsWans(s) ==
    /\ op[s].at = "upsert"
    /\ doc' = [params |-> Merged(op[s].seen, op[s].sent)]
    /\ jobs' = jobs \cup {[at |-> "record", params |-> op[s].sent]}
    /\ op' = [op EXCEPT ![s] = [Idle EXCEPT !.at = "decide"]]
    /\ UNCHANGED <<pg, fresh, cpe, deletes, faults>>

\* Upsert's second command creates or updates the document; then the handler
\* starts the goroutine that records the parameters and, when the WANs of the
\* document are incomplete, the one that backfills them.
Upsert(s) ==
    /\ op[s].at = "upsert"
    /\ doc' = [params |-> Merged(op[s].seen, op[s].sent),
               wans |-> IF doc = Null THEN 0 ELSE doc.wans]
    /\ \E more \in {{}, {[at |-> "select", params |-> Empty]}} :
        jobs' = jobs \cup {[at |-> "record", params |-> op[s].sent]} \cup more
    /\ op' = [op EXCEPT ![s] = [Idle EXCEPT !.at = "decide"]]
    /\ UNCHANGED <<pg, fresh, cpe, deletes, faults>>

\* A full summon when the API asked for one; else a refresh, at most one in two
\* minutes; the time of a refresh is noted before the device answers.
Decide(s) ==
    /\ op[s].at = "decide"
    /\ \/ /\ op' = [op EXCEPT ![s].at = "replace", ![s].sent = Reported(Key)]
          /\ UNCHANGED fresh
       \/ /\ ~fresh
          /\ op' = [op EXCEPT ![s].at = "read", ![s].sent = Reported(Key)]
          /\ fresh' = TRUE
       \/ /\ fresh
          /\ Return(s)
          /\ UNCHANGED fresh
    /\ UNCHANGED <<doc, pg, jobs, cpe, deletes, faults>>

\* finishSummon: UpdateParameters replaces the map.
Replace(s) ==
    /\ op[s].at = "replace"
    /\ Set(op[s].sent)
    /\ Continue(s, "rows")
    /\ UNCHANGED <<pg, jobs, fresh, cpe, deletes, faults>>

\* MergeParameters reads the map, lays the summoned values over it and replaces
\* it; the error of the read is ignored.
Read(s) ==
    /\ op[s].at = "read"
    /\ op' = [op EXCEPT ![s].at = "merge", ![s].seen = Stored]
    /\ UNCHANGED <<doc, pg, jobs, fresh, cpe, deletes, faults>>

\* Mutant: the stored values are laid over the summoned ones.
MergeUnder(s) ==
    /\ op[s].at = "merge"
    /\ Set(Overlay(op[s].sent, op[s].seen))
    /\ op' = [op EXCEPT ![s].at = "rows", ![s].seen = Empty]
    /\ UNCHANGED <<pg, jobs, fresh, cpe, deletes, faults>>

Merge(s) ==
    /\ op[s].at = "merge"
    /\ Set(Overlay(op[s].seen, op[s].sent))
    /\ op' = [op EXCEPT ![s].at = "rows", ![s].seen = Empty]
    /\ UNCHANGED <<pg, jobs, fresh, cpe, deletes, faults>>

\* UpdateParameters of the parameter store.
Rows(s) ==
    /\ op[s].at = "rows"
    /\ pg' = Overlay(pg, op[s].sent)
    /\ Continue(s, "info")
    /\ UNCHANGED <<doc, jobs, fresh, cpe, deletes, faults>>

\* UpdateInfo with the WANs of the summon.
Info(s) ==
    /\ op[s].at = "info"
    /\ SetWans(WansOf(op[s].sent))
    /\ Return(s)
    /\ UNCHANGED <<pg, jobs, fresh, cpe, deletes, faults>>

-----------------------------------------------------------------------------
(* Goroutines                                                              *)

\* Records the parameters of the Inform, or drops them with a warning.
Record(j) ==
    /\ j.at = "record"
    /\ pg' = Overlay(pg, j.params)
    /\ jobs' = jobs \ {j}
    /\ UNCHANGED <<doc, op, fresh, cpe, deletes, faults>>

\* The backfill reads the stored parameters and, if it finds WANs in them,
\* writes these to the document.
Select(j) ==
    /\ j.at = "select"
    /\ jobs' = (jobs \ {j}) \cup
               IF WansOf(pg) = 0 THEN {} ELSE {[at |-> "backfill", params |-> pg]}
    /\ UNCHANGED <<doc, pg, op, fresh, cpe, deletes, faults>>

Backfill(j) ==
    /\ j.at = "backfill"
    /\ SetWans(WansOf(j.params))
    /\ jobs' = jobs \ {j}
    /\ UNCHANGED <<pg, op, fresh, cpe, deletes, faults>>

-----------------------------------------------------------------------------
(* The API and the environment                                             *)

\* DELETE of the device: the document, then the rows (a step of their own,
\* taken by a goroutine here).
Delete ==
    /\ doc # Null
    /\ deletes < MaxDeletes
    /\ deletes' = deletes + 1
    /\ doc' = Null
    /\ jobs' = jobs \cup {[at |-> "delete", params |-> Empty]}
    /\ UNCHANGED <<pg, op, fresh, cpe, faults>>

DeleteRows(j) ==
    /\ j.at = "delete"
    /\ pg' = Empty
    /\ jobs' = jobs \ {j}
    /\ UNCHANGED <<doc, op, fresh, cpe, deletes, faults>>

Change ==
    /\ cpe <= MaxChanges
    /\ cpe' = cpe + 1
    /\ UNCHANGED <<doc, pg, op, jobs, fresh, deletes, faults>>

\* Two minutes have passed since a summon was scheduled.
TwoMinutes ==
    /\ fresh
    /\ fresh' = FALSE
    /\ UNCHANGED <<doc, pg, op, jobs, cpe, deletes, faults>>

\* A command of a session fails.  Upsert's failure ends the session; the others
\* are ignored or logged, and an unread map is an empty one.
CommandFails(s) ==
    /\ faults < MaxFaults
    /\ faults' = faults + 1
    /\ \/ op[s].at \in {"upsert", "info"} /\ Return(s)
       \/ op[s].at = "find" /\ Continue(s, "upsert")
       \/ op[s].at = "read" /\ Continue(s, "merge")
       \/ /\ op[s].at \in {"replace", "merge"}
          /\ op' = [op EXCEPT ![s].at = "rows", ![s].seen = Empty]
       \/ op[s].at = "rows" /\ Continue(s, "info")
    /\ UNCHANGED <<doc, pg, jobs, fresh, cpe, deletes>>

JobFails(j) ==
    /\ faults < MaxFaults
    /\ faults' = faults + 1
    /\ jobs' = jobs \ {j}
    /\ UNCHANGED <<doc, pg, op, fresh, cpe, deletes>>

\* The process starts again: lastSummonTime was in memory too.
Restart ==
    /\ faults < MaxFaults
    /\ faults' = faults + 1
    /\ op' = [s \in Session |-> Idle]
    /\ jobs' = {}
    /\ fresh' = FALSE
    /\ UNCHANGED <<doc, pg, cpe, deletes>>

Step(s) ==
    \/ Find(s) \/ Upsert(s) \/ Decide(s) \/ Replace(s)
    \/ Read(s) \/ Merge(s) \/ Rows(s) \/ Info(s)

Work == \E j \in jobs : Record(j) \/ Select(j) \/ Backfill(j) \/ DeleteRows(j)

Next ==
    \/ \E s \in Session : Inform(s) \/ Step(s) \/ CommandFails(s)
    \/ Work
    \/ \E j \in jobs : JobFails(j)
    \/ TwoMinutes \/ Delete \/ Change \/ Restart

Spec == Init /\ [][Next]_vars

\* Every command has a deadline, time passes and the device goes on sending
\* Informs.
FairSpec ==
    /\ Spec
    /\ WF_vars(\E s \in Session : Inform(s) /\ UNCHANGED faults)
    /\ \A s \in Session : WF_vars(Step(s))
    /\ WF_vars(Work)
    /\ WF_vars(TwoMinutes)

-----------------------------------------------------------------------------
(* Properties                                                              *)

TypeOK ==
    /\ doc \in Documents \cup {Null}
    /\ pg \in Params
    /\ op \in [Session -> [at : Points, sent : Params, seen : Params]]
    /\ jobs \subseteq [at : {"record", "select", "backfill", "delete"}, params : Params]
    /\ fresh \in BOOLEAN
    /\ cpe \in Version
    /\ deletes \in 0..MaxDeletes
    /\ faults \in 0..MaxFaults

\* A summoned parameter disappears from the document only with the document, by
\* a full summon that did not have it, or by a write whose handler had read
\* other parameters than it overwrites.
Racing == \E s \in Session : op[s].at \in {"upsert", "merge"} /\ op[s].seen # Stored

SummonedParametersStay ==
    [][doc # Null /\ doc' # Null /\ ~(Names(doc.params) \subseteq Names(doc'.params)) => Racing]_vars

\* Lost updates, failed commands, late goroutines and backfills from old rows
\* are repaired: when the device stops changing, document and rows come to hold
\* its values, and its WANs are taken from them.
Converges ==
    <>[](/\ doc # Null
         /\ \A k \in Key : doc.params[k] \in {0, cpe} /\ pg[k] = cpe
         /\ doc.wans \in {0, cpe})

=============================================================================
