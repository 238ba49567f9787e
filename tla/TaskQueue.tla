----------------------------- MODULE TaskQueue -----------------------------
(***************************************************************************)
(* The Redis task queue of one device (internal/task/queue.go), at the     *)
(* grain of the Redis commands its operations are made of, together with   *)
(* the three kinds of caller that use it:                                  *)
(*                                                                         *)
(*   - an API request (internal/api/handler/task.go) enqueues a task or    *)
(*     cancels one;                                                        *)
(*   - a CWMP session (internal/cwmp/session.go) dequeues the pending      *)
(*     tasks at the Inform, dispatches them one by one and completes each; *)
(*   - a TransferComplete handler completes a firmware task by its id.     *)
(*                                                                         *)
(* No operation holds a lock or runs in MULTI/EXEC, so the commands of     *)
(* different goroutines interleave freely, and every UPDATE writes the     *)
(* whole JSON document from a copy read earlier.                           *)
(***************************************************************************)
EXTENDS Integers, FiniteSets, Sequences, SequencesExt, Functions

CONSTANTS
    Task,        \* task ids (uuids: never issued twice)
    Api,         \* goroutines serving API requests and TransferComplete
    Session,     \* CWMP sessions of the device
    NoTask,      \* the nil *task.Task
    MaxFaults    \* bound: Redis errors and process restarts

ASSUME NoTaskAssumption == NoTask \notin Task
ASSUME ClientAssumption == Api \cap Session = {}
ASSUME MaxFaultsAssumption == MaxFaults \in Nat

Client == Api \cup Session

Terminal == {"done", "failed", "cancelled"}
Status == {"pending", "executing"} \cup Terminal

VARIABLES
    data,     \* task:data:<id>, the status in the JSON; "absent" is redis.Nil
    fifo,     \* task:queue:<serial>, the list of ids
    index,    \* task:index:<serial>, the sorted set of ids
    issued,   \* ids handed out so far
    op,       \* the Redis command each goroutine sends next
    scan,     \* ids of DequeuePending's LRANGE still to be fetched
    pend,     \* session.pendingTasks
    cur,      \* session.currentTask
    faults    \* Redis errors and restarts so far

vars == <<data, fifo, index, issued, op, scan, pend, cur, faults>>

Command == {"idle", "rpush", "setnew", "zadd", "set", "lrem", "scan"}
Op == [cmd : Command, task : Task \cup {NoTask}, status : Status]
Idle == [cmd |-> "idle", task |-> NoTask, status |-> "pending"]

TypeOK ==
    /\ data \in [Task -> Status \cup {"absent"}]
    /\ fifo \in Seq(Task)
    /\ index \in SUBSET Task
    /\ issued \in SUBSET Task
    /\ op \in [Client -> Op]
    /\ scan \in [Session -> Seq(Task)]
    /\ pend \in [Session -> Seq(Task)]
    /\ cur \in [Session -> Task \cup {NoTask}]
    /\ faults \in Nat

Init ==
    /\ data = [t \in Task |-> "absent"]
    /\ fifo = <<>>
    /\ index = {}
    /\ issued = {}
    /\ op = [c \in Client |-> Idle]
    /\ scan = [s \in Session |-> <<>>]
    /\ pend = [s \in Session |-> <<>>]
    /\ cur = [s \in Session |-> NoTask]
    /\ faults = 0

-----------------------------------------------------------------------------
(* Enqueue: RPUSH, SET and ZADD travel in one pipeline, which is not a     *)
(* transaction: Redis runs them in order, other clients' commands between. *)

\* The handler makes the Task with a fresh uuid and calls Enqueue.
EnqueueStart(c, t) ==
    /\ op[c] = Idle
    /\ t \notin issued
    /\ issued' = issued \cup {t}
    /\ op' = [op EXCEPT ![c] = [cmd |-> "rpush", task |-> t, status |-> "pending"]]
    /\ UNCHANGED <<data, fifo, index, scan, pend, cur, faults>>

\* Mutant: the pipeline is sent again after a timeout and RPUSHes twice.
EnqueueRPushTwice(c) ==
    /\ op[c].cmd = "rpush"
    /\ fifo' = fifo \o <<op[c].task, op[c].task>>
    /\ op' = [op EXCEPT ![c].cmd = "setnew"]
    /\ UNCHANGED <<data, index, issued, scan, pend, cur, faults>>

EnqueueRPush(c) ==
    /\ op[c].cmd = "rpush"
    /\ fifo' = Append(fifo, op[c].task)
    /\ op' = [op EXCEPT ![c].cmd = "setnew"]
    /\ UNCHANGED <<data, index, issued, scan, pend, cur, faults>>

\* Mutant: the default status is forgotten.
EnqueueSetNoStatus(c) ==
    /\ op[c].cmd = "setnew"
    /\ data' = [data EXCEPT ![op[c].task] = ""]
    /\ op' = [op EXCEPT ![c].cmd = "zadd"]
    /\ UNCHANGED <<fifo, index, issued, scan, pend, cur, faults>>

EnqueueSet(c) ==
    /\ op[c].cmd = "setnew"
    /\ data' = [data EXCEPT ![op[c].task] = "pending"]
    /\ op' = [op EXCEPT ![c].cmd = "zadd"]
    /\ UNCHANGED <<fifo, index, issued, scan, pend, cur, faults>>

EnqueueZAdd(c) ==
    /\ op[c].cmd = "zadd"
    /\ index' = index \cup {op[c].task}
    /\ op' = [op EXCEPT ![c] = Idle]
    /\ UNCHANGED <<data, fifo, issued, scan, pend, cur, faults>>

-----------------------------------------------------------------------------
(* UpdateStatus: SET the caller's copy whatever is stored, then LREM the   *)
(* id when the copy's status is terminal.                                  *)

UpdateStatus(c, t, status) ==
    op' = [op EXCEPT ![c] = [cmd |-> "set", task |-> t, status |-> status]]

\* Mutant: a cancelled task is not removed from the list.
UpdateSetKeepsCancelled(c) ==
    /\ op[c].cmd = "set"
    /\ data' = [data EXCEPT ![op[c].task] = op[c].status]
    /\ op' = [op EXCEPT ![c] =
                 IF op[c].status \in {"done", "failed"} THEN [op[c] EXCEPT !.cmd = "lrem"]
                                                       ELSE Idle]
    /\ cur' = [s \in Session |-> IF s = c /\ op[c].status = "executing"
                                 THEN op[c].task ELSE cur[s]]
    /\ UNCHANGED <<fifo, index, issued, scan, pend, faults>>

\* A dispatch takes the task as the session's current one once SET succeeded.
UpdateSet(c) ==
    /\ op[c].cmd = "set"
    /\ data' = [data EXCEPT ![op[c].task] = op[c].status]
    /\ op' = [op EXCEPT ![c] =
                 IF op[c].status \in Terminal THEN [op[c] EXCEPT !.cmd = "lrem"]
                                              ELSE Idle]
    /\ cur' = [s \in Session |-> IF s = c /\ op[c].status = "executing"
                                 THEN op[c].task ELSE cur[s]]
    /\ UNCHANGED <<fifo, index, issued, scan, pend, faults>>

\* Mutant: LPOP where LREM is meant.
LPop(q, t) == IF q = <<>> THEN q ELSE Tail(q)

\* LREM key 0 id removes every occurrence; an id occurs at most once
\* (FifoIsDuplicateFree), so there is one index to remove.
LRem(q, t) ==
    IF \E i \in DOMAIN q : q[i] = t
    THEN RemoveAt(q, CHOOSE i \in DOMAIN q : q[i] = t)
    ELSE q

UpdateLRem(c) ==
    /\ op[c].cmd = "lrem"
    /\ fifo' = LRem(fifo, op[c].task)
    /\ op' = [op EXCEPT ![c] = Idle]
    /\ UNCHANGED <<data, index, issued, scan, pend, cur, faults>>

\* Cancel: GET the task, refuse a terminal one, write it back as cancelled.
Cancel(c, t) ==
    /\ op[c] = Idle
    /\ data[t] \in Status \ Terminal
    /\ UpdateStatus(c, t, "cancelled")
    /\ UNCHANGED <<data, fifo, index, issued, scan, pend, cur, faults>>

\* handleTransferComplete: GET the task the CommandKey names and write the
\* outcome back, whatever the status it read.
TransferComplete(c, t, outcome) ==
    /\ op[c] = Idle
    /\ data[t] # "absent"
    /\ UpdateStatus(c, t, outcome)
    /\ UNCHANGED <<data, fifo, index, issued, scan, pend, cur, faults>>

-----------------------------------------------------------------------------
(* The CWMP session.                                                       *)

\* DequeuePending, first command: LRANGE 0 -1 at the Inform.
DequeueLRange(s) ==
    /\ op[s] = Idle
    /\ scan' = [scan EXCEPT ![s] = fifo]
    /\ pend' = [pend EXCEPT ![s] = <<>>]
    /\ op' = [op EXCEPT ![s].cmd = "scan"]
    /\ UNCHANGED <<data, fifo, index, issued, cur, faults>>

\* Mutant: the fetched tasks are collected in reverse.
DequeueFetchReversed(s) ==
    /\ op[s].cmd = "scan"
    /\ scan[s] # <<>>
    /\ LET t == Head(scan[s])
       IN  pend' = [pend EXCEPT ![s] =
                       IF data[t] = "pending" THEN <<t>> \o @ ELSE @]
    /\ scan' = [scan EXCEPT ![s] = Tail(@)]
    /\ UNCHANGED <<data, fifo, index, issued, op, cur, faults>>

\* DequeuePending, one GET per id: a missing document is skipped, a task
\* that is not pending is left out.
DequeueFetch(s) ==
    /\ op[s].cmd = "scan"
    /\ scan[s] # <<>>
    /\ LET t == Head(scan[s])
       IN  pend' = [pend EXCEPT ![s] =
                       IF data[t] = "pending" THEN Append(@, t) ELSE @]
    /\ scan' = [scan EXCEPT ![s] = Tail(@)]
    /\ UNCHANGED <<data, fifo, index, issued, op, cur, faults>>

DequeueReturn(s) ==
    /\ op[s].cmd = "scan"
    /\ scan[s] = <<>>
    /\ op' = [op EXCEPT ![s] = Idle]
    /\ UNCHANGED <<data, fifo, index, issued, scan, pend, cur, faults>>

\* dispatchTask on the task dispatchNextOrClose or the empty POST pops.
DispatchNext(s) ==
    /\ op[s] = Idle
    /\ pend[s] # <<>>
    /\ pend' = [pend EXCEPT ![s] = Tail(@)]
    /\ UpdateStatus(s, Head(pend[s]), "executing")
    /\ UNCHANGED <<data, fifo, index, issued, scan, cur, faults>>

\* Mutant: an unanswered task goes back to pending for the next Inform.
DispatchAgainAsPending(s) ==
    /\ op[s] = Idle
    /\ cur[s] # NoTask
    /\ UpdateStatus(s, cur[s], "pending")
    /\ UNCHANGED <<data, fifo, index, issued, scan, pend, cur, faults>>

\* dispatchTask on the current task: an empty POST while it is unanswered.
DispatchAgain(s) ==
    /\ op[s] = Idle
    /\ cur[s] # NoTask
    /\ UpdateStatus(s, cur[s], "executing")
    /\ UNCHANGED <<data, fifo, index, issued, scan, pend, cur, faults>>

\* completeTask: the CPE's answer (or an error) ends the current task.
Complete(s, outcome) ==
    /\ op[s] = Idle
    /\ cur[s] # NoTask
    /\ UpdateStatus(s, cur[s], outcome)
    /\ cur' = [cur EXCEPT ![s] = NoTask]
    /\ UNCHANGED <<data, fifo, index, issued, scan, pend, faults>>

-----------------------------------------------------------------------------
(* The environment.                                                        *)

\* The TTL of a task document runs out. The list key has no TTL.
ExpireData(t) ==
    /\ data[t] # "absent"
    /\ data' = [data EXCEPT ![t] = "absent"]
    /\ UNCHANGED <<fifo, index, issued, op, scan, pend, cur, faults>>

\* The TTL of the index, renewed by each Enqueue, runs out as a whole.
ExpireIndex ==
    /\ index # {}
    /\ index' = {}
    /\ UNCHANGED <<data, fifo, issued, op, scan, pend, cur, faults>>

\* Redis answers the next command with an error. The operation returns at
\* once (Enqueue, UpdateStatus) or ignores it (LREM); a session keeps its
\* lists. A GET that fails in DequeuePending skips that id.
RedisError(c) ==
    /\ faults < MaxFaults
    /\ op[c] # Idle
    /\ faults' = faults + 1
    /\ \/ /\ op[c].cmd # "scan"
          /\ op' = [op EXCEPT ![c] = Idle]
          /\ UNCHANGED scan
       \/ /\ op[c].cmd = "scan"
          /\ \E s \in Session : /\ s = c /\ scan[s] # <<>>
                                /\ scan' = [scan EXCEPT ![s] = Tail(@)]
          /\ UNCHANGED op
    /\ UNCHANGED <<data, fifo, index, issued, pend, cur>>

\* The ACS process stops and starts again: everything but Redis is lost.
Restart ==
    /\ faults < MaxFaults
    /\ faults' = faults + 1
    /\ op' = [c \in Client |-> Idle]
    /\ scan' = [s \in Session |-> <<>>]
    /\ pend' = [s \in Session |-> <<>>]
    /\ cur' = [s \in Session |-> NoTask]
    /\ UNCHANGED <<data, fifo, index, issued>>

CommandStep(c) ==
    \/ EnqueueRPush(c)
    \/ EnqueueSet(c)
    \/ EnqueueZAdd(c)
    \/ UpdateSet(c)
    \/ UpdateLRem(c)

ApiStep(c) ==
    \E t \in Task :
        \/ EnqueueStart(c, t)
        \/ Cancel(c, t)
        \/ \E outcome \in {"done", "failed"} : TransferComplete(c, t, outcome)

SessionStep(s) ==
    \/ DequeueLRange(s)
    \/ DequeueFetch(s)
    \/ DequeueReturn(s)
    \/ DispatchNext(s)
    \/ DispatchAgain(s)
    \/ \E outcome \in {"done", "failed"} : Complete(s, outcome)

Next ==
    \/ \E c \in Client : CommandStep(c) \/ RedisError(c)
    \/ \E c \in Api : ApiStep(c)
    \/ \E s \in Session : SessionStep(s)
    \/ \E t \in Task : ExpireData(t)
    \/ ExpireIndex
    \/ Restart

Spec == Init /\ [][Next]_vars
-----------------------------------------------------------------------------
(* Properties.                                                             *)

Queued == ToSet(fifo)

\* A task stored as pending is in the FIFO, so some DequeuePending will see
\* it, whatever prefix of Enqueue's pipeline was executed and whichever
\* UpdateStatus or Cancel runs beside it (queue.go, Enqueue and UpdateStatus).
PendingIsQueued ==
    \A t \in Task : data[t] = "pending" => t \in Queued

\* The FIFO holds an id once, so a session never gets the same task twice
\* from one DequeuePending.
FifoIsDuplicateFree == IsInjective(fifo)

\* While no command failed, a finished task is in the FIFO only until the
\* goroutine that finished it has sent its LREM, also when a cancel, a
\* completion and a dispatch of the same task overlap: the list does not
\* grow with finished tasks (comment of UpdateStatus).
FinishedLeavesFifo ==
    faults = 0 =>
        \A t \in Task : data[t] \in Terminal /\ t \in Queued =>
            \E c \in Client : op[c].cmd = "lrem" /\ op[c].task = t

\* The tasks a session holds come in the order of the FIFO, also when the
\* list changed between the LRANGE and the GETs of its DequeuePending.
PendingTasksFollowFifo ==
    \A s \in Session : \A i, j \in DOMAIN pend[s] : \A k, l \in DOMAIN fifo :
        i < j /\ fifo[k] = pend[s][i] /\ fifo[l] = pend[s][j] => k < l

\* The life of a task as the callers of the queue see it.
Submitting(t) == \E c \in Client : op[c].cmd \in {"rpush", "setnew"} /\ op[c].task = t

lifecycle ==
    [t \in Task |-> IF data[t] # "absent" THEN data[t]
                    ELSE IF t \notin issued \/ Submitting(t) THEN "new"
                    ELSE "gone"]

TL == INSTANCE TaskLifecycle WITH state <- lifecycle

\* The commands implement TaskLifecycle: a task is stored as pending once,
\* by its own Enqueue, and no update, cancel, completion or stale copy makes
\* it pending again, so no later Inform delivers it from Redis twice.
RefinesTaskLifecycle == TL!Spec
=============================================================================
