-------------------------- MODULE TaskQueueProofs --------------------------
(***************************************************************************)
(* Proofs about TaskQueue, for any set of tasks, API goroutines, sessions  *)
(* and any number of faults.                                               *)
(***************************************************************************)
EXTENDS TaskQueue, SequenceTheorems, TLAPS

(***************************************************************************)
(* LREM on a duplicate-free list.                                          *)
(***************************************************************************)

\* LRem of an id that is in the list at position i drops that position.
LEMMA LRemAt ==
    ASSUME NEW q \in Seq(Task), IsInjective(q), NEW i \in DOMAIN q
    PROVE  LRem(q, q[i]) = RemoveAt(q, i)
<1>1. (CHOOSE j \in DOMAIN q : q[j] = q[i]) = i
  BY DEF IsInjective
<1> QED BY <1>1 DEF LRem

\* What RemoveAt does to a sequence, position by position.
LEMMA RemoveAtIsShift ==
    ASSUME NEW q \in Seq(Task), NEW i \in DOMAIN q
    PROVE  /\ RemoveAt(q, i) \in Seq(Task)
           /\ Len(RemoveAt(q, i)) = Len(q) - 1
           /\ \A k \in 1 .. Len(q) - 1 :
                  RemoveAt(q, i)[k] = IF k < i THEN q[k] ELSE q[k + 1]
<1> DEFINE a == SubSeq(q, 1, i - 1)
           b == SubSeq(q, i + 1, Len(q))
<1>1. i \in 1 .. Len(q) /\ Len(q) \in Nat
  OBVIOUS
<1>2. a \in Seq(Task) /\ Len(a) = i - 1 /\ \A k \in 1 .. i - 1 : a[k] = q[k]
  BY <1>1
<1>3. /\ b \in Seq(Task) /\ Len(b) = Len(q) - i
      /\ \A k \in 1 .. Len(q) - i : b[k] = q[k + i]
  BY <1>1
<1>4. RemoveAt(q, i) = a \o b
  BY DEF RemoveAt
<1> HIDE DEF a, b
<1>5. /\ a \o b \in Seq(Task)
      /\ Len(a \o b) = Len(a) + Len(b)
      /\ \A k \in 1 .. Len(a) + Len(b) :
             (a \o b)[k] = IF k <= Len(a) THEN a[k] ELSE b[k - Len(a)]
  BY <1>2, <1>3, ConcatProperties
<1>7. Len(a \o b) = Len(q) - 1
  BY <1>1, <1>2, <1>3, <1>5
<1>6. ASSUME NEW k \in 1 .. Len(q) - 1
      PROVE  (a \o b)[k] = IF k < i THEN q[k] ELSE q[k + 1]
  <2>1. CASE k < i
    <3>1. k \in 1 .. Len(a) + Len(b) /\ k <= Len(a)
      BY <1>1, <1>2, <1>3, <2>1
    <3>2. (a \o b)[k] = a[k]
      BY <1>5, <3>1
    <3>3. a[k] = q[k]
      BY <1>1, <1>2, <2>1
    <3> QED BY <2>1, <3>2, <3>3
  <2>2. CASE ~(k < i)
    <3>0. k \in 1 .. Len(a) + Len(b) /\ ~(k <= Len(a))
      BY <1>1, <1>2, <1>3, <2>2
    <3>1. (a \o b)[k] = b[k - Len(a)]
      BY <1>5, <3>0
    <3>2. k - (i - 1) \in 1 .. Len(q) - i
      BY <1>1, <2>2
    <3>3. b[k - (i - 1)] = q[k - (i - 1) + i]
      BY <1>3, <3>2
    <3>4. k - (i - 1) + i = k + 1
      BY <1>1
    <3> QED BY <1>2, <2>2, <3>1, <3>3, <3>4
  <2> QED BY <2>1, <2>2
<1> QED BY <1>4, <1>5, <1>6, <1>7

\* LREM removes exactly its id and keeps the list duplicate-free.
LEMMA LRemRemoves ==
    ASSUME NEW q \in Seq(Task), IsInjective(q), NEW t \in Task
    PROVE  /\ LRem(q, t) \in Seq(Task)
           /\ IsInjective(LRem(q, t))
           /\ ToSet(LRem(q, t)) = ToSet(q) \ {t}
<1>1. CASE \E i \in DOMAIN q : q[i] = t
  <2>1. PICK i \in DOMAIN q : q[i] = t
    BY <1>1
  <2> DEFINE r == RemoveAt(q, i)
  <2>2. LRem(q, t) = r
    BY <2>1, LRemAt
  <2>3. /\ r \in Seq(Task) /\ Len(r) = Len(q) - 1
        /\ \A k \in 1 .. Len(q) - 1 : r[k] = IF k < i THEN q[k] ELSE q[k + 1]
    BY RemoveAtIsShift
  <2>4. i \in 1 .. Len(q) /\ Len(q) \in Nat /\ DOMAIN q = 1 .. Len(q)
    OBVIOUS
  <2>5. DOMAIN r = 1 .. Len(q) - 1
    BY <2>3, <2>4
  <2> HIDE DEF r
  <2>6. IsInjective(r)
    <3> DEFINE from(k) == IF k < i THEN k ELSE k + 1
    <3>1. ASSUME NEW k \in DOMAIN r PROVE from(k) \in DOMAIN q /\ r[k] = q[from(k)]
      BY <2>3, <2>4, <2>5
    <3>2. ASSUME NEW k \in DOMAIN r, NEW l \in DOMAIN r, from(k) = from(l) PROVE k = l
      BY <2>4, <2>5, <3>2
    <3> HIDE DEF from
    <3>3. ASSUME NEW k \in DOMAIN r, NEW l \in DOMAIN r, r[k] = r[l] PROVE k = l
      <4>1. q[from(k)] = q[from(l)] /\ from(k) \in DOMAIN q /\ from(l) \in DOMAIN q
        BY <3>1, <3>3
      <4>2. from(k) = from(l)
        BY <4>1 DEF IsInjective
      <4> QED BY <3>2, <4>2
    <3> QED BY <3>3 DEF IsInjective
  <2>7. ToSet(r) = ToSet(q) \ {t}
    <3>1. ASSUME NEW x \in ToSet(r) PROVE x \in ToSet(q) \ {t}
      <4>1. PICK k \in 1 .. Len(q) - 1 : r[k] = x
        BY <2>5 DEF ToSet
      <4>2. PICK j \in 1 .. Len(q) : j # i /\ q[j] = x
        <5>1. CASE k < i
          BY <2>3, <2>4, <4>1, <5>1
        <5>2. CASE ~(k < i)
          BY <2>3, <2>4, <4>1, <5>2
        <5> QED BY <5>1, <5>2
      <4> QED BY <2>1, <2>4, <4>2 DEF ToSet, IsInjective
    <3>2. ASSUME NEW x \in ToSet(q) \ {t} PROVE x \in ToSet(r)
      <4>1. PICK k \in 1 .. Len(q) : q[k] = x
        BY <2>4 DEF ToSet
      <4>2. k # i
        BY <2>1, <4>1
      <4>3. CASE k < i
        <5>1. k \in 1 .. Len(q) - 1 /\ r[k] = x
          BY <2>3, <2>4, <4>1, <4>3
        <5> QED BY <2>5, <5>1 DEF ToSet
      <4>4. CASE k > i
        <5>1. k - 1 \in 1 .. Len(q) - 1 /\ r[k - 1] = x
          BY <2>3, <2>4, <4>1, <4>4
        <5> QED BY <2>5, <5>1 DEF ToSet
      <4> QED BY <2>4, <4>2, <4>3, <4>4
    <3> QED BY <3>1, <3>2
  <2> QED BY <2>2, <2>3, <2>6, <2>7
<1>2. CASE ~\E i \in DOMAIN q : q[i] = t
  BY <1>2 DEF LRem, ToSet
<1> QED BY <1>1, <1>2

\* RPUSH of an id that is not in the list.
LEMMA RPushAdds ==
    ASSUME NEW q \in Seq(Task), IsInjective(q), NEW t \in Task, t \notin ToSet(q)
    PROVE  /\ Append(q, t) \in Seq(Task)
           /\ IsInjective(Append(q, t))
           /\ ToSet(Append(q, t)) = ToSet(q) \cup {t}
<1>1. /\ Append(q, t) \in Seq(Task) /\ Len(q) \in Nat
      /\ DOMAIN Append(q, t) = 1 .. Len(q) + 1 /\ DOMAIN q = 1 .. Len(q)
      /\ \A i \in 1 .. Len(q) : Append(q, t)[i] = q[i]
      /\ Append(q, t)[Len(q) + 1] = t
  OBVIOUS
<1>2. IsInjective(Append(q, t))
  BY <1>1 DEF IsInjective, ToSet
<1>3. ToSet(Append(q, t)) = ToSet(q) \cup {t}
  <2>1. ASSUME NEW x \in ToSet(q) PROVE x \in ToSet(Append(q, t))
    <3>1. PICK i \in 1 .. Len(q) : q[i] = x
      BY <1>1 DEF ToSet
    <3>2. i \in 1 .. Len(q) + 1 /\ Append(q, t)[i] = x
      BY <1>1, <3>1
    <3> QED BY <1>1, <3>2 DEF ToSet
  <2>2. t \in ToSet(Append(q, t))
    <3>1. Len(q) + 1 \in DOMAIN Append(q, t)
      BY <1>1
    <3> QED BY <1>1, <3>1 DEF ToSet
  <2>3. ASSUME NEW x \in ToSet(Append(q, t)) PROVE x \in ToSet(q) \cup {t}
    BY <1>1 DEF ToSet
  <2> QED BY <2>1, <2>2, <2>3
<1> QED BY <1>1, <1>2, <1>3

(***************************************************************************)
(* The inductive invariant. A task is known once its own Enqueue has sent  *)
(* SET (or has stopped before it); only a known task can be held by an     *)
(* update, a session or a document. Until then exactly one goroutine, its  *)
(* submitter, mentions it, so nobody can send LREM for it between RPUSH    *)
(* and SET.                                                                *)
(***************************************************************************)
Known(t) == t \in issued /\ ~Submitting(t)

Updates == {"zadd", "set", "lrem"}
Submits == {"rpush", "setnew"}

OpsHaveTasks ==
    \A c \in Client : op[c].cmd \in Updates \cup Submits => op[c].task \in Task

UpdatesAreOfKnownTasks ==
    \A c \in Client : op[c].cmd \in Updates => Known(op[c].task)

UpdatesAreNotPending ==
    \A c \in Client : op[c].cmd = "set" => op[c].status # "pending"

SubmitterIsAlone ==
    \A c \in Client : op[c].cmd \in Submits =>
        /\ op[c].task \in issued
        /\ op[c].cmd = "rpush" <=> op[c].task \notin Queued
        /\ \A d \in Client : op[d].cmd \in Submits /\ op[d].task = op[c].task => d = c

DocumentsAreKnown == \A t \in Task : data[t] # "absent" => Known(t)

SessionsHoldKnownTasks ==
    \A s \in Session : /\ cur[s] # NoTask => Known(cur[s])
                       /\ \A i \in DOMAIN pend[s] : Known(pend[s][i])

QueuedAreIssued == Queued \subseteq issued

RemovedAreNotPending ==
    \A c \in Client : op[c].cmd = "lrem" => data[op[c].task] # "pending"

IInv ==
    /\ TypeOK
    /\ OpsHaveTasks
    /\ UpdatesAreOfKnownTasks
    /\ UpdatesAreNotPending
    /\ SubmitterIsAlone
    /\ DocumentsAreKnown
    /\ SessionsHoldKnownTasks
    /\ QueuedAreIssued
    /\ RemovedAreNotPending
    /\ PendingIsQueued
    /\ FifoIsDuplicateFree

\* Nothing is queued, stored or under way at the start.
LEMMA InitIInv == Init => IInv
BY DEF Init, IInv, TypeOK, OpsHaveTasks, UpdatesAreOfKnownTasks, UpdatesAreNotPending,
       SubmitterIsAlone, DocumentsAreKnown, SessionsHoldKnownTasks, QueuedAreIssued,
       RemovedAreNotPending, PendingIsQueued, FifoIsDuplicateFree, Queued, ToSet,
       IsInjective, Idle, Op, Command, Status, Terminal, Updates, Submits

\* A new submission is of a task nobody mentions.
LEMMA EnqueueStartIInv ==
    ASSUME IInv, NEW c \in Client, NEW t \in Task, EnqueueStart(c, t)
    PROVE  IInv'
<1> USE DEF IInv, EnqueueStart
<1>1. TypeOK'
  BY DEF TypeOK, Op, Command, Status
<1>2. op' = [op EXCEPT ![c] = [cmd |-> "rpush", task |-> t, status |-> "pending"]]
  OBVIOUS
<1>3. /\ op'[c] = [cmd |-> "rpush", task |-> t, status |-> "pending"]
      /\ \A d \in Client : d # c => op'[d] = op[d]
      /\ op[c].cmd = "idle"
  BY <1>2 DEF TypeOK, Idle
<1>4. \A u : Known(u) => Known(u)'
  BY <1>3 DEF Known, Submitting
<1>5. OpsHaveTasks' /\ UpdatesAreOfKnownTasks' /\ UpdatesAreNotPending'
  BY <1>3, <1>4 DEF OpsHaveTasks, UpdatesAreOfKnownTasks, UpdatesAreNotPending,
                    Updates, Submits
<1>6. SubmitterIsAlone'
  <2>1. t \notin Queued
    BY DEF QueuedAreIssued
  <2>2. \A d \in Client : op[d].cmd \in Submits => op[d].task # t
    BY DEF SubmitterIsAlone
  <2> QED BY <1>3, <2>1, <2>2 DEF SubmitterIsAlone, Submits, Queued
<1>7. DocumentsAreKnown' /\ SessionsHoldKnownTasks'
  BY <1>4 DEF DocumentsAreKnown, SessionsHoldKnownTasks
<1>8. QueuedAreIssued' /\ RemovedAreNotPending' /\ PendingIsQueued' /\ FifoIsDuplicateFree'
  BY <1>3 DEF QueuedAreIssued, RemovedAreNotPending, PendingIsQueued,
              FifoIsDuplicateFree, Queued
<1> QED BY <1>1, <1>5, <1>6, <1>7, <1>8

\* RPUSH adds the submitter's task, which was not in the list.
LEMMA EnqueueRPushIInv ==
    ASSUME IInv, NEW c \in Client, EnqueueRPush(c)
    PROVE  IInv'
<1> DEFINE t == op[c].task
<1> USE DEF IInv, EnqueueRPush
<1>1. t \in Task /\ t \in issued /\ t \notin Queued
  BY DEF OpsHaveTasks, SubmitterIsAlone, Submits
<1>2. /\ fifo' \in Seq(Task) /\ IsInjective(fifo')
      /\ Queued' = Queued \cup {t}
  BY <1>1, RPushAdds DEF TypeOK, FifoIsDuplicateFree, Queued
<1>3. /\ op'[c].cmd = "setnew" /\ op'[c].task = t
      /\ \A d \in Client : d # c => op'[d] = op[d]
  BY DEF TypeOK, Op
<1>4. TypeOK'
  BY <1>2, ZenonT(30) DEF TypeOK, Op, Command
<1>5. \A u : Known(u) <=> Known(u)'
  BY <1>3 DEF Known, Submitting
<1>6. OpsHaveTasks' /\ UpdatesAreOfKnownTasks' /\ UpdatesAreNotPending'
  BY <1>1, <1>3, <1>5 DEF OpsHaveTasks, UpdatesAreOfKnownTasks, UpdatesAreNotPending,
                    Updates, Submits
<1>7. SubmitterIsAlone'
  BY <1>1, <1>2, <1>3 DEF SubmitterIsAlone, Submits
<1>8. DocumentsAreKnown' /\ SessionsHoldKnownTasks'
  BY <1>5 DEF DocumentsAreKnown, SessionsHoldKnownTasks
<1>9. QueuedAreIssued' /\ RemovedAreNotPending' /\ PendingIsQueued' /\ FifoIsDuplicateFree'
  BY <1>1, <1>2, <1>3 DEF QueuedAreIssued, RemovedAreNotPending, PendingIsQueued,
              FifoIsDuplicateFree
<1> QED BY <1>4, <1>6, <1>7, <1>8, <1>9

\* SET makes the submitter's task known; its id is in the list, and no
\* LREM of it is under way because only known tasks are removed.
LEMMA EnqueueSetIInv ==
    ASSUME IInv, NEW c \in Client, EnqueueSet(c)
    PROVE  IInv'
<1> DEFINE t == op[c].task
<1> USE DEF IInv, EnqueueSet
<1>1. t \in Task /\ t \in issued /\ t \in Queued
  BY DEF OpsHaveTasks, SubmitterIsAlone, Submits
<1>2. /\ op'[c].cmd = "zadd" /\ op'[c].task = t
      /\ \A d \in Client : d # c => op'[d] = op[d]
  BY DEF TypeOK, Op
<1>3. TypeOK'
  BY <1>1, ZenonT(30) DEF TypeOK, Op, Command, Status
<1>4. \A u : Known(u) => Known(u)'
  BY <1>2 DEF Known, Submitting
<1>5. Known(t)'
  BY <1>1, <1>2 DEF Known, Submitting, SubmitterIsAlone, Submits
<1>6. OpsHaveTasks' /\ UpdatesAreOfKnownTasks' /\ UpdatesAreNotPending'
  BY <1>1, <1>2, <1>4, <1>5 DEF OpsHaveTasks, UpdatesAreOfKnownTasks,
                    UpdatesAreNotPending, Updates, Submits
<1>7. SubmitterIsAlone'
  BY <1>2 DEF SubmitterIsAlone, Submits, Queued
<1>8. DocumentsAreKnown' /\ SessionsHoldKnownTasks'
  BY <1>4, <1>5 DEF DocumentsAreKnown, SessionsHoldKnownTasks, TypeOK
<1>9. RemovedAreNotPending'
  <2>1. \A d \in Client : op[d].cmd = "lrem" => op[d].task # t
    BY DEF UpdatesAreOfKnownTasks, Updates, Known, Submitting
  <2> QED BY <1>2, <2>1 DEF RemovedAreNotPending, TypeOK
<1>10. QueuedAreIssued' /\ PendingIsQueued' /\ FifoIsDuplicateFree'
  BY <1>1 DEF QueuedAreIssued, PendingIsQueued, FifoIsDuplicateFree, Queued, TypeOK
<1> QED BY <1>3, <1>6, <1>7, <1>8, <1>9, <1>10

\* SET of an update writes a known task with a status other than pending.
LEMMA UpdateSetIInv ==
    ASSUME IInv, NEW c \in Client, UpdateSet(c)
    PROVE  IInv'
<1> DEFINE t == op[c].task
<1> USE DEF IInv, UpdateSet
<1>1. t \in Task /\ Known(t) /\ op[c].status \in Status \ {"pending"}
  BY DEF OpsHaveTasks, UpdatesAreOfKnownTasks, UpdatesAreNotPending, Updates, TypeOK, Op
<1>2. /\ op'[c].cmd \in {"lrem", "idle"}
      /\ op'[c].cmd = "lrem" => op'[c].task = t
      /\ op'[c] \in Op
      /\ \A d \in Client : d # c => op'[d] = op[d]
  BY <1>1 DEF TypeOK, Op, Command, Idle, Status
<1>3. TypeOK'
  BY <1>1, <1>2 DEF TypeOK
<1>4. \A u : Known(u) => Known(u)'
  BY <1>2 DEF Known, Submitting
<1>5. OpsHaveTasks' /\ UpdatesAreOfKnownTasks' /\ UpdatesAreNotPending'
  BY <1>1, <1>2, <1>4 DEF OpsHaveTasks, UpdatesAreOfKnownTasks,
                    UpdatesAreNotPending, Updates, Submits
<1>6. SubmitterIsAlone'
  BY <1>2 DEF SubmitterIsAlone, Submits, Queued
<1>7. DocumentsAreKnown' /\ SessionsHoldKnownTasks'
  BY <1>1, <1>4 DEF DocumentsAreKnown, SessionsHoldKnownTasks, TypeOK
<1>8. RemovedAreNotPending'
  BY <1>1, <1>2 DEF RemovedAreNotPending, TypeOK
<1>9. QueuedAreIssued' /\ PendingIsQueued' /\ FifoIsDuplicateFree'
  BY <1>1 DEF QueuedAreIssued, PendingIsQueued, FifoIsDuplicateFree, Queued, TypeOK
<1> QED BY <1>3, <1>5, <1>6, <1>7, <1>8, <1>9

\* LREM takes out a task that is not pending and that nobody is submitting.
LEMMA UpdateLRemIInv ==
    ASSUME IInv, NEW c \in Client, UpdateLRem(c)
    PROVE  IInv'
<1> DEFINE t == op[c].task
<1> USE DEF IInv, UpdateLRem
<1>1. t \in Task /\ Known(t) /\ data[t] # "pending"
  BY DEF OpsHaveTasks, UpdatesAreOfKnownTasks, RemovedAreNotPending, Updates
<1>2. /\ fifo' \in Seq(Task) /\ IsInjective(fifo')
      /\ Queued' = Queued \ {t}
  BY <1>1, LRemRemoves DEF TypeOK, FifoIsDuplicateFree, Queued
<1>3. /\ op'[c] = Idle
      /\ \A d \in Client : d # c => op'[d] = op[d]
  BY DEF TypeOK
<1>4. TypeOK'
  BY <1>2 DEF TypeOK, Idle, Op, Command, Status
<1>5. \A u : Known(u) => Known(u)'
  BY <1>3 DEF Known, Submitting, Idle
<1>6. OpsHaveTasks' /\ UpdatesAreOfKnownTasks' /\ UpdatesAreNotPending'
  BY <1>3, <1>5 DEF OpsHaveTasks, UpdatesAreOfKnownTasks,
                    UpdatesAreNotPending, Updates, Submits, Idle
<1>7. SubmitterIsAlone'
  BY <1>1, <1>2, <1>3 DEF SubmitterIsAlone, Submits, Idle, Known, Submitting
<1>8. DocumentsAreKnown' /\ SessionsHoldKnownTasks'
  BY <1>5 DEF DocumentsAreKnown, SessionsHoldKnownTasks
<1>9. RemovedAreNotPending'
  BY <1>3 DEF RemovedAreNotPending, Idle
<1>10. QueuedAreIssued' /\ PendingIsQueued' /\ FifoIsDuplicateFree'
  BY <1>1, <1>2 DEF QueuedAreIssued, PendingIsQueued, FifoIsDuplicateFree
<1> QED BY <1>4, <1>6, <1>7, <1>8, <1>9, <1>10

\* What the remaining actions leave of a session: known tasks only.
SessionShrinks ==
    /\ \A s \in Session : cur'[s] \in {cur[s], NoTask}
    /\ \A s \in Session : \A i \in DOMAIN pend'[s] : Known(pend'[s][i])

\* A goroutine ends its operation or reads: nothing is submitted or stored.
LEMMA WithdrawIInv ==
    ASSUME IInv, TypeOK', SessionShrinks,
           \A d \in Client : op'[d] = op[d] \/ op'[d].cmd \in {"idle", "scan"},
           \A t \in Task : data'[t] \in {data[t], "absent"},
           fifo' = fifo, issued' = issued
    PROVE  IInv'
<1> USE DEF IInv
<1>1. \A u : Known(u) => Known(u)'
  BY DEF Known, Submitting
<1>2. OpsHaveTasks' /\ UpdatesAreOfKnownTasks' /\ UpdatesAreNotPending'
  BY <1>1 DEF OpsHaveTasks, UpdatesAreOfKnownTasks, UpdatesAreNotPending,
              Updates, Submits
<1>3. SubmitterIsAlone'
  BY DEF SubmitterIsAlone, Submits, Queued
<1>4. DocumentsAreKnown' /\ SessionsHoldKnownTasks'
  BY <1>1 DEF DocumentsAreKnown, SessionsHoldKnownTasks, SessionShrinks
<1>5. RemovedAreNotPending'
  <2>1. \A d \in Client : op'[d].cmd = "lrem" => op'[d] = op[d]
    OBVIOUS
  <2>2. \A d \in Client : op[d].cmd = "lrem" => op[d].task \in Task
    BY DEF OpsHaveTasks, Updates
  <2> QED BY <2>1, <2>2 DEF RemovedAreNotPending
<1>6. QueuedAreIssued' /\ PendingIsQueued' /\ FifoIsDuplicateFree'
  BY DEF QueuedAreIssued, PendingIsQueued, FifoIsDuplicateFree, Queued
<1> QED BY <1>2, <1>3, <1>4, <1>5, <1>6

\* A goroutine begins an update of a known task.
LEMMA StartUpdateIInv ==
    ASSUME IInv, TypeOK', SessionShrinks,
           NEW c \in Client, NEW t \in Task, NEW status \in Status \ {"pending"},
           op[c] = Idle, Known(t), UpdateStatus(c, t, status),
           data' = data, fifo' = fifo, issued' = issued
    PROVE  IInv'
<1> USE DEF IInv
<1>1. /\ op'[c] = [cmd |-> "set", task |-> t, status |-> status]
      /\ \A d \in Client : d # c => op'[d] = op[d]
  BY DEF UpdateStatus, TypeOK
<1>2. \A u : Known(u) => Known(u)'
  BY <1>1 DEF Known, Submitting
<1>3. OpsHaveTasks' /\ UpdatesAreOfKnownTasks' /\ UpdatesAreNotPending'
  BY <1>1, <1>2 DEF OpsHaveTasks, UpdatesAreOfKnownTasks, UpdatesAreNotPending,
                    Updates, Submits
<1>4. SubmitterIsAlone'
  BY <1>1 DEF SubmitterIsAlone, Submits, Queued
<1>5. DocumentsAreKnown' /\ SessionsHoldKnownTasks'
  BY <1>2 DEF DocumentsAreKnown, SessionsHoldKnownTasks, SessionShrinks
<1>6. RemovedAreNotPending'
  BY <1>1 DEF RemovedAreNotPending
<1>7. QueuedAreIssued' /\ PendingIsQueued' /\ FifoIsDuplicateFree'
  BY DEF QueuedAreIssued, PendingIsQueued, FifoIsDuplicateFree, Queued
<1> QED BY <1>3, <1>4, <1>5, <1>6, <1>7

\* An API goroutine submits a new task or begins an update of a stored one.
LEMMA ApiStepIInv ==
    ASSUME IInv, NEW c \in Api, ApiStep(c)
    PROVE  IInv'
<1> PICK t \in Task : \/ EnqueueStart(c, t)
                      \/ Cancel(c, t)
                      \/ \E outcome \in {"done", "failed"} : TransferComplete(c, t, outcome)
  BY DEF ApiStep
<1>0. c \in Client
  BY DEF Client
<1>1. CASE EnqueueStart(c, t)
  BY <1>0, <1>1, EnqueueStartIInv
<1>2. ASSUME NEW status \in {"cancelled", "done", "failed"}, op[c] = Idle,
             data[t] # "absent", UpdateStatus(c, t, status),
             UNCHANGED <<data, fifo, index, issued, scan, pend, cur, faults>>
      PROVE  IInv'
  <2>1. Known(t)
    BY <1>2 DEF IInv, DocumentsAreKnown
  <2>2. TypeOK'
    BY <1>0, <1>2 DEF IInv, TypeOK, UpdateStatus, Op, Command, Status, Terminal
  <2>3. SessionShrinks
    BY <1>2 DEF IInv, SessionShrinks, SessionsHoldKnownTasks
  <2> QED BY <1>0, <1>2, <2>1, <2>2, <2>3, StartUpdateIInv DEF Status, Terminal
<1>3. CASE Cancel(c, t)
  BY <1>2, <1>3 DEF Cancel, IInv, TypeOK, Status, Terminal
<1>4. CASE \E outcome \in {"done", "failed"} : TransferComplete(c, t, outcome)
  BY <1>2, <1>4 DEF TransferComplete
<1> QED BY <1>1, <1>3, <1>4

\* A session reads the list, or begins an update of a task it holds.
LEMMA SessionStepIInv ==
    ASSUME IInv, NEW s \in Session, SessionStep(s)
    PROVE  IInv'
<1>0. s \in Client
  BY DEF Client
<1> USE DEF IInv
<1>a. \A r \in Session : \A i \in DOMAIN pend[r] : Known(pend[r][i])
  BY DEF SessionsHoldKnownTasks
<1>1. CASE DequeueLRange(s)
  <2> USE <1>1 DEF DequeueLRange
  <2>0. /\ op' \in [Client -> Op]
        /\ scan' \in [Session -> Seq(Task)] /\ pend' \in [Session -> Seq(Task)]
    <3>1. op[s] \in Op
      BY <1>0 DEF TypeOK
    <3>2. [op[s] EXCEPT !.cmd = "scan"] \in Op
      BY <3>1 DEF Op, Command
    <3>3. op' = [op EXCEPT ![s] = [op[s] EXCEPT !.cmd = "scan"]]
      BY DEF TypeOK
    <3>4. op' \in [Client -> Op]
      BY <1>0, <3>2, <3>3 DEF TypeOK
    <3>5. <<>> \in Seq(Task) /\ fifo \in Seq(Task)
      BY DEF TypeOK
    <3> QED BY <3>4, <3>5 DEF TypeOK
  <2>1. TypeOK'
    BY <2>0 DEF TypeOK
  <2>2. SessionShrinks
    BY <1>a DEF SessionShrinks, TypeOK
  <2>3. \A d \in Client : op'[d] = op[d] \/ op'[d].cmd \in {"idle", "scan"}
    BY DEF TypeOK
  <2> QED BY <2>1, <2>2, <2>3, WithdrawIInv DEF TypeOK
<1>2. CASE DequeueFetch(s)
  <2> USE <1>2 DEF DequeueFetch
  <2> DEFINE t == Head(scan[s])
  <2>1. t \in Task /\ Tail(scan[s]) \in Seq(Task)
    BY DEF TypeOK
  <2>2. pend'[s] \in Seq(Task) /\ \A r \in Session : r # s => pend'[r] = pend[r]
    BY <2>1 DEF TypeOK
  <2>3. TypeOK'
    BY <2>1, <2>2 DEF TypeOK
  <2>4. \A i \in DOMAIN pend'[s] : Known(pend'[s][i])
    <3>1. CASE data[t] = "pending"
      <4>1. Known(t)
        BY <2>1, <3>1 DEF DocumentsAreKnown
      <4>2. pend'[s] = Append(pend[s], t) /\ pend[s] \in Seq(Task)
        BY <3>1 DEF TypeOK
      <4> QED BY <1>a, <2>1, <4>1, <4>2
    <3>2. CASE data[t] # "pending"
      BY <1>a, <3>2 DEF TypeOK
    <3> QED BY <3>1, <3>2
  <2>5. SessionShrinks
    BY <1>a, <2>2, <2>4 DEF SessionShrinks
  <2> QED BY <2>3, <2>5, WithdrawIInv DEF TypeOK
<1>3. CASE DequeueReturn(s)
  <2> USE <1>3 DEF DequeueReturn
  <2>1. TypeOK'
    BY <1>0 DEF TypeOK, Op, Command, Idle, Status
  <2>2. SessionShrinks
    BY <1>a DEF SessionShrinks
  <2>3. \A d \in Client : op'[d] = op[d] \/ op'[d].cmd \in {"idle", "scan"}
    BY DEF TypeOK, Idle
  <2> QED BY <2>1, <2>2, <2>3, WithdrawIInv DEF TypeOK
<1>4. CASE DispatchNext(s)
  <2> USE <1>4 DEF DispatchNext
  <2>1. pend[s] \in Seq(Task) /\ pend[s] # <<>>
    BY DEF TypeOK
  <2>2. Head(pend[s]) \in Task /\ Known(Head(pend[s]))
    BY <1>a, <2>1
  <2>3. TypeOK'
    BY <1>0, <2>1, <2>2 DEF TypeOK, UpdateStatus, Op, Command, Status
  <2>4. SessionShrinks
    <3>1. \A i \in DOMAIN Tail(pend[s]) : Known(Tail(pend[s])[i])
      BY <1>a, <2>1
    <3> QED BY <1>a, <3>1 DEF SessionShrinks, TypeOK
  <2> QED BY <1>0, <2>2, <2>3, <2>4, StartUpdateIInv DEF Status
<1>5. CASE DispatchAgain(s)
  <2> USE <1>5 DEF DispatchAgain
  <2>1. cur[s] \in Task /\ Known(cur[s])
    BY DEF TypeOK, SessionsHoldKnownTasks
  <2>2. TypeOK'
    BY <1>0, <2>1 DEF TypeOK, UpdateStatus, Op, Command, Status
  <2>3. SessionShrinks
    BY <1>a DEF SessionShrinks
  <2> QED BY <1>0, <2>1, <2>2, <2>3, StartUpdateIInv DEF Status
<1>6. CASE \E outcome \in {"done", "failed"} : Complete(s, outcome)
  <2> PICK outcome \in {"done", "failed"} : Complete(s, outcome)
    BY <1>6
  <2> USE DEF Complete
  <2>1. cur[s] \in Task /\ Known(cur[s])
    BY DEF TypeOK, SessionsHoldKnownTasks
  <2>2. TypeOK'
    BY <1>0, <2>1 DEF TypeOK, UpdateStatus, Op, Command, Status, Terminal
  <2>3. SessionShrinks
    BY <1>a DEF SessionShrinks, TypeOK
  <2> QED BY <1>0, <2>1, <2>2, <2>3, StartUpdateIInv DEF Status, Terminal
<1> QED BY <1>1, <1>2, <1>3, <1>4, <1>5, <1>6 DEF SessionStep

\* ZADD, expiry, errors and restarts store nothing new.
LEMMA EnvironmentIInv ==
    ASSUME IInv,
           \/ \E c \in Client : EnqueueZAdd(c) \/ RedisError(c)
           \/ \E t \in Task : ExpireData(t)
           \/ ExpireIndex
           \/ Restart
    PROVE  IInv'
<1> USE DEF IInv
<1>a. /\ \A s \in Session : \A i \in DOMAIN pend[s] : Known(pend[s][i])
      /\ Idle \in Op /\ Idle.cmd = "idle"
  BY DEF SessionsHoldKnownTasks, Idle, Op, Command, Status
<1>1. ASSUME NEW c \in Client, EnqueueZAdd(c)
      PROVE  IInv'
  <2> USE <1>1 DEF EnqueueZAdd
  <2>1. op[c].task \in Task
    BY DEF OpsHaveTasks, Updates
  <2>2. TypeOK'
    BY <1>a, <2>1 DEF TypeOK
  <2>3. SessionShrinks
    BY <1>a DEF SessionShrinks
  <2> QED BY <1>a, <2>2, <2>3, WithdrawIInv DEF TypeOK
<1>2. ASSUME NEW c \in Client, RedisError(c)
      PROVE  IInv'
  <2> USE <1>2 DEF RedisError
  <2>1. /\ op' \in [Client -> Op]
        /\ \A d \in Client : op'[d] = op[d] \/ op'[d].cmd \in {"idle", "scan"}
    BY <1>a DEF TypeOK
  <2>2. scan' \in [Session -> Seq(Task)]
    <3>1. ASSUME NEW s \in Session, scan[s] # <<>> PROVE Tail(scan[s]) \in Seq(Task)
      BY <3>1 DEF TypeOK
    <3> QED BY <3>1 DEF TypeOK
  <2>3. TypeOK'
    BY <2>1, <2>2 DEF TypeOK
  <2>4. SessionShrinks
    BY <1>a DEF SessionShrinks
  <2> QED BY <2>1, <2>3, <2>4, WithdrawIInv DEF TypeOK
<1>3. ASSUME NEW t \in Task, ExpireData(t)
      PROVE  IInv'
  <2> USE <1>3 DEF ExpireData
  <2>1. TypeOK'
    BY DEF TypeOK
  <2>2. SessionShrinks
    BY <1>a DEF SessionShrinks
  <2> QED BY <2>1, <2>2, WithdrawIInv DEF TypeOK
<1>4. CASE ExpireIndex
  <2>1. TypeOK' /\ SessionShrinks
    BY <1>4, <1>a DEF ExpireIndex, TypeOK, SessionShrinks
  <2> QED BY <1>4, <2>1, WithdrawIInv DEF ExpireIndex, TypeOK
<1>5. CASE Restart
  <2>1. TypeOK' /\ SessionShrinks
    BY <1>5, <1>a DEF Restart, TypeOK, SessionShrinks
  <2> QED BY <1>5, <1>a, <2>1, WithdrawIInv DEF Restart, TypeOK
<1> QED BY <1>1, <1>2, <1>3, <1>4, <1>5

\* Every step keeps the inductive invariant.
LEMMA NextIInv == IInv /\ [Next]_vars => IInv'
<1> SUFFICES ASSUME IInv, [Next]_vars
             PROVE  IInv'
  OBVIOUS
<1>1. ASSUME NEW c \in Client, CommandStep(c)
      PROVE  IInv'
  BY <1>1, EnqueueRPushIInv, EnqueueSetIInv, EnvironmentIInv, UpdateSetIInv,
     UpdateLRemIInv DEF CommandStep
<1>2. ASSUME NEW c \in Api, ApiStep(c)
      PROVE  IInv'
  BY <1>2, ApiStepIInv
<1>3. ASSUME NEW s \in Session, SessionStep(s)
      PROVE  IInv'
  BY <1>3, SessionStepIInv
<1>4. ASSUME NEW c \in Client, RedisError(c)
      PROVE  IInv'
  BY <1>4, EnvironmentIInv
<1>5. CASE UNCHANGED vars
  <2>1. \A u : Known(u) <=> Known(u)'
    BY <1>5 DEF Known, Submitting, vars
  <2> QED BY <1>5, <2>1 DEF vars, IInv, TypeOK, OpsHaveTasks, UpdatesAreOfKnownTasks,
       UpdatesAreNotPending, SubmitterIsAlone, DocumentsAreKnown, SessionsHoldKnownTasks,
       QueuedAreIssued, RemovedAreNotPending, PendingIsQueued, FifoIsDuplicateFree, Queued
<1> QED BY <1>1, <1>2, <1>3, <1>4, <1>5, EnvironmentIInv DEF Next

(***************************************************************************)
(* The theorems.                                                           *)
(***************************************************************************)

\* So it holds in every reachable state.
LEMMA InductiveInvariant == Spec => []IInv
BY InitIInv, NextIInv, PTL DEF Spec

\* Every variable keeps its type, in every execution of the queue.
THEOREM TypeCorrect == Spec => []TypeOK
BY InductiveInvariant, PTL DEF IInv

\* A pending task is never out of reach of DequeuePending, for any number
\* of concurrent sessions, API requests, Redis errors and restarts.
THEOREM PendingReachable == Spec => []PendingIsQueued
BY InductiveInvariant, PTL DEF IInv

\* The FIFO never holds an id twice.
THEOREM NoDuplicateIds == Spec => []FifoIsDuplicateFree
BY InductiveInvariant, PTL DEF IInv

\* Finished tasks leave the FIFO while nothing fails: a finished task that
\* is still listed has an LREM on its way.
THEOREM FinishedTasksLeave == Spec => []FinishedLeavesFifo
<1>1. Init => FinishedLeavesFifo
  BY DEF Init, FinishedLeavesFifo, Terminal
<1>2. IInv /\ FinishedLeavesFifo /\ [Next]_vars => FinishedLeavesFifo'
  <2> SUFFICES ASSUME IInv, FinishedLeavesFifo, [Next]_vars, faults' = 0,
                      NEW t \in Task, data'[t] \in Terminal, t \in Queued'
               PROVE  \E c \in Client : op'[c].cmd = "lrem" /\ op'[c].task = t
    BY DEF FinishedLeavesFifo
  <2> USE DEF IInv
  <2>0. \A c \in Client, u \in Task : op[c] = Idle => op[c].cmd # "lrem"
    BY DEF Idle
  <2> DEFINE Removing == \E c \in Client : op[c].cmd = "lrem" /\ op[c].task = t
  <2>1. ASSUME faults = 0, data[t] \in Terminal, t \in Queued
        PROVE  Removing
    BY <2>1 DEF FinishedLeavesFifo
  <2>2. ASSUME NEW c \in Client, EnqueueRPush(c)
        PROVE  Removing'
    <3>1. op[c].task \in Task /\ op[c].task \notin Queued /\ ~Known(op[c].task)
      BY <2>2 DEF EnqueueRPush, OpsHaveTasks, SubmitterIsAlone, Submits, Known, Submitting
    <3>2. Queued' = Queued \cup {op[c].task}
      BY <2>2, <3>1, RPushAdds DEF EnqueueRPush, TypeOK, FifoIsDuplicateFree, Queued
    <3>3. data[op[c].task] = "absent" /\ data' = data
      BY <2>2, <3>1 DEF EnqueueRPush, DocumentsAreKnown
    <3>4. t \in Queued /\ data[t] \in Terminal
      BY <3>2, <3>3 DEF Terminal
    <3>5. PICK d \in Client : op[d].cmd = "lrem" /\ op[d].task = t
      BY <2>1, <2>2, <3>4 DEF EnqueueRPush
    <3>6. op'[d] = op[d]
      BY <2>2, <3>5 DEF EnqueueRPush, TypeOK
    <3> QED BY <3>5, <3>6
  <2>3. ASSUME NEW c \in Client, EnqueueSet(c) \/ EnqueueZAdd(c)
        PROVE  Removing'
    <3>1. fifo' = fifo /\ faults' = faults
      BY <2>3 DEF EnqueueSet, EnqueueZAdd
    <3>2. data[t] \in Terminal
      BY <2>3 DEF EnqueueSet, EnqueueZAdd, TypeOK, Terminal
    <3>3. PICK d \in Client : op[d].cmd = "lrem" /\ op[d].task = t
      BY <2>1, <3>1, <3>2 DEF Queued
    <3>4. op'[d] = op[d]
      BY <2>3, <3>3 DEF EnqueueSet, EnqueueZAdd, TypeOK
    <3> QED BY <3>3, <3>4
  <2>4. ASSUME NEW c \in Client, UpdateSet(c)
        PROVE  Removing'
    <3>1. CASE op[c].task = t
      BY <2>4, <3>1 DEF UpdateSet, TypeOK, Op
    <3>2. CASE op[c].task # t
      <4>1. data[t] \in Terminal /\ fifo' = fifo /\ faults' = faults
        BY <2>4, <3>2 DEF UpdateSet, TypeOK
      <4>2. PICK d \in Client : op[d].cmd = "lrem" /\ op[d].task = t
        BY <2>1, <4>1 DEF Queued
      <4>3. op'[d] = op[d]
        BY <2>4, <4>2 DEF UpdateSet, TypeOK
      <4> QED BY <4>2, <4>3
    <3> QED BY <3>1, <3>2
  <2>5. ASSUME NEW c \in Client, UpdateLRem(c)
        PROVE  Removing'
    <3>1. op[c].task \in Task
      BY <2>5 DEF UpdateLRem, OpsHaveTasks, Updates
    <3>2. Queued' = Queued \ {op[c].task}
      BY <2>5, <3>1, LRemRemoves DEF UpdateLRem, TypeOK, FifoIsDuplicateFree, Queued
    <3>3. PICK d \in Client : op[d].cmd = "lrem" /\ op[d].task = t
      BY <2>1, <2>5, <3>2 DEF UpdateLRem
    <3>4. d # c
      BY <3>2, <3>3
    <3>5. op'[d] = op[d]
      BY <2>5, <3>4 DEF UpdateLRem, TypeOK
    <3> QED BY <3>3, <3>5
  <2>6. ASSUME NEW c \in Client, op[c].cmd # "lrem",
               \A d \in Client : d # c => op'[d] = op[d],
               fifo' = fifo, faults' = faults, data[t] \in Terminal
        PROVE  Removing'
    <3>1. PICK d \in Client : op[d].cmd = "lrem" /\ op[d].task = t
      BY <2>1, <2>6 DEF Queued
    <3> QED BY <2>6, <3>1
  <2>7. ASSUME NEW c \in Api, ApiStep(c)
        PROVE  Removing'
    <3>1. c \in Client /\ op[c] = Idle
      BY <2>7 DEF Client, ApiStep, EnqueueStart, Cancel, TransferComplete
    <3>2. /\ fifo' = fifo /\ faults' = faults /\ data' = data
          /\ \A d \in Client : d # c => op'[d] = op[d]
      BY <2>7, <3>1 DEF ApiStep, EnqueueStart, Cancel, TransferComplete, UpdateStatus, TypeOK
    <3> QED BY <2>0, <2>6, <3>1, <3>2
  <2>8. ASSUME NEW s \in Session, SessionStep(s)
        PROVE  Removing'
    <3>1. s \in Client /\ op[s].cmd # "lrem"
      BY <2>8 DEF Client, SessionStep, DequeueLRange, DequeueFetch, DequeueReturn,
                  DispatchNext, DispatchAgain, Complete, Idle
    <3>2. /\ fifo' = fifo /\ faults' = faults /\ data' = data
          /\ \A d \in Client : d # s => op'[d] = op[d]
      BY <2>8, <3>1 DEF SessionStep, DequeueLRange, DequeueFetch, DequeueReturn,
                  DispatchNext, DispatchAgain, Complete, UpdateStatus, TypeOK
    <3> QED BY <2>6, <3>1, <3>2
  <2>9. ASSUME \E u \in Task : ExpireData(u)
        PROVE  Removing'
    <3>1. /\ data[t] \in Terminal /\ fifo' = fifo /\ op' = op /\ faults' = faults
      BY <2>9 DEF ExpireData, TypeOK, Terminal
    <3> QED BY <2>1, <3>1 DEF Queued
  <2>10. CASE ExpireIndex \/ UNCHANGED vars
    BY <2>1, <2>10 DEF ExpireIndex, vars, Queued
  <2>11. ASSUME Restart \/ \E c \in Client : RedisError(c)
         PROVE  FALSE
    BY <2>11 DEF Restart, RedisError, TypeOK
  <2> QED BY <2>2, <2>3, <2>4, <2>5, <2>7, <2>8, <2>9, <2>10, <2>11
          DEF Next, CommandStep
<1> QED BY <1>1, <1>2, InductiveInvariant, PTL DEF Spec

\* A step that stores nothing, issues nothing and neither begins nor ends a
\* submission is invisible to the callers.
LEMMA InvisibleStep ==
    ASSUME data' = data, issued' = issued,
           \A t \in Task : Submitting(t)' <=> Submitting(t)
    PROVE  lifecycle' = lifecycle
BY DEF lifecycle

\* The goroutine c changes its operation, but not to or from a submission.
LEMMA KeepsSubmissions ==
    ASSUME NEW c \in Client, op[c].cmd \notin Submits, op'[c].cmd \notin Submits,
           \A d \in Client : d # c => op'[d] = op[d]
    PROVE  \A t \in Task : Submitting(t)' <=> Submitting(t)
BY DEF Submitting, Submits

\* Every step of the queue is a step of TaskLifecycle or is invisible to it.
LEMMA StepRefines ==
    IInv /\ [Next]_vars => [TL!Next]_lifecycle
<1> SUFFICES ASSUME IInv, [Next]_vars
             PROVE  TL!Next \/ lifecycle' = lifecycle
  OBVIOUS
<1> USE DEF IInv
<1>0. \A u \in Task : /\ Submitting(u) => data[u] = "absent" /\ u \in issued
                      /\ Known(u) => lifecycle[u] # "new"
                      /\ data[u] # "absent" => lifecycle[u] = data[u]
  BY DEF DocumentsAreKnown, Known, Submitting, SubmitterIsAlone, Submits, lifecycle,
         TypeOK, Status, Terminal
<1>1. ASSUME NEW c \in Client, NEW t \in Task, EnqueueStart(c, t)
      PROVE  lifecycle' = lifecycle
  <2>1. data' = data /\ data[t] = "absent" /\ t \notin issued /\ issued' = issued \cup {t}
    BY <1>1 DEF EnqueueStart, DocumentsAreKnown, Known
  <2>2. /\ op'[c].cmd = "rpush" /\ op'[c].task = t /\ op[c].cmd = "idle"
        /\ \A d \in Client : d # c => op'[d] = op[d]
    BY <1>1 DEF EnqueueStart, TypeOK, Idle
  <2>3. Submitting(t)' /\ \A u \in Task \ {t} : Submitting(u)' <=> Submitting(u)
    BY <2>2 DEF Submitting
  <2> QED BY <2>1, <2>3 DEF lifecycle
<1>2. ASSUME NEW c \in Client, EnqueueRPush(c)
      PROVE  lifecycle' = lifecycle
  <2>1. /\ op'[c].cmd = "setnew" /\ op'[c].task = op[c].task /\ op[c].cmd = "rpush"
        /\ \A d \in Client : d # c => op'[d] = op[d]
    BY <1>2 DEF EnqueueRPush, TypeOK, Op
  <2>2. \A u \in Task : Submitting(u)' <=> Submitting(u)
    BY <2>1 DEF Submitting
  <2> QED BY <1>2, <2>2, InvisibleStep DEF EnqueueRPush
<1>3. ASSUME NEW c \in Client, EnqueueSet(c)
      PROVE  TL!Next
  <2> DEFINE t == op[c].task
  <2>1. t \in Task /\ Submitting(t)
    BY <1>3 DEF EnqueueSet, OpsHaveTasks, Submits, Submitting
  <2>2. /\ op'[c].cmd = "zadd" /\ op'[c].task = t
        /\ \A d \in Client : d # c => op'[d] = op[d]
    BY <1>3 DEF EnqueueSet, TypeOK, Op
  <2>3. \A u \in Task \ {t} : Submitting(u)' <=> Submitting(u)
    BY <2>2, <1>3 DEF Submitting, EnqueueSet
  <2>4. lifecycle[t] = "new"
    BY <1>0, <2>1 DEF lifecycle
  <2>5. data' = [data EXCEPT ![t] = "pending"] /\ issued' = issued
    BY <1>3 DEF EnqueueSet
  <2>6. lifecycle' = [lifecycle EXCEPT ![t] = "pending"]
    BY <2>1, <2>3, <2>5 DEF lifecycle, TypeOK
  <2> QED BY <2>1, <2>4, <2>6 DEF TL!Next, TL!Submit
<1>4. ASSUME NEW c \in Client, UpdateSet(c)
      PROVE  TL!Next
  <2> DEFINE t == op[c].task
             status == op[c].status
  <2>1. t \in Task /\ Known(t) /\ status \in TL!Updated /\ status # "absent"
    BY <1>4 DEF UpdateSet, OpsHaveTasks, UpdatesAreOfKnownTasks, UpdatesAreNotPending,
                Updates, TypeOK, Op, Status, Terminal, TL!Updated
  <2>2. /\ op[c].cmd = "set" /\ op'[c].cmd \in {"lrem", "idle"}
        /\ \A d \in Client : d # c => op'[d] = op[d]
    BY <1>4 DEF UpdateSet, TypeOK, Op, Idle
  <2>3. \A u \in Task : Submitting(u)' <=> Submitting(u)
    BY <2>2, KeepsSubmissions DEF Submits
  <2>4. data' = [data EXCEPT ![t] = status] /\ issued' = issued
    BY <1>4 DEF UpdateSet
  <2>5. lifecycle' = [lifecycle EXCEPT ![t] = status]
    BY <2>1, <2>3, <2>4 DEF lifecycle, TypeOK
  <2> QED BY <1>0, <2>1, <2>5 DEF TL!Next, TL!Update
<1>5. ASSUME NEW c \in Client, EnqueueZAdd(c) \/ UpdateLRem(c)
      PROVE  lifecycle' = lifecycle
  <2>1. /\ op[c].cmd \notin Submits /\ op'[c].cmd \notin Submits
        /\ \A d \in Client : d # c => op'[d] = op[d]
        /\ data' = data /\ issued' = issued
    BY <1>5 DEF EnqueueZAdd, UpdateLRem, TypeOK, Idle, Submits
  <2> QED BY <2>1, KeepsSubmissions, InvisibleStep
<1>6. ASSUME NEW c \in Api, ApiStep(c)
      PROVE  lifecycle' = lifecycle
  <2>1. c \in Client
    BY DEF Client
  <2>2. PICK t \in Task : \/ EnqueueStart(c, t)
                          \/ Cancel(c, t)
                          \/ \E o \in {"done", "failed"} : TransferComplete(c, t, o)
    BY <1>6 DEF ApiStep
  <2>3. CASE ~EnqueueStart(c, t)
    <3>1. /\ op[c].cmd \notin Submits /\ op'[c].cmd \notin Submits
          /\ \A d \in Client : d # c => op'[d] = op[d]
          /\ data' = data /\ issued' = issued
      BY <2>1, <2>2, <2>3 DEF Cancel, TransferComplete, UpdateStatus, TypeOK, Idle, Submits
    <3> QED BY <2>1, <3>1, KeepsSubmissions, InvisibleStep
  <2> QED BY <1>1, <2>1, <2>2, <2>3
<1>7. ASSUME NEW s \in Session, SessionStep(s)
      PROVE  lifecycle' = lifecycle
  <2>1. /\ s \in Client
        /\ op[s].cmd \notin Submits
        /\ data' = data /\ issued' = issued
    BY <1>7 DEF Client, SessionStep, DequeueLRange, DequeueFetch, DequeueReturn,
                DispatchNext, DispatchAgain, Complete, Idle, Submits
  <2>2. op' \in [Client -> Op]
    BY <1>7, NextIInv DEF Next, TypeOK
  <2>3. /\ op'[s].cmd \notin Submits
        /\ \A d \in Client : d # s => op'[d] = op[d]
    <3>1. CASE DequeueLRange(s)
      BY <2>1, <3>1 DEF DequeueLRange, TypeOK, Op, Submits
    <3>2. CASE DequeueFetch(s)
      BY <2>1, <3>2 DEF DequeueFetch, TypeOK, Submits
    <3>3. CASE DequeueReturn(s)
      BY <2>1, <3>3 DEF DequeueReturn, TypeOK, Idle, Submits
    <3>4. CASE DispatchNext(s) \/ DispatchAgain(s) \/ \E o \in {"done", "failed"} : Complete(s, o)
      BY <2>1, <3>4 DEF DispatchNext, DispatchAgain, Complete, UpdateStatus, TypeOK, Submits
    <3> QED BY <1>7, <3>1, <3>2, <3>3, <3>4 DEF SessionStep
  <2> QED BY <2>1, <2>3, KeepsSubmissions, InvisibleStep
<1>8. ASSUME NEW t \in Task, ExpireData(t)
      PROVE  TL!Next
  <2>1. /\ data[t] # "absent" /\ data' = [data EXCEPT ![t] = "absent"]
        /\ op' = op /\ issued' = issued
    BY <1>8 DEF ExpireData
  <2>2. \A u \in Task : Submitting(u)' <=> Submitting(u)
    BY <2>1 DEF Submitting
  <2>3. Known(t)
    BY <2>1 DEF DocumentsAreKnown
  <2>4. lifecycle' = [lifecycle EXCEPT ![t] = "gone"]
    BY <2>1, <2>2, <2>3 DEF lifecycle, Known, TypeOK
  <2>5. lifecycle[t] \in TL!Stored
    BY <1>0, <2>1 DEF TypeOK, Status, Terminal, TL!Stored, TL!Updated
  <2> QED BY <2>4, <2>5 DEF TL!Next, TL!Expire
<1>9. ASSUME \A d \in Client : op'[d] = op[d] \/ op'[d].cmd \in {"idle", "scan"},
             data' = data, issued' = issued
      PROVE  TL!Next
  <2> DEFINE S == {u \in Task : Submitting(u) /\ ~Submitting(u)'}
  <2>1. \A u \in Task : Submitting(u)' => Submitting(u)
    BY <1>9 DEF Submitting
  <2>2. \A u \in S : lifecycle[u] = "new"
    BY <1>0 DEF lifecycle
  <2>3. lifecycle' = [u \in Task |-> IF u \in S THEN "gone" ELSE lifecycle[u]]
    BY <1>0, <1>9, <2>1 DEF lifecycle
  <2>4. S \in SUBSET Task
    OBVIOUS
  <2>5. TL!Lose(S)
    BY <2>2, <2>3 DEF TL!Lose
  <2> QED BY <2>4, <2>5 DEF TL!Next
<1>10. ASSUME Restart \/ \E c \in Client : RedisError(c)
       PROVE  TL!Next
  <2>1. \A d \in Client : op'[d] = op[d] \/ op'[d].cmd \in {"idle", "scan"}
    BY <1>10 DEF Restart, RedisError, TypeOK, Idle
  <2> QED BY <1>9, <1>10, <2>1 DEF Restart, RedisError
<1>11. CASE ExpireIndex \/ UNCHANGED vars
  <2>1. op' = op /\ data' = data /\ issued' = issued
    BY <1>11 DEF ExpireIndex, vars
  <2> QED BY <2>1, InvisibleStep DEF Submitting
<1> QED BY <1>2, <1>3, <1>4, <1>5, <1>6, <1>7, <1>8, <1>10, <1>11 DEF Next, CommandStep

\* The Redis commands implement the life cycle of a task: pending once, and
\* never again after any update, for every interleaving and every fault.
THEOREM ImplementsTaskLifecycle == Spec => RefinesTaskLifecycle
<1>1. Init => TL!Init
  BY DEF Init, TL!Init, lifecycle
<1>2. QED
  BY <1>1, StepRefines, InductiveInvariant, PTL DEF Spec, RefinesTaskLifecycle, TL!Spec

(***************************************************************************)
(* Order. What a session holds, and what its LRANGE has still to fetch,    *)
(* follows the FIFO in this order: LREM drops ids and RPUSH appends one    *)
(* that no session can hold, so the order of those that are left stays.    *)
(***************************************************************************)
Precedes(a, b, q) == \A k, l \in DOMAIN q : q[k] = a /\ q[l] = b => k < l

\* The list p, and then the list r.
Follow(p, r, q) ==
    /\ \A i, j \in DOMAIN p : i < j => Precedes(p[i], p[j], q)
    /\ \A i, j \in DOMAIN r : i < j => Precedes(r[i], r[j], q)
    /\ \A i \in DOMAIN p, j \in DOMAIN r : Precedes(p[i], r[j], q)

\* The RPUSH of t has been sent.
Pushed(t) == t \in issued /\ \A c \in Client : op[c].cmd = "rpush" => op[c].task # t

OrderInv ==
    \A s \in Session : /\ Follow(pend[s], scan[s], fifo)
                       /\ \A i \in DOMAIN pend[s] : Pushed(pend[s][i])
                       /\ \A i \in DOMAIN scan[s] : Pushed(scan[s][i])

\* LREM keeps the order of what it leaves.
LEMMA PrecedesLRem ==
    ASSUME NEW q \in Seq(Task), IsInjective(q), NEW t \in Task,
           NEW a, NEW b, Precedes(a, b, q)
    PROVE  Precedes(a, b, LRem(q, t))
<1>1. CASE \E i \in DOMAIN q : q[i] = t
  <2>1. PICK i \in DOMAIN q : q[i] = t
    BY <1>1
  <2> DEFINE r == RemoveAt(q, i)
             from(k) == IF k < i THEN k ELSE k + 1
  <2>2. LRem(q, t) = r
    BY <2>1, LRemAt
  <2>3. /\ r \in Seq(Task) /\ Len(r) = Len(q) - 1
        /\ \A k \in 1 .. Len(q) - 1 : r[k] = IF k < i THEN q[k] ELSE q[k + 1]
    BY RemoveAtIsShift
  <2>4. i \in 1 .. Len(q) /\ Len(q) \in Nat /\ DOMAIN q = 1 .. Len(q)
    OBVIOUS
  <2>5. DOMAIN r = 1 .. Len(q) - 1
    BY <2>3, <2>4
  <2> HIDE DEF r
  <2>6. ASSUME NEW k \in DOMAIN r, NEW l \in DOMAIN r, r[k] = a, r[l] = b
        PROVE  k < l
    <3>1. /\ from(k) \in DOMAIN q /\ q[from(k)] = a
          /\ from(l) \in DOMAIN q /\ q[from(l)] = b
      BY <2>3, <2>4, <2>5, <2>6
    <3>2. from(k) < from(l)
      BY <3>1 DEF Precedes
    <3> QED BY <2>4, <2>5, <3>2
  <2> QED BY <2>2, <2>6 DEF Precedes
<1>2. CASE ~\E i \in DOMAIN q : q[i] = t
  BY <1>2 DEF LRem
<1> QED BY <1>1, <1>2

\* RPUSH keeps the order of what was there.
LEMMA PrecedesRPush ==
    ASSUME NEW q \in Seq(Task), NEW t \in Task, NEW a, NEW b, Precedes(a, b, q), t # a, t # b
    PROVE  Precedes(a, b, Append(q, t))
<1>1. /\ Len(q) \in Nat /\ DOMAIN Append(q, t) = 1 .. Len(q) + 1 /\ DOMAIN q = 1 .. Len(q)
      /\ \A i \in 1 .. Len(q) : Append(q, t)[i] = q[i]
      /\ Append(q, t)[Len(q) + 1] = t
  OBVIOUS
<1>2. \A k \in DOMAIN Append(q, t) : k \in DOMAIN q \/ k = Len(q) + 1
  BY <1>1
<1> QED BY <1>1, <1>2 DEF Precedes

\* An LRANGE gives the FIFO itself.
LEMMA FollowAll ==
    ASSUME NEW q \in Seq(Task), IsInjective(q)
    PROVE  Follow(<<>>, q, q)
BY DEF Follow, Precedes, IsInjective

\* The positions of a tail.
LEMMA TailIsShift ==
    ASSUME NEW p \in Seq(Task), p # <<>>
    PROVE  /\ Head(p) = p[1] /\ 1 \in DOMAIN p
           /\ Tail(p) \in Seq(Task)
           /\ \A i \in DOMAIN Tail(p) : i \in Nat /\ i > 0 /\ i + 1 \in DOMAIN p /\ Tail(p)[i] = p[i + 1]
<1>1. Len(p) \in Nat /\ Len(p) > 0 /\ DOMAIN p = 1 .. Len(p)
  BY EmptySeq
<1>2. Tail(p) \in Seq(Task) /\ Len(Tail(p)) = Len(p) - 1 /\ \A i \in 1 .. Len(p) - 1 : Tail(p)[i] = p[i + 1]
  BY <1>1, HeadTailProperties
<1>3. DOMAIN Tail(p) = 1 .. Len(p) - 1
  BY <1>1, <1>2
<1> QED BY <1>1, <1>2, <1>3

\* A task is dispatched, or one is not fetched.
LEMMA FollowTails ==
    ASSUME NEW p \in Seq(Task), NEW r \in Seq(Task), NEW q, Follow(p, r, q)
    PROVE  /\ p # <<>> => Follow(Tail(p), r, q)
           /\ r # <<>> => Follow(p, Tail(r), q)
<1>1. ASSUME p # <<>> PROVE Follow(Tail(p), r, q)
  <2> DEFINE b == Tail(p)
  <2>1. \A i \in DOMAIN b : i \in Nat /\ i + 1 \in DOMAIN p /\ b[i] = p[i + 1]
    BY <1>1, TailIsShift
  <2> HIDE DEF b
  <2>2. Follow(b, r, q)
    BY <2>1 DEF Follow
  <2> QED BY <2>2 DEF b
<1>2. ASSUME r # <<>> PROVE Follow(p, Tail(r), q)
  <2> DEFINE b == Tail(r)
  <2>1. \A i \in DOMAIN b : i \in Nat /\ i + 1 \in DOMAIN r /\ b[i] = r[i + 1]
    BY <1>2, TailIsShift
  <2> HIDE DEF b
  <2>2. Follow(p, b, q)
    BY <2>1 DEF Follow
  <2> QED BY <2>2 DEF b
<1> QED BY <1>1, <1>2

\* A task is fetched.
LEMMA FollowFetch ==
    ASSUME NEW p \in Seq(Task), NEW r \in Seq(Task), NEW q, Follow(p, r, q), r # <<>>
    PROVE  Follow(Append(p, Head(r)), Tail(r), q)
<1> DEFINE h == Head(r)
           a == Append(p, h)
<1>1. /\ h = r[1] /\ 1 \in DOMAIN r
      /\ \A i \in DOMAIN Tail(r) : i \in Nat /\ i > 0 /\ i + 1 \in DOMAIN r /\ Tail(r)[i] = r[i + 1]
  BY TailIsShift
<1>2. /\ Len(p) \in Nat /\ DOMAIN a = 1 .. Len(p) + 1 /\ DOMAIN p = 1 .. Len(p)
      /\ \A i \in 1 .. Len(p) : a[i] = p[i]
      /\ a[Len(p) + 1] = h
  OBVIOUS
<1> HIDE DEF h, a
<1>3. \A i \in DOMAIN a : i \in DOMAIN p \/ i = Len(p) + 1
  BY <1>2
<1>4. Follow(p, Tail(r), q)
  BY FollowTails
<1>5. ASSUME NEW i \in DOMAIN a, NEW j \in DOMAIN a, i < j PROVE Precedes(a[i], a[j], q)
  <2>1. i \in DOMAIN p
    BY <1>2, <1>5
  <2>2. CASE j \in DOMAIN p
    BY <1>2, <1>5, <2>1, <2>2 DEF Follow
  <2>3. CASE j = Len(p) + 1
    BY <1>1, <1>2, <2>1, <2>3 DEF Follow
  <2> QED BY <1>3, <2>2, <2>3
<1>6. ASSUME NEW i \in DOMAIN a, NEW j \in DOMAIN Tail(r) PROVE Precedes(a[i], Tail(r)[j], q)
  <2>1. CASE i \in DOMAIN p
    BY <1>2, <1>4, <2>1 DEF Follow
  <2>2. CASE i = Len(p) + 1
    <3>1. a[i] = r[1] /\ Tail(r)[j] = r[j + 1] /\ 1 < j + 1 /\ j + 1 \in DOMAIN r
      BY <1>1, <1>2, <2>2
    <3> QED BY <1>1, <3>1 DEF Follow
  <2> QED BY <1>3, <2>1, <2>2
<1>7. Follow(a, Tail(r), q)
  BY <1>4, <1>5, <1>6 DEF Follow
<1> QED BY <1>7 DEF a, h

\* What every action but RPUSH and LREM leaves: the same FIFO, and lists with
\* what they had.
LEMMA ListsShrink ==
    ASSUME OrderInv, fifo' = fifo,
           \A t : Pushed(t) => Pushed(t)',
           \A s \in Session :
               /\ Follow(pend'[s], scan'[s], fifo)
               /\ \A i \in DOMAIN pend'[s] : Pushed(pend'[s][i])
               /\ \A i \in DOMAIN scan'[s] : Pushed(scan'[s][i])
    PROVE  OrderInv'
BY DEF OrderInv

\* The FIFO and the lists stay as they are.
LEMMA ListsStay ==
    ASSUME OrderInv, fifo' = fifo, pend' = pend, scan' = scan,
           \A t : Pushed(t) => Pushed(t)'
    PROVE  OrderInv'
BY DEF OrderInv

\* A session cannot hold a task whose RPUSH is still to come.
LEMMA OrderRPush ==
    ASSUME IInv, OrderInv, NEW c \in Client, EnqueueRPush(c)
    PROVE  OrderInv'
<1> DEFINE t == op[c].task
<1>1. t \in Task /\ fifo \in Seq(Task) /\ fifo' = Append(fifo, t)
  BY DEF IInv, TypeOK, OpsHaveTasks, EnqueueRPush, Submits
<1>2. ASSUME NEW u, Pushed(u) PROVE u # t /\ Pushed(u)'
  <2>1. \A d \in Client : op'[d].cmd = "rpush" => op'[d] = op[d]
    BY DEF EnqueueRPush, IInv, TypeOK, Op
  <2>2. issued' = issued
    BY DEF EnqueueRPush
  <2> QED BY <1>2, <2>1, <2>2 DEF Pushed, EnqueueRPush
<1>3. pend' = pend /\ scan' = scan
  BY DEF EnqueueRPush
<1> HIDE DEF t
<1>4. ASSUME NEW s \in Session PROVE Follow(pend[s], scan[s], fifo')
  <2>1. \A i \in DOMAIN pend[s] : pend[s][i] # t
    BY <1>2 DEF OrderInv
  <2>2. \A i \in DOMAIN scan[s] : scan[s][i] # t
    BY <1>2 DEF OrderInv
  <2>3. Follow(pend[s], scan[s], fifo)
    BY DEF OrderInv
  <2> QED BY <1>1, <2>1, <2>2, <2>3, PrecedesRPush DEF Follow
<1> QED BY <1>2, <1>3, <1>4 DEF OrderInv

\* A finished task leaves, the others keep their order.
LEMMA OrderLRem ==
    ASSUME IInv, OrderInv, NEW c \in Client, UpdateLRem(c)
    PROVE  OrderInv'
<1> DEFINE t == op[c].task
<1>1. /\ t \in Task /\ fifo \in Seq(Task) /\ IsInjective(fifo)
      /\ fifo' = LRem(fifo, t)
  BY DEF IInv, TypeOK, OpsHaveTasks, UpdateLRem, Updates, FifoIsDuplicateFree
<1>2. ASSUME NEW u, Pushed(u) PROVE Pushed(u)'
  BY <1>2 DEF Pushed, UpdateLRem, IInv, TypeOK, Idle
<1>3. pend' = pend /\ scan' = scan
  BY DEF UpdateLRem
<1> HIDE DEF t
<1>4. ASSUME NEW s \in Session PROVE Follow(pend[s], scan[s], fifo')
  <2>1. Follow(pend[s], scan[s], fifo)
    BY DEF OrderInv
  <2> QED BY <1>1, <2>1, PrecedesLRem DEF Follow
<1> QED BY <1>2, <1>3, <1>4 DEF OrderInv

\* Every action but RPUSH and LREM leaves the FIFO as it is.
LEMMA OrderOtherCommands ==
    ASSUME IInv, OrderInv, NEW c \in Client,
           EnqueueSet(c) \/ EnqueueZAdd(c) \/ UpdateSet(c)
    PROVE  OrderInv'
<1>1. /\ fifo' = fifo /\ issued' = issued /\ pend' = pend /\ scan' = scan
      /\ \A d \in Client : op'[d].cmd = "rpush" => op'[d] = op[d]
  BY DEF EnqueueSet, EnqueueZAdd, UpdateSet, IInv, TypeOK, Op, Idle
<1>2. \A t : Pushed(t) => Pushed(t)'
  BY <1>1 DEF Pushed
<1> QED BY <1>1, <1>2, ListsStay

\* An id is new, or its task is stored already.
LEMMA OrderApiStep ==
    ASSUME IInv, OrderInv, NEW c \in Client, ApiStep(c)
    PROVE  OrderInv'
<1> PICK t \in Task : \/ EnqueueStart(c, t)
                      \/ Cancel(c, t)
                      \/ \E outcome \in {"done", "failed"} : TransferComplete(c, t, outcome)
  BY DEF ApiStep
<1>1. CASE EnqueueStart(c, t)
  <2>1. /\ fifo' = fifo /\ pend' = pend /\ scan' = scan
        /\ issued' = issued \cup {t} /\ t \notin issued
        /\ \A d \in Client : op'[d] = op[d] \/ op'[d].task = t
    BY <1>1 DEF EnqueueStart, IInv, TypeOK
  <2>2. \A u : Pushed(u) => Pushed(u)'
    BY <2>1 DEF Pushed
  <2> QED BY <2>1, <2>2, ListsStay
<1>2. CASE Cancel(c, t) \/ \E outcome \in {"done", "failed"} : TransferComplete(c, t, outcome)
  <2>1. /\ fifo' = fifo /\ issued' = issued /\ pend' = pend /\ scan' = scan
        /\ \A d \in Client : op'[d] = op[d] \/ op'[d].cmd = "set"
    BY <1>2 DEF Cancel, TransferComplete, UpdateStatus, IInv, TypeOK
  <2>2. \A u : Pushed(u) => Pushed(u)'
    BY <2>1 DEF Pushed
  <2> QED BY <2>1, <2>2, ListsStay
<1> QED BY <1>1, <1>2

\* An LRANGE copies the FIFO, a fetch moves its head or drops it, a dispatch
\* takes the first task.
LEMMA OrderSessionStep ==
    ASSUME IInv, OrderInv, NEW s \in Session, SessionStep(s)
    PROVE  OrderInv'
<1>1. /\ s \in Client /\ fifo \in Seq(Task) /\ IsInjective(fifo)
      /\ scan \in [Session -> Seq(Task)] /\ pend \in [Session -> Seq(Task)]
      /\ op \in [Client -> Op]
  BY DEF IInv, TypeOK, Client, FifoIsDuplicateFree
<1>2. /\ fifo' = fifo /\ issued' = issued
      /\ \A d \in Client : op'[d] = op[d] \/ op'[d].cmd \in {"idle", "scan", "set"}
  BY <1>1 DEF SessionStep, DequeueLRange, DequeueFetch, DequeueReturn, DispatchNext,
              DispatchAgain, Complete, UpdateStatus, Idle, Op
<1>3. \A u : Pushed(u) => Pushed(u)'
  BY <1>2 DEF Pushed
<1>4. \A r \in Session : /\ Follow(pend[r], scan[r], fifo)
                         /\ \A i \in DOMAIN pend[r] : Pushed(pend[r][i])
                         /\ \A i \in DOMAIN scan[r] : Pushed(scan[r][i])
  BY DEF OrderInv
<1>5. CASE DequeueLRange(s)
  <2>1. /\ scan' = [scan EXCEPT ![s] = fifo] /\ pend' = [pend EXCEPT ![s] = <<>>]
    BY <1>5 DEF DequeueLRange
  <2>2. \A i \in DOMAIN fifo : Pushed(fifo[i])
    <3>1. \A i \in DOMAIN fifo : fifo[i] \in Queued /\ fifo[i] \in issued
      BY DEF Queued, ToSet, IInv, QueuedAreIssued
    <3>2. \A c \in Client : op[c].cmd = "rpush" => op[c].task \notin Queued
      BY DEF IInv, SubmitterIsAlone, Submits
    <3> QED BY <3>1, <3>2 DEF Pushed
  <2>3. \A r \in Session \ {s} : pend'[r] = pend[r] /\ scan'[r] = scan[r]
    BY <1>1, <2>1
  <2>4. pend'[s] = <<>> /\ scan'[s] = fifo
    BY <1>1, <2>1
  <2>5. Follow(pend'[s], scan'[s], fifo)
    BY <1>1, <2>4, FollowAll
  <2> QED BY <1>2, <1>3, <1>4, <2>2, <2>3, <2>4, <2>5, ListsShrink
<1>6. CASE DequeueFetch(s)
  <2> DEFINE p == pend[s]
             r == scan[s]
             h == Head(r)
  <2>1. /\ r # <<>> /\ scan' = [scan EXCEPT ![s] = Tail(r)]
        /\ pend' = [pend EXCEPT ![s] = IF data[h] = "pending" THEN Append(p, h) ELSE p]
    BY <1>1, <1>6 DEF DequeueFetch
  <2>2. p \in Seq(Task) /\ r \in Seq(Task) /\ Follow(p, r, fifo)
    BY <1>1, <1>4
  <2>3. \A u \in Session \ {s} : pend'[u] = pend[u] /\ scan'[u] = scan[u]
    BY <1>1, <2>1
  <2>4. pend'[s] \in {p, Append(p, h)} /\ scan'[s] = Tail(r)
    BY <1>1, <2>1
  <2>5. Follow(p, Tail(r), fifo) /\ Follow(Append(p, h), Tail(r), fifo)
    BY <2>1, <2>2, FollowTails, FollowFetch
  <2>6. /\ \A i \in DOMAIN p : Pushed(p[i])
        /\ \A i \in DOMAIN r : Pushed(r[i])
    BY <1>4
  <2> HIDE DEF p, r
  <2>7. Pushed(h) /\ \A i \in DOMAIN Tail(r) : Pushed(Tail(r)[i])
    BY <2>1, <2>2, <2>6, TailIsShift
  <2>8. \A i \in DOMAIN Append(p, h) : Pushed(Append(p, h)[i])
    <3>1. /\ Len(p) \in Nat /\ DOMAIN Append(p, h) = 1 .. Len(p) + 1 /\ DOMAIN p = 1 .. Len(p)
          /\ \A i \in 1 .. Len(p) : Append(p, h)[i] = p[i]
          /\ Append(p, h)[Len(p) + 1] = h
      BY <2>2
    <3>2. \A i \in DOMAIN Append(p, h) : i \in DOMAIN p \/ i = Len(p) + 1
      BY <3>1
    <3> QED BY <2>6, <2>7, <3>1, <3>2
  <2> QED BY <1>2, <1>3, <1>4, <2>3, <2>4, <2>5, <2>6, <2>7, <2>8, ListsShrink
<1>7. CASE DispatchNext(s)
  <2> DEFINE p == pend[s]
  <2>1. p # <<>> /\ pend' = [pend EXCEPT ![s] = Tail(p)] /\ scan' = scan
    BY <1>1, <1>7 DEF DispatchNext
  <2>2. p \in Seq(Task) /\ scan[s] \in Seq(Task) /\ Follow(p, scan[s], fifo)
    BY <1>1, <1>4
  <2>3. pend'[s] = Tail(p) /\ \A u \in Session \ {s} : pend'[u] = pend[u]
    BY <1>1, <2>1
  <2>4. Follow(Tail(p), scan[s], fifo) /\ \A i \in DOMAIN Tail(p) : Pushed(Tail(p)[i])
    BY <1>4, <2>1, <2>2, FollowTails, TailIsShift
  <2> HIDE DEF p
  <2> QED BY <1>2, <1>3, <1>4, <2>1, <2>3, <2>4, ListsShrink
<1>8. CASE DequeueReturn(s) \/ DispatchAgain(s) \/ \E outcome \in {"done", "failed"} : Complete(s, outcome)
  <2>1. pend' = pend /\ scan' = scan
    BY <1>8 DEF DequeueReturn, DispatchAgain, Complete
  <2> QED BY <1>2, <1>3, <2>1, ListsStay
<1> QED BY <1>5, <1>6, <1>7, <1>8 DEF SessionStep

\* Errors skip an id, a restart forgets all lists.
LEMMA OrderEnvironment ==
    ASSUME IInv, OrderInv,
           \/ \E c \in Client : RedisError(c)
           \/ \E t \in Task : ExpireData(t)
           \/ ExpireIndex
           \/ Restart
    PROVE  OrderInv'
<1>1. /\ fifo' = fifo /\ issued' = issued
      /\ \A d \in Client : op'[d] = op[d] \/ op'[d].cmd = "idle"
  BY DEF RedisError, ExpireData, ExpireIndex, Restart, Idle, IInv, TypeOK
<1>2. \A u : Pushed(u) => Pushed(u)'
  BY <1>1 DEF Pushed
<1>3. CASE Restart
  <2>1. \A s \in Session : pend'[s] = <<>> /\ scan'[s] = <<>>
    BY <1>3 DEF Restart
  <2>2. Follow(<<>>, <<>>, fifo)
    BY DEF Follow
  <2> QED BY <1>1, <2>1, <2>2 DEF OrderInv
<1>4. CASE pend' = pend /\ scan' = scan
  BY <1>1, <1>2, <1>4, ListsStay
<1>5. ASSUME NEW s \in Session, scan[s] # <<>>, scan' = [scan EXCEPT ![s] = Tail(@)], pend' = pend
      PROVE  OrderInv'
  <2> DEFINE r == scan[s]
  <2>1. r \in Seq(Task) /\ pend[s] \in Seq(Task) /\ Follow(pend[s], r, fifo)
    BY DEF IInv, TypeOK, OrderInv
  <2>2. scan'[s] = Tail(r) /\ \A u \in Session \ {s} : scan'[u] = scan[u]
    BY <1>5 DEF IInv, TypeOK
  <2>3. Follow(pend[s], Tail(r), fifo) /\ \A i \in DOMAIN Tail(r) : Pushed(Tail(r)[i])
    BY <1>5, <2>1, FollowTails, TailIsShift DEF OrderInv
  <2> HIDE DEF r
  <2> QED BY <1>1, <1>2, <1>5, <2>2, <2>3, ListsShrink DEF OrderInv
<1> QED BY <1>3, <1>4, <1>5 DEF RedisError, ExpireData, ExpireIndex

\* A session's tasks come in the order of the FIFO, for any number of sessions
\* of the device, however the list changes between LRANGE and GETs and after.
THEOREM PendingTasksFollowFifoHolds == Spec => []PendingTasksFollowFifo
<1>1. Init => OrderInv
  BY DEF Init, OrderInv, Follow
<1>2. IInv /\ OrderInv /\ [Next]_vars => OrderInv'
  <2> SUFFICES ASSUME IInv, OrderInv, [Next]_vars
               PROVE  OrderInv'
    OBVIOUS
  <2>1. ASSUME NEW c \in Client, CommandStep(c) PROVE OrderInv'
    BY <2>1, OrderRPush, OrderLRem, OrderOtherCommands DEF CommandStep
  <2>2. ASSUME NEW c \in Api, ApiStep(c) PROVE OrderInv'
    BY <2>2, OrderApiStep DEF Client
  <2>3. ASSUME NEW s \in Session, SessionStep(s) PROVE OrderInv'
    BY <2>3, OrderSessionStep
  <2>4. CASE UNCHANGED vars
    <3>1. \A t : Pushed(t) => Pushed(t)'
      BY <2>4 DEF vars, Pushed
    <3> QED BY <2>4, <3>1, ListsStay DEF vars
  <2> QED BY <2>1, <2>2, <2>3, <2>4, OrderEnvironment DEF Next
<1>3. OrderInv => PendingTasksFollowFifo
  BY DEF OrderInv, Follow, Precedes, PendingTasksFollowFifo
<1> QED BY <1>1, <1>2, <1>3, InductiveInvariant, PTL DEF Spec
=============================================================================
