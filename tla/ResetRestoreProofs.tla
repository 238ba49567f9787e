------------------------- MODULE ResetRestoreProofs -------------------------
(***************************************************************************)
(* Proofs about ResetRestore, for CPEs that report their code or not, and  *)
(* any number of reboots, snapshots and mishaps.                           *)
(***************************************************************************)
EXTENDS ResetRestore, SequenceTheorems, TLAPS

(***************************************************************************)
(* Types, with what TypeOK leaves open: the session, the job and the       *)
(* history; and an empty password is one of the PPPoE pair.                *)
(***************************************************************************)

Pairs == {r \in Rows : r["wifi"] # NoPassword /\ r["code"] # NoPassword}
Jobs == [kind : {"wifi", "code", "wan", "all", "reboot"}, set : Pairs]

Points == {"none", "pre", "unpre", "lkg", "all", "clear", "wifi", "code", "wan",
           "dequeue", "summon", "tasks", "sent", "executed"}

\* Before the handler has decided, with a decision, and after the InformResponse.
Early == {"none", "pre", "unpre", "lkg"}
Decided == {"all", "wifi", "code", "wan", "dequeue"}
Working == {"summon", "tasks", "sent", "executed"}

Types ==
    /\ cpe \in [Field -> Value \cup {NoPassword}]
    /\ cpe["wifi"] # NoPassword /\ cpe["code"] # NoPassword
    /\ boot \in BOOLEAN
    /\ db \in Pairs
    /\ lkg \in Pairs
    /\ pre \in Pairs \cup {Null}
    /\ queue \in Seq(Jobs)
    /\ ses \in [at : Points, boot : BOOLEAN, code : Value, held : Pairs, left : Nat]
    /\ ses.left <= Len(queue)
    /\ informed \in Value \cup {Absent}
    /\ saver \in {"idle", "running", "late"}
    /\ capture \in [at : {"idle", "save"}, rows : Pairs]
    /\ count \in [resets : Nat, faults : Nat, captures : Nat, tasks : Nat,
                  restores : Nat, lost : Nat, dropped : SUBSET Field, refused : BOOLEAN]

\* Where a session is, and what it has in hand.
SessionInv ==
    /\ ses.boot => boot
    /\ ses.at \in {"pre", "unpre", "lkg"} => ses.code = cpe["code"] /\ (boot => ses.boot)
    /\ ses.at \in {"sent", "executed"} => ses.left > 0
    /\ ses.at \in Working =>
          \A i \in DOMAIN queue : i > ses.left => queue[i].set = NoRows
    /\ ses.at = "executed" => \A f \in Field :
          queue[1].set[f] # Absent => cpe[f] = queue[1].set[f]
    /\ boot => ses.at \notin Working
    /\ capture.at = "idle" => capture.rows = NoRows

(***************************************************************************)
(* How often the restore may still be queued without another mishap: once  *)
(* for a reset not looked at or a code that is missing, and once more when *)
(* a snapshot may bring a code back that last_known_good has lost.         *)
(***************************************************************************)

\* The tasks in the list leave the CPE with a code.
QueueSetsCode ==
    /\ \A j \in DOMAIN queue : queue[j].set["code"] = 0 =>
          \E i \in DOMAIN queue : i > j /\ queue[i].set["code"] = 1
    /\ cpe["code"] = 1 \/ \E i \in DOMAIN queue : queue[i].set["code"] = 1

\* The code the CPE has at the next Inform, if no mishap comes between.
CodeWillBeSet ==
    \/ ses.at \in {"wifi", "code", "all"} /\ ses.held["code"] = 1
    \/ ~(ses.at = "all" /\ ses.held["code"] = 0) /\ QueueSetsCode

CodeIsMissing ==
    lkg["code"] = 1 /\ (~CodeWillBeSet \/ (ses.at \in Early /\ cpe["code"] = 0))

RestoreIsDue ==
    \/ boot /\ ses.at \notin Decided
    \/ ses.at = "clear"
    \/ CodeIsMissing

\* Someone knows a code that last_known_good, or the snapshot in hand, lacks.
CodeIsKnown ==
    \/ 1 \in {db["code"], capture.rows["code"], informed, cpe["code"]}
    \/ \E i \in DOMAIN queue : queue[i].set["code"] = 1
    \/ ses.at \in {"clear", "wifi", "code", "all"} /\ ses.held["code"] = 1

CodeMayComeBack ==
    \/ lkg["code"] # 1 /\ CodeIsKnown
    \/ ses.at = "clear" /\ ses.held["code"] # 1 /\ (CodeIsKnown \/ lkg["code"] = 1)

ToCome == (IF RestoreIsDue THEN 1 ELSE 0) + (IF CodeMayComeBack THEN 1 ELSE 0)

RestoresInv == count.restores + ToCome <= count.resets + count.faults + count.lost

(***************************************************************************)
(* What is left of the configuration before and after the first reset.     *)
(***************************************************************************)

Good(rows) == rows["wifi"] = 1 /\ rows["wan"] = 1
QueueIsIdle == \A i \in DOMAIN queue : queue[i].set = NoRows

\* As long as no snapshot has lost a value, the good one has them all.
NothingLost == count.lost = 0 => \A f \in Field : lkg[f] = 1

NoReset ==
    count.resets = 0 =>
        /\ cpe = Configured /\ db = Configured /\ lkg = Configured
        /\ ~boot /\ QueueIsIdle
        /\ ses.at \notin {"clear", "all", "wifi", "code", "wan"}
        /\ pre \in {Null, Configured}
        /\ informed # 0
        /\ capture.at = "save" => capture.rows = Configured

\* The store and its copies have the value, though the CPE may not.
Kept(f) == db[f] = 1 /\ lkg[f] = 1 /\ (capture.at = "save" => capture.rows[f] = 1)

\* The CPE has the value or will have it, and nothing under way replaces it.
InHand(f) ==
    /\ ses.at \in (IF f = "wan" THEN {"wifi", "code", "wan"} ELSE {"wifi", "all"})
    /\ ses.held[f] = 1
Secured(f) ==
    /\ \A i \in DOMAIN queue : queue[i].set[f] \in {Absent, 1}
    /\ cpe[f] = 1 \/ InHand(f) \/ \E i \in DOMAIN queue : queue[i].set[f] = 1

NoCodeInStore == 1 \notin {db["code"], informed}
NoCodeAnywhere == NoCodeInStore /\ 1 \notin {lkg["code"], capture.rows["code"]}

\* While the code is missing at the CPE it leaves the store first, then the
\* snapshots; and where it is, the WiFi network is, too.
CodeLeaves ==
    /\ db["code"] = 1 => db["wifi"] = 1
    /\ lkg["code"] = 1 => lkg["wifi"] = 1
    /\ capture.rows["code"] = 1 => capture.rows["wifi"] = 1
    /\ lkg["code"] # 1 => NoCodeAnywhere
    /\ capture.at = "save" /\ capture.rows["code"] # 1 => NoCodeInStore
    /\ informed = 1 => db["code"] = 1 /\ boot /\ ses.at = "none"
    /\ Kept("wan")

Undecided == ses.at \in Early \cup {"clear"}

\* The list holds nothing from before the reset, and the reset is looked at.
Waiting ==
    /\ Undecided => QueueIsIdle
    /\ ses.at = "clear" =>
          Good(ses.held) /\ cpe["code"] = 0 /\ (ses.held["code"] = 1 \/ NoCodeAnywhere)
    /\ boot /\ Undecided =>
          /\ cpe = Factory /\ Kept("wifi") /\ Kept("wan")
          /\ pre # Null => Good(pre)
          /\ ses.at = "unpre" => Good(ses.held)

\* The reset has been looked at.
Placed ==
    ses.at # "clear" /\ ~(boot /\ Undecided) =>
        Secured("wifi") /\ (Secured("wan") \/ Kept("wan"))

\* What the restores bring, from pre_reset_params ("all") and last_known_good.
Bringing ==
    /\ ses.at \in {"all", "wifi"} => ses.held["wifi"] = 1
    /\ ses.at \in {"wifi", "code", "wan"} => ses.held["wan"] = 1
    /\ ses.at = "all" => Kept("wan")
    /\ \A i \in DOMAIN queue : queue[i].set["wan"] # 0

\* Only pre_reset_params can bring an empty code, to a CPE that has none, and no
\* other task sets it then.
CodeTasksAgree ==
    /\ ses.at = "all" => cpe["code"] = 0 /\ QueueIsIdle
    /\ ses.at \in {"wifi", "code", "wan"} => \A i \in DOMAIN queue : queue[i].set["code"] # 0
    /\ (\E i \in DOMAIN queue : queue[i].set["code"] = 0) =>
          cpe["code"] = 0 /\ \A i \in DOMAIN queue : queue[i].set["code"] # 1

CodeCase == CodeWillBeSet \/ NoCodeAnywhere \/ CodeLeaves

Once == Waiting /\ Placed /\ Bringing /\ CodeTasksAgree /\ CodeCase

OneReset == count.resets = 1 /\ count.faults = 0 => Once

(***************************************************************************)
(* The operators.                                                          *)
(***************************************************************************)

LEMMA NoRowsPairs ==
    /\ NoRows \in Pairs /\ Configured \in Pairs /\ Factory \in Pairs
    /\ \A f \in Field : NoRows[f] = Absent /\ Configured[f] = 1 /\ Factory[f] = 0
BY ValuesAssumption DEF NoRows, Pairs, Rows, Field, Value, Configured, Factory

\* A snapshot is not the lack of one.
LEMMA PairsAreRows == Null \notin Pairs
<1>1. Pairs \subseteq [Field -> {0, 1, Absent, NoPassword}]
  BY DEF Pairs, Rows, Value
<1> QED BY <1>1, ValuesAssumption

LEMMA StoredPairs ==
    ASSUME NEW old \in Pairs, NEW new \in Pairs
    PROVE  /\ Stored(old, new) \in Pairs
           /\ \A f \in Field : Stored(old, new)[f] = IF new[f] = Absent THEN old[f] ELSE new[f]
BY DEF Stored, Pairs, Rows, Field

LEMMA OnlyPairs ==
    ASSUME NEW f \in Field, NEW v \in Value \cup {Absent}
    PROVE  /\ Only(f, v) \in Pairs
           /\ \A g \in Field : Only(f, v)[g] = IF g = f THEN v ELSE Absent
BY ValuesAssumption DEF Only, NoRows, Pairs, Rows, Field, Value

LEMMA OnlyWan ==
    ASSUME NEW v \in Value \cup {Absent, NoPassword}
    PROVE  /\ Only("wan", v) \in Pairs
           /\ \A g \in Field : Only("wan", v)[g] = IF g = "wan" THEN v ELSE Absent
BY ValuesAssumption DEF Only, NoRows, Pairs, Rows, Field, Value

LEMMA WanRow ==
    ASSUME NEW r \in Pairs, NEW v \in Value \cup {Absent, NoPassword}
    PROVE  /\ [r EXCEPT !.wan = v] \in Pairs
           /\ [r EXCEPT !.wan = v]["wan"] = v
           /\ \A f \in {"wifi", "code"} : [r EXCEPT !.wan = v][f] = r[f]
BY DEF Pairs, Rows, Field

LEMMA CriticalPairs ==
    ASSUME NEW rows \in Pairs, NEW set \in Critical(rows)
    PROVE  /\ set \in Pairs
           /\ \A f \in {"wifi", "code"} : set[f] = rows[f]
           /\ set["wan"] \in {Absent, NoPassword}
<1>1. PICK v \in {Absent, NoPassword} : set = [rows EXCEPT !.wan = v]
  BY DEF Critical
<1> QED BY <1>1, WanRow

LEMMA ChosenIsOne ==
    ASSUME NEW v \in Value \cup {Absent, NoPassword}
    PROVE  Chosen(v) <=> v = 1
BY ValuesAssumption DEF Chosen, Value

LEMMA PairValues ==
    ASSUME NEW r \in Pairs, NEW f \in Field
    PROVE  /\ r[f] \in Value \cup {Absent, NoPassword}
           /\ f # "wan" => r[f] \in Value \cup {Absent}
BY DEF Pairs, Rows, Field

\* A task joins the list.
LEMMA AppendJob ==
    ASSUME NEW q \in Seq(Jobs), NEW job \in Jobs
    PROVE  /\ Append(q, job) \in Seq(Jobs)
           /\ Len(Append(q, job)) = Len(q) + 1
           /\ \A i \in DOMAIN q : i \in DOMAIN Append(q, job) /\ Append(q, job)[i] = q[i]
           /\ DOMAIN Append(q, job) = DOMAIN q \cup {Len(q) + 1}
           /\ Append(q, job)[Len(q) + 1] = job
OBVIOUS

\* The oldest task leaves it.
LEMMA TailJobs ==
    ASSUME NEW q \in Seq(Jobs), q # <<>>
    PROVE  /\ Head(q) = q[1] /\ 1 \in DOMAIN q /\ q[1] \in Jobs
           /\ Tail(q) \in Seq(Jobs)
           /\ Len(Tail(q)) = Len(q) - 1
           /\ \A i \in DOMAIN Tail(q) : i + 1 \in DOMAIN q /\ Tail(q)[i] = q[i + 1]
           /\ \A i \in DOMAIN q : i # 1 => i - 1 \in DOMAIN Tail(q) /\ Tail(q)[i - 1] = q[i]
<1>1. Len(q) > 0
  OBVIOUS
<1> QED BY <1>1

LEMMA MakeJob ==
    ASSUME NEW set \in Pairs, NEW kind \in {"wifi", "code", "wan", "all", "reboot"}
    PROVE  Task(kind, set) \in Jobs /\ Task(kind, set).set = set
BY DEF Task, Jobs

(***************************************************************************)
(* Types are kept.                                                         *)
(***************************************************************************)

Sessions == [at : Points, boot : BOOLEAN, code : Value, held : Pairs, left : Nat]
Histories == [resets : Nat, faults : Nat, captures : Nat, tasks : Nat,
              restores : Nat, lost : Nat, dropped : SUBSET Field, refused : BOOLEAN]

LEMMA NoSessionType == NoSession \in Sessions
BY NoRowsPairs DEF NoSession, Sessions, Points, Value

LEMMA RestingType ==
    /\ Resting \in [at : {"idle", "save"}, rows : Pairs]
    /\ Resting.at = "idle" /\ Resting.rows = NoRows
BY NoRowsPairs DEF Resting

\* A step of the handler before the InformResponse.
LEMMA DetectionTypes ==
    ASSUME Types,
           ReadPre \/ DeletePre \/ ReadLkg \/ ClearRows \/ PreUnreadable
    PROVE  Types'
<1> USE DEF Sessions, Histories
<1>0. ses \in Sessions /\ count \in Histories
  BY DEF Types
<1>1. CASE ReadPre
  <2>1. ses' \in Sessions
    BY <1>0, <1>1, ZenonT(40) DEF ReadPre, Move, Types, Points
  <2>2. ses'.left = ses.left
    BY <1>0, <1>1 DEF ReadPre, Move
  <2> QED BY <1>1, <2>1, <2>2 DEF ReadPre, Types
<1>2. CASE DeletePre
  <2>1. ses' \in Sessions /\ ses'.left = ses.left
    BY <1>0, <1>2 DEF DeletePre, Move, Points
  <2>2. count' \in Histories
    BY <1>0, <1>2 DEF DeletePre, Field
  <2> QED BY <1>2, <2>1, <2>2 DEF DeletePre, Types
<1>3. CASE ReadLkg
  <2>1. ses' \in Sessions /\ ses'.left = ses.left
    BY <1>0, <1>3, ZenonT(40) DEF ReadLkg, Move, Types, Points
  <2> QED BY <1>3, <2>1 DEF ReadLkg, Types
<1>4. CASE ClearRows
  <2>1. ses' \in Sessions /\ ses'.left = ses.left
    BY <1>0, <1>4 DEF ClearRows, Move, Points
  <2>2. count' \in Histories
    BY <1>0, <1>4 DEF ClearRows, Count
  <2> QED BY <1>4, <2>1, <2>2, NoRowsPairs DEF ClearRows, Types
<1>5. CASE PreUnreadable
  <2>1. ses' \in Sessions /\ ses'.left = ses.left
    BY <1>0, <1>5 DEF PreUnreadable, Move, Points
  <2>2. count' \in Histories
    BY <1>0, <1>5 DEF PreUnreadable, Mishap, Count
  <2> QED BY <1>5, <2>1, <2>2 DEF PreUnreadable, Types
<1> QED BY <1>1, <1>2, <1>3, <1>4, <1>5

\* A task with these rows joins the list, or none with no rows.
Joins(set) ==
    \/ set = NoRows /\ UNCHANGED queue
    \/ \E job \in Jobs : job.set = set /\ queue' = Append(queue, job)

\* What the steps that queue the tasks of a restore have in common.
Brings(set) ==
    /\ set["wifi"] = IF ses.at \in {"all", "wifi"} THEN ses.held["wifi"] ELSE Absent
    /\ ses.at = "all" => set["code"] = ses.held["code"]
    /\ ses.at = "code" => set["code"] = IF ses.held["code"] = 1 THEN 1 ELSE Absent
    /\ ses.at \notin {"all", "code"} => set["code"] = Absent
    /\ ses.at = "wan" => IF ses.held["wan"] = Absent THEN set["wan"] \in {Absent, NoPassword}
                                                     ELSE set["wan"] = ses.held["wan"]
    /\ ses.at = "all" => set["wan"] \in {Absent, NoPassword}
    /\ ses.at \in {"wifi", "code"} => set["wan"] = Absent

NextPoint == CASE ses.at = "all" -> "dequeue"
               [] ses.at = "wifi" -> "code"
               [] ses.at = "code" -> "wan"
               [] ses.at = "wan" -> "dequeue"

LEMMA RestoreSteps ==
    ASSUME Types, RestoreAll \/ RestoreWiFi \/ RestoreCode \/ RestoreWan
    PROVE  /\ ses.at \in {"all", "wifi", "code", "wan"}
           /\ \E set \in Pairs : Joins(set) /\ Brings(set)
           /\ ses' = [ses EXCEPT !.at = NextPoint]
           /\ UNCHANGED <<cpe, boot, db, lkg, pre, informed, saver, capture, count>>
<1>0. ses.held \in Pairs
  BY DEF Types
<1>1. CASE RestoreAll
  <2>1. PICK set \in Critical(ses.held) :
           IF set = NoRows THEN UNCHANGED queue ELSE Enqueue(Task("all", set))
    BY <1>1 DEF RestoreAll
  <2>2. Task("all", set) \in Jobs /\ Task("all", set).set = set
    BY <1>0, CriticalPairs, MakeJob
  <2>3. Joins(set) /\ set \in Pairs
    BY <1>0, <2>1, <2>2, CriticalPairs DEF Joins, Enqueue
  <2>4. Brings(set)
    BY <1>0, <1>1, CriticalPairs DEF Brings, RestoreAll
  <2> QED BY <1>1, <2>3, <2>4 DEF RestoreAll, Move, NextPoint
<1>2. CASE RestoreWiFi
  <2> DEFINE set == Only("wifi", ses.held["wifi"])
  <2>1. ses.held["wifi"] \in Value \cup {Absent}
    BY <1>0, PairValues DEF Field
  <2>2. set \in Pairs /\ \A f \in Field : set[f] = IF f = "wifi" THEN ses.held["wifi"] ELSE Absent
    BY <2>1, OnlyPairs DEF Field
  <2>3. Task("wifi", set) \in Jobs /\ Task("wifi", set).set = set
    BY <2>2, MakeJob
  <2>4. ses.held["wifi"] = Absent => set = NoRows
    BY DEF Only, NoRows
  <2>5. Joins(set)
    BY <1>2, <2>3, <2>4 DEF Joins, RestoreWiFi, Enqueue
  <2>6. Brings(set)
    BY <1>2, <2>2 DEF Brings, RestoreWiFi, Field
  <2> HIDE DEF set
  <2> QED BY <1>2, <2>2, <2>5, <2>6 DEF RestoreWiFi, Move, NextPoint
<1>3. CASE RestoreCode
  <2> DEFINE v == IF ses.held["code"] \in {0, Absent} THEN Absent ELSE ses.held["code"]
  <2> DEFINE set == Only("code", v)
  <2>1. ses.held["code"] \in Value \cup {Absent}
    BY <1>0, PairValues DEF Field
  <2>2. v \in Value \cup {Absent} /\ v = IF ses.held["code"] = 1 THEN 1 ELSE Absent
    BY <2>1, ValuesAssumption DEF Value
  <2>3. set \in Pairs /\ \A f \in Field : set[f] = IF f = "code" THEN v ELSE Absent
    BY <2>2, OnlyPairs DEF Field
  <2>4. Task("code", set) \in Jobs /\ Task("code", set).set = set
    BY <2>3, MakeJob
  <2>5. v = Absent => set = NoRows
    BY DEF Only, NoRows
  <2>6. Joins(set)
    BY <1>3, <2>4, <2>5 DEF Joins, RestoreCode, Enqueue
  <2>7. Brings(set)
    BY <1>3, <2>2, <2>3 DEF Brings, RestoreCode, Field
  <2> HIDE DEF set
  <2> QED BY <1>3, <2>3, <2>6, <2>7 DEF RestoreCode, Move, NextPoint
<1>4. CASE RestoreWan
  <2>1. ses.held["wan"] \in Value \cup {Absent, NoPassword}
    BY <1>0, PairValues DEF Field
  <2>2. PICK v \in Value \cup {Absent, NoPassword} :
           /\ IF ses.held["wan"] = Absent THEN v \in {Absent, NoPassword} ELSE v = ses.held["wan"]
           /\ IF v = Absent THEN UNCHANGED queue ELSE Enqueue(Task("wan", Only("wan", v)))
    <3>1. CASE ses.held["wan"] # Absent
      BY <1>4, <2>1, <3>1 DEF RestoreWan
    <3>2. CASE ses.held["wan"] = Absent /\ UNCHANGED queue
      BY <3>2
    <3>3. CASE ses.held["wan"] = Absent /\ Enqueue(Task("wan", Only("wan", NoPassword)))
      BY <3>3, ValuesAssumption
    <3> QED BY <1>4, <3>1, <3>2, <3>3 DEF RestoreWan
  <2> DEFINE set == Only("wan", v)
  <2>3. set \in Pairs /\ \A f \in Field : set[f] = IF f = "wan" THEN v ELSE Absent
    BY <2>2, OnlyWan
  <2>4. Task("wan", set) \in Jobs /\ Task("wan", set).set = set
    BY <2>3, MakeJob
  <2>5. v = Absent => set = NoRows
    BY DEF Only, NoRows
  <2>6. Joins(set)
    BY <2>2, <2>4, <2>5 DEF Joins, Enqueue
  <2>7. Brings(set)
    BY <1>4, <2>2, <2>3 DEF Brings, RestoreWan, Field
  <2> HIDE DEF set
  <2> QED BY <1>4, <2>3, <2>6, <2>7 DEF RestoreWan, Move, NextPoint
<1> QED BY <1>1, <1>2, <1>3, <1>4

\* The list before and after a task joins it.
LEMMA JoinsQueue ==
    ASSUME queue \in Seq(Jobs), NEW set \in Pairs, Joins(set)
    PROVE  /\ queue' \in Seq(Jobs)
           /\ Len(queue) <= Len(queue')
           /\ \A i \in DOMAIN queue : i \in DOMAIN queue' /\ queue'[i] = queue[i]
           /\ \A i \in DOMAIN queue' : i \in DOMAIN queue \/ queue'[i].set = set
           /\ set # NoRows => \E i \in DOMAIN queue' :
                 queue'[i].set = set /\ \A j \in DOMAIN queue : j < i
<1>1. CASE set = NoRows /\ UNCHANGED queue
  BY <1>1
<1>2. CASE \E job \in Jobs : job.set = set /\ queue' = Append(queue, job)
  <2>1. PICK job \in Jobs : job.set = set /\ queue' = Append(queue, job)
    BY <1>2
  <2>2. /\ queue' \in Seq(Jobs) /\ Len(queue') = Len(queue) + 1
        /\ \A i \in DOMAIN queue : i \in DOMAIN queue' /\ queue'[i] = queue[i]
        /\ DOMAIN queue' = DOMAIN queue \cup {Len(queue) + 1}
        /\ queue'[Len(queue) + 1] = job
    BY <2>1, AppendJob
  <2>3. Len(queue) \in Nat /\ DOMAIN queue = 1..Len(queue)
    OBVIOUS
  <2> QED BY <2>1, <2>2, <2>3
<1> QED BY <1>1, <1>2 DEF Joins

\* The oldest task, which the session is about to send or has sent.
LEMMA HeadJob ==
    ASSUME Types, ses.left > 0
    PROVE  /\ queue # <<>> /\ 1 \in DOMAIN queue
           /\ Head(queue) = queue[1] /\ queue[1] \in Jobs /\ queue[1].set \in Pairs
<1>1. queue \in Seq(Jobs) /\ ses.left \in Nat /\ ses.left <= Len(queue)
  BY DEF Types
<1>2. queue # <<>>
  BY <1>1
<1> QED BY <1>1, <1>2, TailJobs DEF Jobs

LEMMA NextTypes == Types /\ SessionInv /\ [Next]_vars => Types'
<1> SUFFICES ASSUME Types, SessionInv, [Next]_vars PROVE Types'
  OBVIOUS
<1> USE DEF Sessions, Histories
<1>0. ses \in Sessions /\ count \in Histories /\ NoSession \in Sessions
  BY NoSessionType DEF Types
<1>1. CASE Inform
  <2>1. cpe["code"] \in Value /\ boot \in BOOLEAN
    BY DEF Types, Field
  <2>2. ses' \in Sessions /\ ses'.left = 0
    BY <1>0, <1>1, <2>1 DEF Inform, NoSession, Points
  <2>3. informed' \in Value /\ saver' \in {"idle", "running", "late"}
    BY <1>1, <2>1 DEF Inform, Types, Field
  <2> QED BY <1>1, <2>2, <2>3 DEF Inform, Types
<1>2. CASE ReadPre \/ DeletePre \/ ReadLkg \/ ClearRows \/ PreUnreadable
  BY <1>2, DetectionTypes
<1>3. CASE RestoreAll \/ RestoreWiFi \/ RestoreCode \/ RestoreWan
  <2>1. PICK set \in Pairs : Joins(set)
    BY <1>3, RestoreSteps
  <2>2. queue' \in Seq(Jobs) /\ Len(queue) <= Len(queue')
    BY <2>1, JoinsQueue DEF Types
  <2>3. ses' = [ses EXCEPT !.at = NextPoint] /\ ses.at \in {"all", "wifi", "code", "wan"}
    BY <1>3, RestoreSteps
  <2>4. ses' \in Sessions /\ ses'.left = ses.left
    BY <1>0, <2>3 DEF NextPoint, Points
  <2>5. ses'.left <= Len(queue')
    BY <2>2, <2>4 DEF Types
  <2>6. UNCHANGED <<cpe, boot, db, lkg, pre, informed, saver, capture, count>>
    BY <1>3, RestoreSteps
  <2> QED BY <2>2, <2>4, <2>5, <2>6 DEF Types
<1>4. CASE Respond
  <2>1. ses' \in Sessions /\ ses'.left = Len(queue)
    <3>1. Len(queue) \in Nat
      BY DEF Types
    <3>2. ses' = [at |-> "summon", boot |-> FALSE, code |-> 0, held |-> NoRows, left |-> Len(queue)]
      BY <1>4 DEF Respond, NoSession
    <3> QED BY <3>1, <3>2, NoRowsPairs DEF Points, Value
  <2>2. ses'.left <= Len(queue')
    BY <1>4, <2>1 DEF Respond, Types
  <2> QED BY <1>4, <2>1, <2>2 DEF Respond, Types
<1>5. CASE Summon
  <2>1. ses' \in Sessions /\ ses'.left = ses.left
    BY <1>0, <1>5 DEF Summon, Move, Points
  <2>2. db' \in Pairs
    <3>1. [cpe EXCEPT !.wan = Absent] \in Pairs
      BY DEF Types, Pairs, Rows, Field
    <3> QED BY <1>5, <3>1, StoredPairs DEF Summon, Types
  <2> QED BY <1>5, <2>1, <2>2 DEF Summon, Types
<1>6. CASE Dispatch
  <2>1. ses' \in Sessions /\ ses'.left = ses.left
    BY <1>0, <1>6 DEF Dispatch, Move, Points
  <2> QED BY <1>6, <2>1 DEF Dispatch, Types
<1>7. CASE Execute
  <2>1. ses' \in Sessions /\ ses'.left = ses.left
    BY <1>0, <1>7 DEF Execute, Move, Points
  <2>2. Head(queue).set \in Pairs
    BY <1>7, HeadJob DEF Execute, SessionInv
  <2>3. /\ cpe' \in [Field -> Value \cup {NoPassword}]
        /\ cpe'["wifi"] # NoPassword /\ cpe'["code"] # NoPassword
    BY <1>7, <2>2 DEF Execute, Types, Stored, Pairs, Rows, Field
  <2> QED BY <1>7, <2>1, <2>3 DEF Execute, Types
<1>8. CASE Finish
  <2>1. queue # <<>> /\ Head(queue).set \in Pairs /\ ses.left > 0
    BY <1>8, HeadJob DEF Finish, SessionInv
  <2>2. Tail(queue) \in Seq(Jobs) /\ Len(Tail(queue)) = Len(queue) - 1
    BY <2>1, TailJobs DEF Types
  <2>3. ses' \in Sessions /\ ses'.left = ses.left - 1
    <3>1. ses.left - 1 \in Nat
      BY <1>0, <2>1
    <3> QED BY <1>0, <1>8, <3>1 DEF Finish, Points
  <2>4. db' \in Pairs
    <3>1. Head(queue).set["wan"] \in Value \cup {Absent, NoPassword}
      BY <2>1, PairValues DEF Field
    <3>2. [Head(queue).set EXCEPT !.wan = IF @ = NoPassword THEN Absent ELSE @] \in Pairs
      BY <2>1, <3>1, WanRow
    <3> QED BY <1>8, <3>2, StoredPairs DEF Finish, Types
  <2>5. ses'.left <= Len(queue')
    BY <1>8, <2>2, <2>3 DEF Finish, Types
  <2> QED BY <1>8, <2>2, <2>3, <2>4, <2>5 DEF Finish, Types
<1>9. CASE Refuse
  <2>1. queue # <<>> /\ ses.left > 0
    BY <1>9, HeadJob DEF Refuse, SessionInv
  <2>2. Tail(queue) \in Seq(Jobs) /\ Len(Tail(queue)) = Len(queue) - 1
    BY <2>1, TailJobs DEF Types
  <2>3. ses' \in Sessions /\ ses'.left = ses.left - 1
    <3>1. ses.left - 1 \in Nat
      BY <1>0, <2>1
    <3> QED BY <1>0, <1>9, <3>1 DEF Refuse, Points
  <2>4. count' \in Histories
    <3>1. count' = [count EXCEPT !.faults = count.faults + 1, !.refused = TRUE]
      BY <1>9 DEF Refuse
    <3>2. count.faults + 1 \in Nat
      BY <1>0
    <3> QED BY <1>0, <3>1, <3>2
  <2>5. ses'.left <= Len(queue')
    BY <1>9, <2>2, <2>3 DEF Refuse, Types
  <2> QED BY <1>9, <2>2, <2>3, <2>4, <2>5 DEF Refuse, Types
<1>10. CASE Close
  <2>1. ses'.left <= Len(queue')
    BY <1>10 DEF Close, NoSession, Types
  <2> QED BY <1>0, <1>10, <2>1 DEF Close, Types
<1>11. CASE StoreInform
  <2>1. Only("code", informed) \in Pairs
    BY OnlyPairs DEF Types, Field
  <2> QED BY <1>11, <2>1, StoredPairs DEF StoreInform, Types
<1>12. CASE SaverSaves
  BY <1>12 DEF SaverSaves, Types
<1>13. CASE CaptureReads
  <2>1. count' \in Histories
    BY <1>0, <1>13 DEF CaptureReads, Count
  <2> QED BY <1>13, <2>1 DEF CaptureReads, Types
<1>14. CASE CaptureSaves
  <2>1. count' \in Histories
    BY <1>0, <1>14 DEF CaptureSaves
  <2> QED BY <1>14, <2>1, RestingType DEF CaptureSaves, Types
<1>15. CASE AskReboot
  <2>1. count' \in Histories
    BY <1>0, <1>15 DEF AskReboot, Count
  <2>2. Task("reboot", NoRows) \in Jobs
    BY MakeJob, NoRowsPairs
  <2>3. queue' \in Seq(Jobs) /\ Len(queue') = Len(queue) + 1
    BY <1>15, <2>2, AppendJob DEF AskReboot, Enqueue, Types
  <2>4. ses'.left <= Len(queue')
    BY <1>0, <1>15, <2>3 DEF AskReboot, Types
  <2> QED BY <1>15, <2>1, <2>3, <2>4 DEF AskReboot, Types
<1>16. CASE Reset \/ Cut \/ Restart
  <2>1. count' \in Histories
    BY <1>0, <1>16 DEF Reset, Cut, Restart, Mishap, Count
  <2>2. ses' \in Sessions /\ ses'.left <= Len(queue')
    <3>1. ses' = NoSession /\ queue' = queue
      BY <1>16 DEF Reset, Cut, Restart
    <3>2. NoSession.left = 0 /\ Len(queue) \in Nat
      BY DEF NoSession, Types
    <3> QED BY <1>0, <3>1, <3>2
  <2>3. cpe' = cpe \/ cpe' = Factory
    BY <1>16 DEF Reset, Cut, Restart
  <2>4. /\ cpe' \in [Field -> Value \cup {NoPassword}]
        /\ cpe'["wifi"] # NoPassword /\ cpe'["code"] # NoPassword
    BY <2>3, ValuesAssumption DEF Types, Factory, Field, Value
  <2>5. informed' \in Value \cup {Absent} /\ saver' \in {"idle", "running", "late"}
    BY <1>16 DEF Reset, Cut, Restart, Types
  <2> QED BY <1>16, <2>1, <2>2, <2>4, <2>5, RestingType, ZenonT(40) DEF Reset, Cut, Restart, Types
<1>17. CASE UNCHANGED vars
  BY <1>17 DEF vars, Types
<1> QED BY <1>1, <1>2, <1>3, <1>4, <1>5, <1>6, <1>7, <1>8, <1>9, <1>10, <1>11, <1>12,
           <1>13, <1>14, <1>15, <1>16, <1>17 DEF Next, Handler, Background

LEMMA NextSession == Types /\ SessionInv /\ [Next]_vars => SessionInv'
<1> SUFFICES ASSUME Types, SessionInv, [Next]_vars PROVE SessionInv'
  OBVIOUS
<1> USE DEF Working
<1>0. /\ ses \in Sessions /\ queue \in Seq(Jobs) /\ Len(queue) \in Nat
      /\ NoSession.at = "none" /\ NoSession.boot = FALSE
  BY DEF Types, Sessions, NoSession
<1>1. CASE Inform
  <2>1. ses' = [at |-> "pre", boot |-> boot, code |-> cpe["code"], held |-> NoRows, left |-> 0]
    BY <1>1 DEF Inform, NoSession
  <2> QED BY <1>1, <2>1 DEF Inform, SessionInv
<1>2. CASE ReadPre \/ DeletePre \/ ReadLkg \/ ClearRows \/ PreUnreadable
  <2>1. /\ ses.at \in {"pre", "unpre", "lkg", "clear"}
        /\ ses'.at \in {"unpre", "lkg", "all", "dequeue", "clear", "wifi"}
        /\ ses'.at \in {"unpre", "lkg"} => ses.at = "pre"
        /\ ses'.boot = ses.boot /\ ses'.code = ses.code
        /\ UNCHANGED <<cpe, boot, capture>>
    BY <1>0, <1>2 DEF ReadPre, DeletePre, ReadLkg, ClearRows, PreUnreadable, Move, Sessions
  <2> QED BY <2>1 DEF SessionInv
<1>3. CASE RestoreAll \/ RestoreWiFi \/ RestoreCode \/ RestoreWan
  <2>1. /\ ses' = [ses EXCEPT !.at = NextPoint] /\ ses.at \in {"all", "wifi", "code", "wan"}
        /\ UNCHANGED <<cpe, boot, capture>>
    BY <1>3, RestoreSteps
  <2>2. ses'.at \in {"code", "wan", "dequeue"} /\ ses'.boot = ses.boot
    BY <1>0, <2>1 DEF NextPoint, Sessions
  <2> QED BY <2>1, <2>2 DEF SessionInv
<1>4. CASE Respond
  <2>1. ses' = [at |-> "summon", boot |-> FALSE, code |-> 0, held |-> NoRows, left |-> Len(queue)]
    BY <1>4 DEF Respond, NoSession
  <2>2. DOMAIN queue' = 1..Len(queue)
    BY <1>0, <1>4 DEF Respond
  <2> QED BY <1>0, <1>4, <2>1, <2>2 DEF Respond, SessionInv
<1>5. CASE Summon \/ Dispatch
  <2>1. /\ ses'.at \in {"tasks", "sent"} /\ ses.at \in {"summon", "tasks"}
        /\ ses'.boot = ses.boot /\ ses'.left = ses.left
        /\ ses'.at = "sent" => ses.left > 0
        /\ UNCHANGED <<cpe, boot, capture, queue>>
    BY <1>0, <1>5 DEF Summon, Dispatch, Move, Sessions
  <2> QED BY <2>1 DEF SessionInv
<1>6. CASE Execute
  <2>1. /\ ses'.at = "executed" /\ ses.at = "sent"
        /\ ses'.boot = ses.boot /\ ses'.left = ses.left
        /\ UNCHANGED <<boot, capture, queue>>
    BY <1>0, <1>6 DEF Execute, Move, Sessions
  <2>2. \A f \in Field : queue[1].set[f] # Absent => cpe'[f] = queue[1].set[f]
    BY <1>6, HeadJob DEF Execute, SessionInv, Stored
  <2> QED BY <2>1, <2>2 DEF SessionInv
<1>7. CASE Finish \/ Refuse
  <2>1. /\ ses'.at = "tasks" /\ ses.at \in {"sent", "executed"}
        /\ ses'.boot = ses.boot /\ ses'.left = ses.left - 1
        /\ queue' = Tail(queue) /\ UNCHANGED <<cpe, boot, capture>>
    BY <1>0, <1>7 DEF Finish, Refuse, Sessions
  <2>2. queue # <<>> /\ ses.left \in Nat
    BY <1>0, <2>1, HeadJob DEF SessionInv, Sessions
  <2>3. \A i \in DOMAIN queue' : i + 1 \in DOMAIN queue /\ queue'[i] = queue[i + 1]
    BY <1>0, <2>1, <2>2, TailJobs
  <2>4. \A i \in DOMAIN queue' : i > ses.left - 1 => queue'[i].set = NoRows
    <3> SUFFICES ASSUME NEW i \in DOMAIN queue', i > ses.left - 1
                 PROVE  queue'[i].set = NoRows
      OBVIOUS
    <3>1. i \in Nat
      BY <1>0, <2>1, <2>2, TailJobs
    <3>2. i + 1 > ses.left
      BY <2>2, <3>1
    <3> QED BY <2>1, <2>3, <3>2 DEF SessionInv
  <2> QED BY <2>1, <2>4 DEF SessionInv
<1>8. CASE Close \/ Cut \/ Restart \/ Reset
  <2>1. ses' = NoSession /\ (capture' = capture \/ capture' = Resting)
    BY <1>8 DEF Close, Cut, Restart, Reset
  <2> QED BY <1>0, <2>1, RestingType DEF SessionInv
<1>9. CASE StoreInform \/ SaverSaves
  BY <1>9 DEF StoreInform, SaverSaves, SessionInv
<1>10. CASE CaptureReads
  <2>1. capture'.at = "save" /\ UNCHANGED <<ses, cpe, boot, queue>>
    BY <1>10 DEF CaptureReads
  <2> QED BY <2>1 DEF SessionInv
<1>11. CASE CaptureSaves
  <2>1. capture' = Resting /\ UNCHANGED <<ses, cpe, boot, queue>>
    BY <1>11 DEF CaptureSaves
  <2> QED BY <2>1, RestingType DEF SessionInv
<1>12. CASE AskReboot
  <2>1. Task("reboot", NoRows) \in Jobs /\ Task("reboot", NoRows).set = NoRows
    BY MakeJob, NoRowsPairs
  <2>2. /\ DOMAIN queue' = DOMAIN queue \cup {Len(queue) + 1}
        /\ \A i \in DOMAIN queue : queue'[i] = queue[i]
        /\ queue'[Len(queue) + 1].set = NoRows
    BY <1>0, <1>12, <2>1, AppendJob DEF AskReboot, Enqueue
  <2>3. ses.at = "executed" => 1 \in DOMAIN queue
    BY HeadJob DEF SessionInv
  <2>4. UNCHANGED <<ses, cpe, boot, capture>>
    BY <1>12 DEF AskReboot
  <2> QED BY <2>2, <2>3, <2>4 DEF SessionInv
<1>13. CASE UNCHANGED vars
  BY <1>13 DEF vars, SessionInv
<1> QED BY <1>1, <1>2, <1>3, <1>4, <1>5, <1>6, <1>7, <1>8, <1>9, <1>10, <1>11, <1>12, <1>13
    DEF Next, Handler, Background

LEMMA InitTypes == Init => Types /\ SessionInv
<1> SUFFICES ASSUME Init PROVE Types /\ SessionInv
  OBVIOUS
<1>1. Configured \in [Field -> Value \cup {NoPassword}]
  BY DEF Configured, Field, Value
<1>2. /\ NoSession.at = "none" /\ NoSession.boot = FALSE /\ NoSession.left = 0
      /\ NoSession \in Sessions
  BY NoSessionType DEF NoSession
<1>3. count \in Histories /\ queue \in Seq(Jobs) /\ Len(queue) = 0
  BY DEF Init, Histories
<1>4. Types
  <2>1. cpe = Configured /\ cpe["wifi"] # NoPassword /\ cpe["code"] # NoPassword
    BY NoRowsPairs, ValuesAssumption DEF Init, Field
  <2>2. db \in Pairs /\ lkg \in Pairs /\ pre = Null /\ capture = Resting
    BY NoRowsPairs DEF Init
  <2>3. ses \in Sessions /\ ses.left <= Len(queue)
    BY <1>2, <1>3 DEF Init
  <2>4. boot = FALSE /\ informed = Absent /\ saver = "idle"
    BY DEF Init
  <2> QED BY <1>1, <1>3, <2>1, <2>2, <2>3, <2>4, RestingType DEF Types, Sessions, Histories
<1>5. SessionInv
  BY <1>2, RestingType DEF Init, SessionInv, Working
<1> QED BY <1>4, <1>5

\* However resets, cuts, restarts and snapshots interleave with the handler, the
\* state keeps its types: in particular the number of tasks a session still
\* has to dispatch never exceeds the list it dispatches them from (session.go).
THEOREM TypeCorrect == Spec => []TypeOK
<1>1. Types => TypeOK
  <2> SUFFICES ASSUME Types PROVE TypeOK
    OBVIOUS
  <2>1. Pairs \subseteq Rows
    BY DEF Pairs
  <2>2. Jobs \subseteq [kind : {"wifi", "code", "wan", "all", "reboot"}, set : Rows]
    BY <2>1 DEF Jobs
  <2>3. queue \in Seq([kind : {"wifi", "code", "wan", "all", "reboot"}, set : Rows])
    BY <2>2, SeqMonotonic DEF Types
  <2>4. ses.left \in 0..Len(queue)
    BY DEF Types
  <2> QED BY <2>1, <2>3, <2>4 DEF Types, TypeOK
<1> QED BY <1>1, InitTypes, NextTypes, NextSession, PTL DEF Spec

(***************************************************************************)
(* How often the restore is queued.                                        *)
(***************************************************************************)

\* A task that does not clear the code joins the list.
LEMMA JoinSetsCode ==
    ASSUME queue \in Seq(Jobs), NEW set \in Pairs, Joins(set), cpe' = cpe,
           set["code"] = 1 \/ (set["code"] = Absent /\ QueueSetsCode)
    PROVE  QueueSetsCode'
<1>1. /\ queue' \in Seq(Jobs)
      /\ \A i \in DOMAIN queue : i \in DOMAIN queue' /\ queue'[i] = queue[i]
      /\ \A i \in DOMAIN queue' : i \in DOMAIN queue \/ queue'[i].set = set
  BY JoinsQueue
<1>2. CASE set["code"] = 1
  <2>1. set # NoRows
    BY <1>2, NoRowsPairs, ValuesAssumption DEF Field
  <2>2. PICK i \in DOMAIN queue' : queue'[i].set = set /\ \A j \in DOMAIN queue : j < i
    BY <2>1, JoinsQueue
  <2>3. \A j \in DOMAIN queue' : queue'[j].set["code"] = 0 => j \in DOMAIN queue
    BY <1>1, <1>2
  <2> QED BY <1>2, <2>2, <2>3 DEF QueueSetsCode
<1>3. CASE set["code"] = Absent /\ QueueSetsCode
  <2>1. \A j \in DOMAIN queue' : queue'[j].set["code"] = 0 => j \in DOMAIN queue
    BY <1>1, <1>3, ValuesAssumption
  <2> QED BY <1>1, <1>3, <2>1 DEF QueueSetsCode
<1> QED BY <1>2, <1>3

\* The oldest task is carried out.
LEMMA ExecuteSetsCode ==
    ASSUME Types, SessionInv, Execute, QueueSetsCode
    PROVE  QueueSetsCode'
<1>1. /\ 1 \in DOMAIN queue /\ Head(queue) = queue[1] /\ queue[1].set \in Pairs
      /\ queue' = queue /\ queue \in Seq(Jobs)
  BY HeadJob DEF Execute, SessionInv, Types
<1>2. cpe'["code"] = IF queue[1].set["code"] = Absent THEN cpe["code"] ELSE queue[1].set["code"]
  BY <1>1 DEF Execute, Stored, Field
<1>3. \A i \in DOMAIN queue : i >= 1
  BY <1>1
<1>4. queue[1].set["code"] \in {0, 1, Absent}
  BY <1>1, PairValues DEF Field, Value
<1>5. CASE queue[1].set["code"] = 0
  BY <1>1, <1>5 DEF QueueSetsCode
<1>6. CASE queue[1].set["code"] # 0
  BY <1>1, <1>2, <1>4, <1>6 DEF QueueSetsCode
<1> QED BY <1>5, <1>6

\* It leaves the list.
LEMMA FinishSetsCode ==
    ASSUME Types, SessionInv, Finish, QueueSetsCode
    PROVE  QueueSetsCode'
<1>1. /\ queue # <<>> /\ ses.left > 0 /\ queue \in Seq(Jobs)
      /\ queue' = Tail(queue) /\ cpe' = cpe
      /\ queue[1].set["code"] # Absent => cpe["code"] = queue[1].set["code"]
  BY HeadJob DEF Finish, SessionInv, Types, Field
<1>2. /\ \A i \in DOMAIN queue' : i + 1 \in DOMAIN queue /\ queue'[i] = queue[i + 1]
      /\ \A i \in DOMAIN queue : i # 1 => i - 1 \in DOMAIN queue' /\ queue'[i - 1] = queue[i]
      /\ DOMAIN queue \subseteq Nat /\ DOMAIN queue' \subseteq Nat
      /\ \A i \in DOMAIN queue : i >= 1
  BY <1>1, TailJobs
<1>3. ASSUME NEW j \in DOMAIN queue', queue'[j].set["code"] = 0
      PROVE  \E i \in DOMAIN queue' : i > j /\ queue'[i].set["code"] = 1
  <2>1. PICK i \in DOMAIN queue : i > j + 1 /\ queue[i].set["code"] = 1
    BY <1>2, <1>3 DEF QueueSetsCode
  <2>2. i \in Nat /\ j \in Nat /\ i # 1 /\ i - 1 > j
    BY <1>2, <2>1
  <2> QED BY <1>2, <2>1, <2>2
<1>4. cpe["code"] = 1 \/ \E i \in DOMAIN queue' : queue'[i].set["code"] = 1
  <2>1. CASE \E i \in DOMAIN queue : i # 1 /\ queue[i].set["code"] = 1
    BY <1>2, <2>1
  <2>2. CASE queue[1].set["code"] = 1
    BY <1>1, <2>2, ValuesAssumption
  <2>3. CASE cpe["code"] = 1
    BY <2>3
  <2> QED BY <2>1, <2>2, <2>3 DEF QueueSetsCode
<1> QED BY <1>1, <1>3, <1>4 DEF QueueSetsCode

\* A step that makes no restore due, and changes no count but that of the
\* snapshots or the tasks, keeps the invariant.
LEMMA NothingMore ==
    ASSUME Types, RestoresInv,
           count'.restores = count.restores, count'.resets = count.resets,
           count'.faults = count.faults, count'.lost = count.lost,
           RestoreIsDue' => RestoreIsDue, CodeMayComeBack' => CodeMayComeBack
    PROVE  RestoresInv'
<1>1. count \in Histories
  BY DEF Types, Histories
<1>2. ToCome' <= ToCome /\ ToCome' \in Nat /\ ToCome \in Nat
  BY DEF ToCome
<1> HIDE DEF ToCome
<1> QED BY <1>1, <1>2 DEF Histories, RestoresInv

\* A mishap pays for one more restore.
LEMMA OneMore ==
    ASSUME Types, RestoresInv,
           count'.restores = count.restores, count'.lost = count.lost,
           \/ count'.resets = count.resets + 1 /\ count'.faults = count.faults
           \/ count'.resets = count.resets /\ count'.faults = count.faults + 1,
           CodeMayComeBack' => CodeMayComeBack
    PROVE  RestoresInv'
<1>1. count \in Histories
  BY DEF Types, Histories
<1>2. ToCome' <= ToCome + 1 /\ ToCome' \in Nat /\ ToCome \in Nat
  BY DEF ToCome
<1> HIDE DEF ToCome
<1> QED BY <1>1, <1>2 DEF Histories, RestoresInv

LEMMA DetectionRestores ==
    ASSUME Types, SessionInv, RestoresInv,
           ReadPre \/ DeletePre \/ ReadLkg \/ ClearRows \/ PreUnreadable
    PROVE  RestoresInv'
<1> USE DEF Early, Decided
<1>0. ses \in Sessions /\ count \in Histories /\ queue \in Seq(Jobs)
  BY DEF Types, Sessions, Histories
<1>1. CASE ReadPre
  <2>1. /\ ses.at = "pre" /\ ses'.at \in {"lkg", "unpre"}
        /\ UNCHANGED <<cpe, boot, db, lkg, pre, queue, informed, saver, capture, count>>
    BY <1>0, <1>1 DEF ReadPre, Move, Sessions
  <2>2. RestoreIsDue' => RestoreIsDue
    BY <2>1 DEF RestoreIsDue, CodeIsMissing, CodeWillBeSet, QueueSetsCode
  <2>3. CodeMayComeBack' => CodeMayComeBack
    BY <2>1 DEF CodeMayComeBack, CodeIsKnown
  <2> QED BY <2>1, <2>2, <2>3, NothingMore
<1>2. CASE DeletePre
  <2>1. /\ ses.at = "unpre"
        /\ ses'.at = IF ses.boot THEN "all" ELSE "dequeue"
        /\ UNCHANGED <<cpe, boot, db, lkg, queue, informed, saver, capture>>
        /\ count'.restores = count.restores /\ count'.resets = count.resets
        /\ count'.faults = count.faults /\ count'.lost = count.lost
    BY <1>0, <1>2 DEF DeletePre, Move, Sessions, Histories
  <2>2. CASE ses.boot
    <3>1. RestoreIsDue
      BY <2>1, <2>2 DEF RestoreIsDue, SessionInv
    <3>2. ~RestoreIsDue' \/ ~CodeMayComeBack'
      BY <2>1, <2>2 DEF RestoreIsDue, CodeMayComeBack, CodeIsMissing
    <3> QED BY <1>0, <2>1, <3>1, <3>2 DEF RestoresInv, ToCome, Histories
  <2>3. CASE ~ses.boot
    <3>1. RestoreIsDue' => RestoreIsDue
      BY <2>1, <2>3 DEF RestoreIsDue, CodeIsMissing, CodeWillBeSet, QueueSetsCode
    <3>2. CodeMayComeBack' => CodeMayComeBack
      BY <2>1, <2>3 DEF CodeMayComeBack, CodeIsKnown
    <3> QED BY <2>1, <3>1, <3>2, NothingMore
  <2> QED BY <2>2, <2>3
<1>3. CASE ReadLkg
  <2>1. /\ ses.at = "lkg"
        /\ UNCHANGED <<cpe, boot, db, lkg, pre, queue, informed, saver, capture, count>>
    BY <1>3 DEF ReadLkg
  <2>2. CASE lkg # Null /\ IsReset(lkg)
    <3>1. ses'.at = "clear" /\ ses'.held = lkg
      BY <1>0, <1>3, <2>2 DEF ReadLkg, Sessions
    <3>2. RestoreIsDue
      <4>1. CASE ses.boot
        BY <2>1, <4>1 DEF RestoreIsDue, SessionInv
      <4>2. CASE ses.code = 0 /\ lkg["code"] \notin {0, Absent}
        <5>1. lkg["code"] = 1 /\ cpe["code"] = 0
          BY <2>1, <4>2, PairValues DEF SessionInv, Types, Field, Value
        <5> QED BY <2>1, <5>1 DEF RestoreIsDue, CodeIsMissing
      <4> QED BY <2>2, <4>1, <4>2 DEF IsReset
    <3>3. CodeMayComeBack' => CodeMayComeBack
      BY <2>1, <3>1 DEF CodeMayComeBack, CodeIsKnown
    <3> QED BY <2>1, <3>2, <3>3, NothingMore
  <2>3. CASE ~(lkg # Null /\ IsReset(lkg))
    <3>1. ses'.at = "dequeue"
      BY <1>0, <1>3, <2>3 DEF ReadLkg, Move, Sessions
    <3>2. RestoreIsDue' => RestoreIsDue
      BY <2>1, <3>1 DEF RestoreIsDue, CodeIsMissing, CodeWillBeSet, QueueSetsCode
    <3>3. CodeMayComeBack' => CodeMayComeBack
      BY <2>1, <3>1 DEF CodeMayComeBack, CodeIsKnown
    <3> QED BY <2>1, <3>2, <3>3, NothingMore
  <2> QED BY <2>2, <2>3
<1>4. CASE ClearRows
  <2>1. /\ ses.at = "clear" /\ ses'.at = "wifi" /\ ses'.held = ses.held
        /\ db'["code"] = Absent
        /\ UNCHANGED <<cpe, boot, lkg, pre, queue, informed, saver, capture>>
        /\ count'.restores = count.restores + 1 /\ count'.resets = count.resets
        /\ count'.faults = count.faults /\ count'.lost = count.lost
    BY <1>0, <1>4, NoRowsPairs DEF ClearRows, Move, Count, Sessions, Histories, Field
  <2>2. RestoreIsDue
    BY <2>1 DEF RestoreIsDue
  <2>3. RestoreIsDue' => CodeIsMissing'
    BY <2>1 DEF RestoreIsDue
  <2>4. CodeMayComeBack' => CodeMayComeBack /\ lkg["code"] # 1
    BY <2>1, ValuesAssumption DEF CodeMayComeBack, CodeIsKnown
  <2>5. CodeIsMissing' => CodeMayComeBack /\ lkg["code"] = 1
    BY <2>1 DEF CodeIsMissing, CodeWillBeSet, CodeMayComeBack
  <2> QED BY <1>0, <2>1, <2>2, <2>3, <2>4, <2>5 DEF RestoresInv, ToCome, Histories
<1>5. CASE PreUnreadable
  <2>1. /\ ses.at = "pre" /\ ses'.at = "lkg"
        /\ UNCHANGED <<cpe, boot, db, lkg, pre, queue, informed, saver, capture>>
        /\ count'.restores = count.restores /\ count'.resets = count.resets
        /\ count'.faults = count.faults + 1 /\ count'.lost = count.lost
    BY <1>0, <1>5 DEF PreUnreadable, Move, Mishap, Count, Sessions, Histories
  <2>2. CodeMayComeBack' => CodeMayComeBack
    BY <2>1 DEF CodeMayComeBack, CodeIsKnown
  <2> QED BY <2>1, <2>2, OneMore
<1> QED BY <1>1, <1>2, <1>3, <1>4, <1>5

\* The steps that queue the tasks of a restore do not take the code away.
LEMMA RestoringSetsCode ==
    ASSUME Types, CodeWillBeSet, RestoreAll \/ RestoreWiFi \/ RestoreCode \/ RestoreWan
    PROVE  CodeWillBeSet'
<1>1. /\ ses \in Sessions /\ queue \in Seq(Jobs) /\ ses.held["code"] \in {0, 1, Absent}
  BY PairValues DEF Types, Sessions, Field, Value
<1>2. /\ ses.at \in {"all", "wifi", "code", "wan"}
      /\ ses' = [ses EXCEPT !.at = NextPoint]
      /\ UNCHANGED <<cpe, boot, db, lkg, pre, informed, saver, capture, count>>
  BY RestoreSteps
<1>3. /\ ses'.at = NextPoint /\ ses'.held = ses.held
      /\ ses'.at \in {"code", "wan", "dequeue"}
      /\ ses'.at = "code" <=> ses.at = "wifi"
  BY <1>1, <1>2 DEF NextPoint, Sessions
<1>4. PICK set \in Pairs : Joins(set) /\ Brings(set)
  BY RestoreSteps
<1>5. CASE ses.at = "wifi" /\ ses.held["code"] = 1
  BY <1>3, <1>5 DEF CodeWillBeSet
<1>6. CASE ~(ses.at = "wifi" /\ ses.held["code"] = 1)
  <2>1. set["code"] = 1 \/ (set["code"] = Absent /\ QueueSetsCode)
    BY <1>1, <1>2, <1>4, <1>6, ValuesAssumption DEF CodeWillBeSet, Brings
  <2>2. QueueSetsCode'
    BY <1>1, <1>2, <1>4, <2>1, JoinSetsCode
  <2> QED BY <1>3, <2>2 DEF CodeWillBeSet
<1> QED BY <1>5, <1>6

\* The steps that queue the tasks of a restore.
LEMMA RestoringRestores ==
    ASSUME Types, SessionInv, RestoresInv,
           RestoreAll \/ RestoreWiFi \/ RestoreCode \/ RestoreWan
    PROVE  RestoresInv'
<1>1. /\ ses \in Sessions /\ queue \in Seq(Jobs) /\ ses.held["code"] \in {0, 1, Absent}
  BY PairValues DEF Types, Sessions, Field, Value
<1>2. /\ ses.at \in {"all", "wifi", "code", "wan"}
      /\ ses' = [ses EXCEPT !.at = NextPoint]
      /\ UNCHANGED <<cpe, boot, db, lkg, pre, informed, saver, capture, count>>
  BY RestoreSteps
<1>3. /\ ses'.at = NextPoint /\ ses'.held = ses.held
      /\ ses'.at \in {"code", "wan", "dequeue"}
      /\ ses'.at = "code" <=> ses.at = "wifi"
  BY <1>1, <1>2 DEF NextPoint, Sessions
<1>4. PICK set \in Pairs : Joins(set) /\ Brings(set)
  BY RestoreSteps
<1>5. CodeWillBeSet => CodeWillBeSet'
  BY RestoringSetsCode
<1>6. RestoreIsDue' => RestoreIsDue
  BY <1>2, <1>3, <1>5 DEF RestoreIsDue, CodeIsMissing, Decided, Early
<1>7. CodeMayComeBack' => CodeMayComeBack
  <2>1. set["code"] = 1 => ses.at \in {"all", "code"} /\ ses.held["code"] = 1
    BY <1>1, <1>2, <1>4, ValuesAssumption DEF Brings
  <2>2. (\E i \in DOMAIN queue' : queue'[i].set["code"] = 1) =>
           set["code"] = 1 \/ \E i \in DOMAIN queue : queue[i].set["code"] = 1
    BY <1>1, <1>4, JoinsQueue
  <2>3. CodeIsKnown' => CodeIsKnown
    BY <1>2, <1>3, <2>1, <2>2 DEF CodeIsKnown
  <2> QED BY <1>2, <1>3, <2>3 DEF CodeMayComeBack
<1> QED BY <1>2, <1>6, <1>7, NothingMore

\* The steps of the session after the InformResponse.
LEMMA WorkingRestores ==
    ASSUME Types, SessionInv, RestoresInv,
           Respond \/ Summon \/ Dispatch \/ Execute \/ Finish \/ Close
    PROVE  RestoresInv'
<1> USE DEF Early, Decided, Working
<1>0. /\ ses \in Sessions /\ queue \in Seq(Jobs)
      /\ NoSession.at = "none" /\ NoSession.held = NoRows
  BY DEF Types, Sessions, NoSession
<1>1. CASE Respond
  <2>1. /\ ses.at = "dequeue" /\ ses'.at = "summon" /\ boot' = FALSE
        /\ UNCHANGED <<cpe, db, lkg, queue, informed, capture, count>>
    BY <1>1 DEF Respond, NoSession
  <2>2. RestoreIsDue' => RestoreIsDue
    BY <2>1 DEF RestoreIsDue, CodeIsMissing, CodeWillBeSet, QueueSetsCode
  <2>3. CodeMayComeBack' => CodeMayComeBack
    BY <2>1 DEF CodeMayComeBack, CodeIsKnown
  <2> QED BY <2>1, <2>2, <2>3, NothingMore
<1>2. CASE Summon \/ Dispatch
  <2>1. /\ ses.at \in {"summon", "tasks"} /\ ses'.at \in {"tasks", "sent"}
        /\ UNCHANGED <<cpe, boot, lkg, queue, informed, capture, count>>
    BY <1>0, <1>2 DEF Summon, Dispatch, Move, Sessions
  <2>2. db'["code"] = 1 => 1 \in {db["code"], cpe["code"]}
    BY <1>2 DEF Summon, Dispatch, Stored, Types, Field
  <2>3. RestoreIsDue' => RestoreIsDue
    BY <2>1 DEF RestoreIsDue, CodeIsMissing, CodeWillBeSet, QueueSetsCode
  <2>4. CodeMayComeBack' => CodeMayComeBack
    BY <2>1, <2>2 DEF CodeMayComeBack, CodeIsKnown
  <2> QED BY <2>1, <2>3, <2>4, NothingMore
<1>3. CASE Execute
  <2>1. /\ ses.at = "sent" /\ ses'.at = "executed"
        /\ UNCHANGED <<boot, db, lkg, queue, informed, capture, count>>
    BY <1>0, <1>3 DEF Execute, Move, Sessions
  <2>2. 1 \in DOMAIN queue /\ Head(queue) = queue[1]
    BY <2>1, HeadJob DEF SessionInv
  <2>3. cpe'["code"] = 1 => cpe["code"] = 1 \/ queue[1].set["code"] = 1
    BY <1>3, <2>2 DEF Execute, Stored, Field
  <2>4. CodeWillBeSet => CodeWillBeSet'
    BY <1>3, <2>1, ExecuteSetsCode DEF CodeWillBeSet
  <2>5. RestoreIsDue' => RestoreIsDue
    BY <2>1, <2>4 DEF RestoreIsDue, CodeIsMissing
  <2>6. CodeMayComeBack' => CodeMayComeBack
    BY <2>1, <2>2, <2>3 DEF CodeMayComeBack, CodeIsKnown
  <2> QED BY <2>1, <2>5, <2>6, NothingMore
<1>4. CASE Finish
  <2>1. /\ ses.at = "executed" /\ ses'.at = "tasks" /\ queue' = Tail(queue)
        /\ UNCHANGED <<cpe, boot, lkg, informed, capture, count>>
    BY <1>0, <1>4 DEF Finish, Sessions
  <2>2. /\ queue # <<>> /\ 1 \in DOMAIN queue /\ Head(queue) = queue[1]
        /\ queue[1].set \in Pairs
    BY <2>1, HeadJob DEF SessionInv
  <2>3. db'["code"] = 1 => db["code"] = 1 \/ queue[1].set["code"] = 1
    BY <1>4, <2>2 DEF Finish, Stored, Field, Pairs, Rows
  <2>4. (\E i \in DOMAIN queue' : queue'[i].set["code"] = 1) =>
           \E i \in DOMAIN queue : queue[i].set["code"] = 1
    BY <1>0, <2>1, <2>2, TailJobs
  <2>5. CodeWillBeSet => CodeWillBeSet'
    BY <1>4, <2>1, FinishSetsCode DEF CodeWillBeSet
  <2>6. RestoreIsDue' => RestoreIsDue
    BY <2>1, <2>5 DEF RestoreIsDue, CodeIsMissing
  <2>7. CodeMayComeBack' => CodeMayComeBack
    BY <2>1, <2>2, <2>3, <2>4 DEF CodeMayComeBack, CodeIsKnown
  <2> QED BY <2>1, <2>6, <2>7, NothingMore
<1>5. CASE Close
  <2>1. /\ ses.at = "tasks" /\ ses.left = 0 /\ ses'.at = "none"
        /\ UNCHANGED <<cpe, boot, db, lkg, queue, informed, capture, count>>
    BY <1>0, <1>5 DEF Close
  <2>2. \A i \in DOMAIN queue : queue[i].set["code"] = Absent
    <3>1. \A i \in DOMAIN queue : i > 0
      BY <1>0
    <3> QED BY <2>1, <3>1, NoRowsPairs DEF SessionInv, Field
  <2>3. QueueSetsCode => cpe["code"] = 1
    BY <2>2, ValuesAssumption DEF QueueSetsCode
  <2>4. RestoreIsDue' => RestoreIsDue
    <3>1. ~boot
      BY <2>1 DEF SessionInv
    <3>2. CodeWillBeSet <=> QueueSetsCode
      BY <2>1 DEF CodeWillBeSet
    <3>3. CodeWillBeSet' <=> QueueSetsCode
      BY <2>1 DEF CodeWillBeSet, QueueSetsCode
    <3> QED BY <2>1, <2>3, <3>1, <3>2, <3>3 DEF RestoreIsDue, CodeIsMissing
  <2>5. CodeMayComeBack' => CodeMayComeBack
    BY <2>1 DEF CodeMayComeBack, CodeIsKnown
  <2> QED BY <2>1, <2>4, <2>5, NothingMore
<1> QED BY <1>1, <1>2, <1>3, <1>4, <1>5

\* last_known_good is overwritten: it may lose the code, and it may get it back.
LEMMA CaptureRestores ==
    ASSUME Types, SessionInv, RestoresInv, CaptureSaves
    PROVE  RestoresInv'
<1>0. count \in Histories /\ lkg["code"] \in {0, 1, Absent}
      /\ capture.rows["code"] \in {0, 1, Absent}
  BY PairValues DEF Types, Histories, Field, Value
<1>1. /\ capture.at = "save" /\ lkg' = capture.rows
      /\ UNCHANGED <<cpe, boot, db, queue, ses, informed>>
      /\ capture'.rows["code"] = Absent
  BY NoRowsPairs, RestingType DEF CaptureSaves, Field
<1>2. /\ count'.restores = count.restores /\ count'.resets = count.resets
      /\ count'.faults = count.faults
      /\ count'.lost \in Nat /\ count'.lost >= count.lost
      /\ lkg["code"] = 1 /\ capture.rows["code"] # 1 /\ lkg # Null => count'.lost = count.lost + 1
  <2>1. lkg["code"] = 1 /\ capture.rows["code"] # 1 =>
           \E f \in Field : Chosen(lkg[f]) /\ ~Chosen(capture.rows[f])
    BY <1>0, ChosenIsOne, PairValues DEF Field, Value
  <2>2. \/ count' = [count EXCEPT !.lost = count.lost + 1]
        \/ /\ count' = [count EXCEPT !.lost = count.lost + 0]
           /\ ~(lkg # Null /\ \E f \in Field : Chosen(lkg[f]) /\ ~Chosen(capture.rows[f]))
    BY DEF CaptureSaves
  <2> QED BY <1>0, <2>1, <2>2 DEF Histories
<1>3. CodeIsKnown' => CodeIsKnown
  BY <1>1, ValuesAssumption DEF CodeIsKnown
<1>4. RestoreIsDue' => RestoreIsDue \/ (lkg["code"] # 1 /\ lkg'["code"] = 1)
  BY <1>1 DEF RestoreIsDue, CodeIsMissing, CodeWillBeSet, QueueSetsCode
<1>5. CodeMayComeBack' => CodeMayComeBack \/ (lkg["code"] = 1 /\ lkg'["code"] # 1)
  BY <1>1, <1>3 DEF CodeMayComeBack, CodeIsKnown
<1>6. lkg["code"] # 1 /\ lkg'["code"] = 1 =>
         CodeMayComeBack /\ (~CodeMayComeBack' \/ RestoreIsDue)
  BY <1>1 DEF CodeMayComeBack, CodeIsKnown, RestoreIsDue
<1>7. ToCome' <= ToCome + (IF lkg["code"] = 1 /\ lkg'["code"] # 1 THEN 1 ELSE 0)
  BY <1>4, <1>5, <1>6 DEF ToCome
<1>8. ToCome' \in Nat /\ ToCome \in Nat
  BY DEF ToCome
<1> HIDE DEF ToCome
<1>9. lkg # Null
  BY PairsAreRows DEF Types
<1>10. count'.lost >= count.lost + (IF lkg["code"] = 1 /\ lkg'["code"] # 1 THEN 1 ELSE 0)
  BY <1>0, <1>1, <1>2, <1>9 DEF Histories
<1> QED BY <1>0, <1>2, <1>7, <1>8, <1>10 DEF Histories, RestoresInv

\* Resets, cuts, restarts and refusals.
LEMMA MishapRestores ==
    ASSUME Types, SessionInv, RestoresInv, Reset \/ Cut \/ Restart \/ Refuse
    PROVE  RestoresInv'
<1>0. /\ ses \in Sessions /\ queue \in Seq(Jobs) /\ count \in Histories
      /\ NoSession.at = "none"
  BY DEF Types, Sessions, NoSession, Histories
<1>1. /\ count'.restores = count.restores /\ count'.lost = count.lost
      /\ \/ count'.resets = count.resets + 1 /\ count'.faults = count.faults
         \/ count'.resets = count.resets /\ count'.faults = count.faults + 1
  <2>1. CASE Reset \/ Cut \/ Restart
    BY <1>0, <2>1 DEF Reset, Cut, Restart, Mishap, Count, Histories
  <2>2. CASE Refuse
    BY <1>0, <2>2 DEF Refuse, Histories
  <2> QED BY <2>1, <2>2
<1>2. /\ ses'.at \in {"none", "tasks"} /\ UNCHANGED <<db, lkg>>
      /\ cpe'["code"] \in {0, cpe["code"]} /\ informed' \in {Absent, informed}
      /\ capture'.rows \in {NoRows, capture.rows}
  BY <1>0, RestingType, NoRowsPairs DEF Reset, Cut, Restart, Refuse, Sessions, Field
<1>3. (\E i \in DOMAIN queue' : queue'[i].set["code"] = 1) =>
         \E i \in DOMAIN queue : queue[i].set["code"] = 1
  <2>1. CASE Refuse
    <3>1. queue # <<>> /\ queue' = Tail(queue)
      BY <2>1, HeadJob DEF Refuse, SessionInv
    <3> QED BY <1>0, <3>1, TailJobs
  <2>2. CASE UNCHANGED queue
    BY <2>2
  <2> QED BY <2>1, <2>2 DEF Reset, Cut, Restart
<1>4. CodeIsKnown' => CodeIsKnown
  BY <1>2, <1>3, NoRowsPairs, ValuesAssumption DEF CodeIsKnown, Field
<1>5. CodeMayComeBack' => CodeMayComeBack
  BY <1>2, <1>4 DEF CodeMayComeBack
<1> QED BY <1>1, <1>5, OneMore

LEMMA NextRestores == Types /\ SessionInv /\ RestoresInv /\ [Next]_vars => RestoresInv'
<1> SUFFICES ASSUME Types, SessionInv, RestoresInv, [Next]_vars PROVE RestoresInv'
  OBVIOUS
<1> USE DEF Early
<1>0. ses \in Sessions /\ queue \in Seq(Jobs) /\ count \in Histories
  BY DEF Types, Sessions, Histories
<1>1. CASE Inform
  <2>1. /\ ses.at = "none" /\ ses'.at = "pre"
        /\ informed' = cpe["code"]
        /\ UNCHANGED <<cpe, boot, db, lkg, queue, capture, count>>
    BY <1>1 DEF Inform, NoSession
  <2>2. RestoreIsDue' => RestoreIsDue
    BY <2>1 DEF RestoreIsDue, CodeIsMissing, CodeWillBeSet, QueueSetsCode, Decided
  <2>3. CodeMayComeBack' => CodeMayComeBack
    BY <2>1 DEF CodeMayComeBack, CodeIsKnown
  <2> QED BY <2>1, <2>2, <2>3, NothingMore
<1>2. CASE StoreInform \/ SaverSaves \/ CaptureReads
  <2>1. /\ UNCHANGED <<cpe, boot, lkg, queue, ses>>
        /\ db'["code"] \in {db["code"], informed} /\ informed' \in {Absent, informed}
        /\ capture'.rows \in {db, capture.rows}
        /\ count'.restores = count.restores /\ count'.resets = count.resets
        /\ count'.faults = count.faults /\ count'.lost = count.lost
    <3>1. CASE StoreInform
      <4>1. \A g \in Field : Only("code", informed)[g] = IF g = "code" THEN informed ELSE Absent
        BY OnlyPairs DEF Types, Field
      <4> QED BY <3>1, <4>1 DEF StoreInform, Stored, Field
    <3>2. CASE SaverSaves
      BY <3>2 DEF SaverSaves
    <3>3. CASE CaptureReads
      BY <1>0, <3>3 DEF CaptureReads, Count, Histories
    <3> QED BY <1>2, <3>1, <3>2, <3>3
  <2>2. RestoreIsDue' => RestoreIsDue
    BY <2>1 DEF RestoreIsDue, CodeIsMissing, CodeWillBeSet, QueueSetsCode
  <2>3. CodeMayComeBack' => CodeMayComeBack
    BY <2>1, ValuesAssumption DEF CodeMayComeBack, CodeIsKnown
  <2> QED BY <2>1, <2>2, <2>3, NothingMore
<1>3. CASE AskReboot
  <2>1. /\ UNCHANGED <<cpe, boot, db, lkg, ses, informed, capture>>
        /\ count'.restores = count.restores /\ count'.resets = count.resets
        /\ count'.faults = count.faults /\ count'.lost = count.lost
    BY <1>0, <1>3 DEF AskReboot, Count, Histories
  <2>2. Joins(NoRows) /\ NoRows \in Pairs /\ NoRows["code"] = Absent
    <3>1. Task("reboot", NoRows) \in Jobs /\ Task("reboot", NoRows).set = NoRows
      BY MakeJob, NoRowsPairs
    <3> QED BY <1>3, <3>1, NoRowsPairs DEF AskReboot, Enqueue, Joins, Field
  <2>3. CodeWillBeSet => CodeWillBeSet'
    BY <1>0, <2>1, <2>2, JoinSetsCode DEF CodeWillBeSet
  <2>4. RestoreIsDue' => RestoreIsDue
    BY <2>1, <2>3 DEF RestoreIsDue, CodeIsMissing
  <2>5. (\E i \in DOMAIN queue' : queue'[i].set["code"] = 1) =>
           \E i \in DOMAIN queue : queue[i].set["code"] = 1
    BY <1>0, <2>2, JoinsQueue, ValuesAssumption
  <2>6. CodeMayComeBack' => CodeMayComeBack
    BY <2>1, <2>5 DEF CodeMayComeBack, CodeIsKnown
  <2> QED BY <2>1, <2>4, <2>6, NothingMore
<1>4. CASE UNCHANGED vars
  BY <1>4 DEF vars, RestoresInv, ToCome, RestoreIsDue, CodeIsMissing, CodeWillBeSet,
              QueueSetsCode, CodeMayComeBack, CodeIsKnown
<1>5. CASE ReadPre \/ DeletePre \/ ReadLkg \/ ClearRows \/ PreUnreadable
  BY <1>5, DetectionRestores
<1>6. CASE RestoreAll \/ RestoreWiFi \/ RestoreCode \/ RestoreWan
  BY <1>6, RestoringRestores
<1>7. CASE Respond \/ Summon \/ Dispatch \/ Execute \/ Finish \/ Close
  BY <1>7, WorkingRestores
<1>8. CASE CaptureSaves
  BY <1>8, CaptureRestores
<1>9. CASE Reset \/ Cut \/ Restart \/ Refuse
  BY <1>9, MishapRestores
<1> QED BY <1>1, <1>2, <1>3, <1>4, <1>5, <1>6, <1>7, <1>8, <1>9 DEF Next, Handler, Background

LEMMA InitRestores == Init => RestoresInv
<1> SUFFICES ASSUME Init PROVE RestoresInv
  OBVIOUS
<1>1. /\ ses.at = "none" /\ ~boot /\ queue = <<>>
      /\ cpe["code"] = 1 /\ lkg["code"] = 1
      /\ count.restores = 0 /\ count.resets = 0 /\ count.faults = 0 /\ count.lost = 0
  BY DEF Init, NoSession, Configured
<1>2. ~RestoreIsDue /\ ~CodeMayComeBack
  BY <1>1 DEF RestoreIsDue, CodeMayComeBack, CodeIsMissing, CodeWillBeSet, QueueSetsCode
<1> QED BY <1>1, <1>2 DEF RestoresInv, ToCome

\* detectAndHandleReset does not queue the last_known_good restore over and over:
\* each time is paid for by a reset, a session that failed, or a snapshot that
\* overwrote a good one (session.go, restoreProvisioningCode "to stop
\* re-detection loop").
THEOREM RestoresAreNotRepeatedHolds == Spec => []RestoresAreNotRepeated
<1>1. Types /\ RestoresInv => RestoresAreNotRepeated
  <2> SUFFICES ASSUME Types, RestoresInv PROVE RestoresAreNotRepeated
    OBVIOUS
  <2>1. count \in Histories
    BY DEF Types, Histories
  <2>2. ToCome \in Nat
    BY DEF ToCome
  <2> HIDE DEF ToCome
  <2> QED BY <2>1, <2>2 DEF Histories, RestoresInv, RestoresAreNotRepeated
<1> QED BY <1>1, InitTypes, InitRestores, NextTypes, NextSession, NextRestores, PTL DEF Spec

(***************************************************************************)
(* What a snapshot has lost, and the state before the first reset.         *)
(***************************************************************************)

\* What a step counts.
LEMMA MishapsCount ==
    ASSUME Types, [Next]_vars
    PROVE  \/ /\ Reset
              /\ count'.resets = count.resets + 1 /\ count'.faults = count.faults
           \/ /\ Cut \/ Restart \/ PreUnreadable \/ Refuse
              /\ count'.resets = count.resets /\ count'.faults = count.faults + 1
           \/ /\ ~(Cut \/ Restart \/ PreUnreadable \/ Refuse \/ Reset)
              /\ count'.resets = count.resets /\ count'.faults = count.faults
<1>0. count \in Histories
  BY DEF Types, Histories
<1>1. CASE Reset
  BY <1>0, <1>1 DEF Reset, Mishap, Count, Histories
<1>2. CASE Cut \/ Restart \/ PreUnreadable
  BY <1>0, <1>2 DEF Cut, Restart, PreUnreadable, Mishap, Count, Histories
<1>3. CASE Refuse
  BY <1>0, <1>3 DEF Refuse, Histories
<1>4. CASE DeletePre \/ ClearRows
  BY <1>0, <1>4, <1>1, <1>2, <1>3 DEF DeletePre, ClearRows, Count, Histories
<1>5. CASE AskReboot \/ CaptureReads \/ CaptureSaves
  BY <1>0, <1>5, <1>1, <1>2, <1>3 DEF AskReboot, CaptureReads, CaptureSaves, Count, Histories
<1>6. CASE RestoreAll \/ RestoreWiFi \/ RestoreCode \/ RestoreWan
  BY <1>6, <1>1, <1>2, <1>3, RestoreSteps
<1>7. CASE Inform \/ StoreInform \/ SaverSaves \/ ReadPre \/ ReadLkg \/ Respond \/ Summon
              \/ Dispatch \/ Execute \/ Finish \/ Close \/ UNCHANGED vars
  <2>1. UNCHANGED count
    BY <1>7 DEF Inform, StoreInform, SaverSaves, ReadPre, ReadLkg, Respond, Summon, Dispatch,
           Execute, Finish, Close, vars
  <2> QED BY <2>1, <1>1, <1>2, <1>3
<1> QED BY <1>1, <1>2, <1>3, <1>4, <1>5, <1>6, <1>7 DEF Next, Handler, Background

LEMMA SameConfigured ==
    ASSUME NEW S, NEW r \in [Field -> S], \A f \in Field : r[f] = 1
    PROVE  r = Configured
BY DEF Configured, Field

LEMMA NextNothingLost == Types /\ NothingLost /\ [Next]_vars => NothingLost'
<1> SUFFICES ASSUME Types, NothingLost, [Next]_vars PROVE NothingLost'
  OBVIOUS
<1>0. count \in Histories
  BY DEF Types, Histories
<1>1. CASE CaptureSaves
  <2> SUFFICES ASSUME count'.lost = 0, NEW f \in Field PROVE lkg'[f] = 1
    BY DEF NothingLost
  <2>1. lkg # Null
    BY PairsAreRows DEF Types
  <2>2. \/ count' = [count EXCEPT !.lost = count.lost + 1]
        \/ /\ count' = [count EXCEPT !.lost = count.lost + 0]
           /\ ~(lkg # Null /\ \E g \in Field : Chosen(lkg[g]) /\ ~Chosen(capture.rows[g]))
    BY <1>1 DEF CaptureSaves
  <2>3. /\ count.lost = 0
        /\ ~(lkg # Null /\ \E g \in Field : Chosen(lkg[g]) /\ ~Chosen(capture.rows[g]))
    BY <1>0, <2>2 DEF Histories
  <2>4. lkg[f] = 1 /\ capture.rows \in Pairs
    BY <2>3 DEF NothingLost, Types
  <2>5. Chosen(capture.rows[f])
    BY <2>1, <2>3, <2>4, ChosenIsOne DEF Value
  <2> QED BY <1>1, <2>4, <2>5, ChosenIsOne, PairValues DEF CaptureSaves
<1>2. CASE DeletePre \/ ClearRows \/ PreUnreadable \/ Refuse
  <2>1. count'.lost = count.lost /\ lkg' = lkg
    BY <1>0, <1>2 DEF DeletePre, ClearRows, PreUnreadable, Refuse, Mishap, Count, Histories
  <2> QED BY <2>1 DEF NothingLost
<1>3. CASE AskReboot \/ CaptureReads \/ Reset \/ Cut \/ Restart
  <2>1. count'.lost = count.lost /\ lkg' = lkg
    BY <1>0, <1>3 DEF AskReboot, CaptureReads, Reset, Cut, Restart, Mishap, Count, Histories
  <2> QED BY <2>1 DEF NothingLost
<1>4. CASE UNCHANGED <<lkg, count>>
  BY <1>4 DEF NothingLost
<1>5. CASE RestoreAll \/ RestoreWiFi \/ RestoreCode \/ RestoreWan
  BY <1>4, <1>5, RestoreSteps
<1> QED
  <2>1. Inform \/ StoreInform \/ SaverSaves \/ ReadPre \/ ReadLkg \/ Respond \/ Summon
           \/ Dispatch \/ Execute \/ Finish \/ Close \/ UNCHANGED vars
           => UNCHANGED <<lkg, count>>
    BY DEF Inform, StoreInform, SaverSaves, ReadPre, ReadLkg, Respond, Summon, Dispatch,
           Execute, Finish, Close, vars
  <2> QED BY <1>1, <1>2, <1>3, <1>4, <1>5, <2>1 DEF Next, Handler, Background

\* A list without rows: what QueueIsIdle says of each.
LEMMA IdleRows ==
    ASSUME QueueIsIdle
    PROVE  /\ \A i \in DOMAIN queue : \A f \in Field : queue[i].set[f] = Absent
           /\ QueueSetsCode <=> cpe["code"] = 1
<1>1. \A i \in DOMAIN queue : \A f \in Field : queue[i].set[f] = Absent
  BY NoRowsPairs DEF QueueIsIdle
<1> QED BY <1>1, ValuesAssumption DEF QueueSetsCode, Field

LEMMA NextNoReset == Types /\ SessionInv /\ NoReset /\ [Next]_vars => NoReset'
<1> SUFFICES ASSUME Types, SessionInv, NoReset, [Next]_vars, count'.resets = 0
             PROVE  /\ cpe' = Configured /\ db' = Configured /\ lkg' = Configured
                    /\ ~boot' /\ QueueIsIdle'
                    /\ ses'.at \notin {"clear", "all", "wifi", "code", "wan"}
                    /\ pre' \in {Null, Configured}
                    /\ informed' # 0
                    /\ capture'.at = "save" => capture'.rows = Configured
  BY DEF NoReset
<1>0. /\ ses \in Sessions /\ queue \in Seq(Jobs) /\ count \in Histories
      /\ NoSession.at = "none" /\ Resting.at = "idle"
  BY DEF Types, Sessions, NoSession, Histories, Resting
<1>1. count.resets = 0 /\ ~Reset
  <2>0. Reset => count'.resets = count.resets + 1
    BY <1>0 DEF Reset, Mishap, Count, Histories
  <2>1. count'.resets \in {count.resets, count.resets + 1}
    BY MishapsCount
  <2>2. count.resets \in Nat
    BY <1>0 DEF Histories
  <2>3. count.resets + 1 # 0
    BY <2>2
  <2> QED BY <2>0, <2>1, <2>3
<1>2. /\ cpe = Configured /\ db = Configured /\ lkg = Configured
      /\ ~boot /\ QueueIsIdle
      /\ ses.at \notin {"clear", "all", "wifi", "code", "wan"}
      /\ pre \in {Null, Configured}
      /\ informed # 0
      /\ capture.at = "save" => capture.rows = Configured
  BY <1>1 DEF NoReset
<1>3. /\ cpe["code"] = 1 /\ \A f \in Field : db[f] = 1 /\ cpe[f] = 1
      /\ \A i \in DOMAIN queue : \A f \in Field : queue[i].set[f] = Absent
  BY <1>2, IdleRows, NoRowsPairs DEF Field
<1>4. CASE Inform \/ ReadPre \/ Respond \/ Dispatch \/ Close
  <2>1. /\ UNCHANGED <<cpe, db, lkg, pre, queue, capture>>
        /\ informed' \in {informed, cpe["code"]} /\ (boot' = boot \/ boot' = FALSE)
        /\ ses'.at \in {"none", "pre", "lkg", "unpre", "summon", "sent"}
    BY <1>0, <1>4 DEF Inform, NoSession, ReadPre, Move, Respond, Dispatch, Close, Sessions
  <2> QED BY <1>2, <1>3, <2>1 DEF QueueIsIdle
<1>14. CASE SaverSaves \/ CaptureReads \/ UNCHANGED vars
  BY <1>2, <1>14 DEF SaverSaves, CaptureReads, vars, QueueIsIdle
<1>15. CASE CaptureSaves
  BY <1>0, <1>2, <1>15 DEF CaptureSaves, QueueIsIdle
<1>5. CASE PreUnreadable \/ Cut \/ Restart
  <2>1. /\ UNCHANGED <<cpe, boot, db, lkg, pre, queue>> /\ informed' \in {informed, Absent}
        /\ ses'.at \in {"none", "lkg"} /\ capture' \in {capture, Resting}
    BY <1>0, <1>5 DEF PreUnreadable, Move, Cut, Restart, Sessions
  <2> QED BY <1>0, <1>2, <2>1, ValuesAssumption DEF QueueIsIdle
<1>6. CASE DeletePre
  <2>1. ~ses.boot
    BY <1>2 DEF SessionInv
  <2> QED BY <1>0, <1>2, <1>6, <2>1 DEF DeletePre, Move, Sessions, QueueIsIdle
<1>7. CASE ReadLkg
  <2>1. ~IsReset(lkg)
    BY <1>2, <1>3, <1>7 DEF SessionInv, IsReset, ReadLkg
  <2> QED BY <1>0, <1>2, <1>7, <2>1 DEF ReadLkg, Move, Sessions, QueueIsIdle
<1>8. CASE StoreInform
  <2>1. informed = 1
    BY <1>2, <1>8 DEF StoreInform, Types, Value
  <2>2. \A g \in Field : Only("code", 1)[g] = IF g = "code" THEN 1 ELSE Absent
    BY OnlyPairs DEF Field, Value
  <2>3. db' \in Pairs /\ \A f \in Field : db'[f] = 1
    BY <1>3, <1>8, <2>1, <2>2, NextTypes DEF StoreInform, Stored, Types
  <2>4. db' = Configured
    BY <2>3, SameConfigured DEF Pairs, Rows
  <2> QED BY <1>2, <1>8, <2>4, ValuesAssumption DEF StoreInform, QueueIsIdle
<1>9. CASE Summon
  <2>1. db' \in Pairs
    BY NextTypes DEF Types
  <2>2. \A f \in Field : db'[f] = 1
    BY <1>3, <1>9 DEF Summon, Stored, Types, Field
  <2>3. db' = Configured
    BY <2>1, <2>2, SameConfigured DEF Pairs, Rows
  <2> QED BY <1>0, <1>2, <1>9, <2>3 DEF Summon, Move, Sessions, QueueIsIdle
<1>10. CASE Execute
  <2>1. 1 \in DOMAIN queue /\ Head(queue) = queue[1]
    BY <1>10, HeadJob DEF Execute, SessionInv
  <2>2. cpe' \in [Field -> Value \cup {NoPassword}] /\ \A f \in Field : cpe'[f] = 1
    BY <1>3, <1>10, <2>1, NextTypes DEF Execute, Stored, Types
  <2>3. cpe' = Configured
    BY <2>2, SameConfigured
  <2> QED BY <1>0, <1>2, <1>10, <2>3 DEF Execute, Move, Sessions, QueueIsIdle
<1>11. CASE Finish \/ Refuse
  <2>1. /\ queue # <<>> /\ 1 \in DOMAIN queue /\ Head(queue) = queue[1]
        /\ queue[1].set \in Pairs /\ queue' = Tail(queue)
    BY <1>11, HeadJob DEF Finish, Refuse, SessionInv
  <2>2. QueueIsIdle'
    BY <1>0, <1>2, <2>1, TailJobs DEF QueueIsIdle
  <2>3. db' \in Pairs
    BY NextTypes DEF Types
  <2>4. \A f \in Field : db'[f] = 1
    BY <1>3, <1>11, <2>1 DEF Finish, Refuse, Stored, Field, Pairs, Rows
  <2>5. db' = Configured
    BY <2>3, <2>4, SameConfigured DEF Pairs, Rows
  <2>6. /\ UNCHANGED <<cpe, boot, lkg, pre, informed, capture>>
        /\ ses' = [ses EXCEPT !.at = "tasks", !.left = ses.left - 1]
    BY <1>11 DEF Finish, Refuse
  <2>7. ses'.at = "tasks"
    BY <1>0, <2>6 DEF Sessions
  <2> QED BY <1>2, <2>2, <2>5, <2>6, <2>7
<1>12. CASE AskReboot
  <2>1. Task("reboot", NoRows) \in Jobs /\ Task("reboot", NoRows).set = NoRows
    BY MakeJob, NoRowsPairs
  <2>2. QueueIsIdle'
    BY <1>0, <1>2, <1>12, <2>1, AppendJob DEF AskReboot, Enqueue, QueueIsIdle
  <2> QED BY <1>2, <1>12, <2>2 DEF AskReboot
<1>13. ~(RestoreAll \/ RestoreWiFi \/ RestoreCode \/ RestoreWan \/ ClearRows)
  BY <1>2, RestoreSteps DEF ClearRows
<1> QED BY <1>1, <1>4, <1>5, <1>6, <1>7, <1>8, <1>9, <1>10, <1>11, <1>12, <1>13, <1>14, <1>15
    DEF Next, Handler, Background

(***************************************************************************)
(* One reset, and no other mishap.                                         *)
(***************************************************************************)

LEMMA JoinSecured ==
    ASSUME queue \in Seq(Jobs), NEW set \in Pairs, Joins(set), NEW f \in Field,
           set[f] \in {Absent, 1}, \A i \in DOMAIN queue : queue[i].set[f] \in {Absent, 1}
    PROVE  /\ \A i \in DOMAIN queue' : queue'[i].set[f] \in {Absent, 1}
           /\ set[f] = 1 \/ (\E i \in DOMAIN queue : queue[i].set[f] = 1) =>
                 \E i \in DOMAIN queue' : queue'[i].set[f] = 1
<1>1. set[f] = 1 => set # NoRows
  BY NoRowsPairs, ValuesAssumption
<1> QED BY <1>1, JoinsQueue

\* A CPE that will have no code has none.
LEMMA MissingCode ==
    ASSUME Types, CodeTasksAgree, ~QueueSetsCode
    PROVE  cpe["code"] = 0 /\ \A i \in DOMAIN queue : queue[i].set["code"] # 1
<1>1. cpe["code"] \in {0, 1}
  BY DEF Types, Field, Value
<1>2. CASE \E i \in DOMAIN queue : queue[i].set["code"] = 0
  BY <1>2 DEF CodeTasksAgree
<1>3. CASE ~\E i \in DOMAIN queue : queue[i].set["code"] = 0
  BY <1>1, <1>3 DEF QueueSetsCode
<1> QED BY <1>2, <1>3

\* The reset itself, the first.
LEMMA ResetOnce ==
    ASSUME Types, SessionInv, NoReset, Reset, count.resets = 0
    PROVE  Once'
<1> USE DEF Kept, QueueIsIdle, Undecided, Early
<1>1. /\ cpe = Configured /\ db = Configured /\ lkg = Configured
      /\ QueueIsIdle /\ pre \in {Null, Configured}
      /\ capture.at = "save" => capture.rows = Configured
  BY DEF NoReset
<1>2. /\ ses'.at = "none" /\ cpe' = Factory /\ boot' = TRUE
      /\ UNCHANGED <<db, lkg, pre, queue, informed, capture>>
  BY DEF Reset, NoSession
<1>3. \A f \in Field : Configured[f] = 1
  BY NoRowsPairs
<1>4. Kept("wifi")' /\ Kept("wan")'
  BY <1>1, <1>2, <1>3 DEF Field
<1>5. Waiting'
  BY <1>1, <1>2, <1>3, <1>4 DEF Waiting, Good, Field
<1>6. Placed'
  BY <1>2 DEF Placed
<1>7. \A i \in DOMAIN queue' : \A f \in Field : queue'[i].set[f] = Absent
  BY <1>1, <1>2, NoRowsPairs
<1>8. Bringing'
  BY <1>2, <1>7, ValuesAssumption DEF Bringing, Field
<1>9. CodeTasksAgree'
  BY <1>2, <1>7, ValuesAssumption DEF CodeTasksAgree, Field
<1>10. capture.at # "save" => capture.rows["code"] = Absent
  BY NoRowsPairs DEF SessionInv, Types, Field
<1>11. CodeLeaves'
  BY <1>1, <1>2, <1>3, <1>4, <1>10, ValuesAssumption DEF CodeLeaves, Field
<1> QED BY <1>5, <1>6, <1>8, <1>9, <1>11 DEF Once, CodeCase

\* The handler up to the restore.
LEMMA DetectionOnce ==
    ASSUME Types, SessionInv, Once, Inform \/ ReadPre \/ DeletePre \/ ReadLkg \/ ClearRows
    PROVE  Once'
<1> USE DEF Undecided, Early
<1>0. /\ ses \in Sessions /\ boot \in BOOLEAN
      /\ Waiting /\ Placed /\ Bringing /\ CodeTasksAgree /\ CodeCase
  BY DEF Types, Sessions, Once
<1>1. /\ ses.at \in {"none", "pre", "unpre", "lkg", "clear"} /\ QueueIsIdle
      /\ \A i \in DOMAIN queue : \A f \in Field : queue[i].set[f] = Absent
      /\ UNCHANGED <<cpe, boot, lkg, queue, capture>>
  BY <1>0, IdleRows DEF Inform, ReadPre, DeletePre, ReadLkg, ClearRows, Waiting
<1>2. /\ QueueSetsCode' <=> QueueSetsCode
      /\ QueueIsIdle'
      /\ QueueSetsCode <=> cpe["code"] = 1
      /\ CodeWillBeSet => QueueSetsCode
  BY <1>1, IdleRows DEF QueueSetsCode, QueueIsIdle, CodeWillBeSet
<1>3. cpe = Factory => cpe["code"] = 0
  BY NoRowsPairs DEF Field
<1>4. CASE Inform \/ ReadPre
  <2>1. /\ ses.at \in {"none", "pre"} /\ ses'.at \in {"pre", "lkg", "unpre"}
        /\ ses'.at = "unpre" => ses'.held = pre /\ pre # Null
        /\ UNCHANGED <<db, pre>> /\ informed' \in {informed, cpe["code"]}
        /\ ses.at = "pre" => informed' = informed
        /\ ses.at = "none" => informed' = cpe["code"]
    BY <1>0, <1>4 DEF Inform, NoSession, ReadPre, Move, Sessions
  <2>2. Waiting'
    BY <1>0, <1>1, <1>2, <2>1 DEF Waiting, Kept, Good
  <2>3. Placed'
    BY <1>0, <1>1, <2>1 DEF Placed, Secured, Kept, InHand
  <2>4. Bringing' /\ CodeTasksAgree'
    BY <1>0, <1>1, <2>1 DEF Bringing, CodeTasksAgree
  <2>5. CodeCase'
    <3>1. CASE cpe["code"] = 1
      BY <1>1, <1>2, <2>1, <3>1 DEF CodeCase, CodeWillBeSet
    <3>2. CASE cpe["code"] # 1 /\ NoCodeAnywhere
      BY <1>1, <2>1, <3>2 DEF CodeCase, NoCodeAnywhere, NoCodeInStore
    <3>3. CASE cpe["code"] # 1 /\ CodeLeaves
      BY <1>1, <2>1, <3>3 DEF CodeCase, CodeLeaves, NoCodeAnywhere, NoCodeInStore, Kept
    <3> QED BY <1>0, <1>2, <3>1, <3>2, <3>3 DEF CodeCase
  <2> QED BY <2>2, <2>3, <2>4, <2>5 DEF Once
<1>5. CASE DeletePre
  <2>1. /\ ses.at = "unpre" /\ ses'.held = ses.held
        /\ ses'.at = IF ses.boot THEN "all" ELSE "dequeue"
        /\ UNCHANGED <<db, informed>>
    BY <1>0, <1>5 DEF DeletePre, Move, Sessions
  <2>2. boot <=> ses.boot
    BY <2>1 DEF SessionInv, Types
  <2>3. Placed'
    <3>1. CASE boot
      BY <1>0, <1>1, <2>1, <2>2, <3>1 DEF Placed, Waiting, Secured, Kept, InHand, Good, Field
    <3>2. CASE ~boot
      BY <1>0, <1>1, <2>1, <2>2, <3>2 DEF Placed, Secured, Kept, InHand
    <3> QED BY <3>1, <3>2
  <2>4. Waiting'
    BY <2>1 DEF Waiting
  <2>5. Bringing'
    BY <1>0, <1>1, <2>1, <2>2 DEF Bringing, Waiting, Good, Kept
  <2>6. CodeTasksAgree'
    BY <1>0, <1>1, <1>2, <1>3, <2>1, <2>2 DEF CodeTasksAgree, Waiting
  <2>7. CodeWillBeSet => CodeWillBeSet'
    BY <1>0, <1>2, <1>3, <2>1, <2>2 DEF CodeWillBeSet, Waiting
  <2>8. CodeCase'
    BY <1>0, <1>1, <2>1, <2>7 DEF CodeCase, CodeLeaves, NoCodeAnywhere, NoCodeInStore, Kept
  <2> QED BY <2>3, <2>4, <2>5, <2>6, <2>8 DEF Once
<1>6. CASE ReadLkg
  <2>1. /\ ses.at = "lkg" /\ UNCHANGED <<db, informed, pre>>
        /\ IF IsReset(lkg) THEN ses'.at = "clear" /\ ses'.held = lkg ELSE ses'.at = "dequeue"
    BY <1>0, <1>6, PairsAreRows DEF ReadLkg, Move, Sessions, Types
  <2>2. ses.boot = boot /\ ses.code = cpe["code"]
    BY <2>1 DEF SessionInv, Types
  <2>3. CodeWillBeSet => CodeWillBeSet'
    BY <1>2, <2>1 DEF CodeWillBeSet
  <2>4. CodeCase'
    BY <1>0, <1>1, <2>1, <2>3 DEF CodeCase, CodeLeaves, NoCodeAnywhere, NoCodeInStore, Kept
  <2>5. Bringing' /\ CodeTasksAgree'
    BY <1>0, <1>1, <2>1 DEF Bringing, CodeTasksAgree
  <2>6. Placed'
    BY <1>0, <1>1, <2>1, <2>2 DEF Placed, Secured, Kept, InHand, IsReset
  <2>7. Waiting'
    <3>1. CASE boot
      <4>1. lkg["code"] = 1 \/ NoCodeAnywhere
        BY <1>0, <1>2, <1>3, <2>1, <3>1 DEF Waiting, CodeCase, CodeLeaves
      <4> QED BY <1>0, <1>1, <1>2, <1>3, <2>1, <3>1, <4>1
              DEF Waiting, Kept, Good, NoCodeAnywhere, NoCodeInStore
    <3>2. CASE ~boot /\ IsReset(lkg)
      <4>1. cpe["code"] = 0 /\ lkg["code"] = 1
        BY <2>2, <3>2, PairValues DEF IsReset, Types, Field, Value
      <4>2. CodeLeaves
        BY <1>0, <1>2, <4>1 DEF CodeCase, NoCodeAnywhere
      <4> QED BY <1>1, <1>2, <2>1, <3>2, <4>1, <4>2 DEF CodeLeaves, Kept, Waiting, Good
    <3>3. CASE ~boot /\ ~IsReset(lkg)
      BY <1>1, <2>1, <3>3 DEF Waiting
    <3> QED BY <3>1, <3>2, <3>3
  <2> QED BY <2>4, <2>5, <2>6, <2>7 DEF Once
<1>7. CASE ClearRows
  <2>1. /\ ses.at = "clear" /\ ses'.at = "wifi" /\ ses'.held = ses.held
        /\ db' = NoRows /\ UNCHANGED <<informed, pre>>
    BY <1>0, <1>7 DEF ClearRows, Move, Sessions
  <2>2. Good(ses.held) /\ (ses.held["code"] = 1 \/ NoCodeAnywhere)
    BY <1>0, <2>1 DEF Waiting
  <2>3. Waiting' /\ Placed' /\ Bringing' /\ CodeTasksAgree'
    BY <1>0, <1>1, <2>1, <2>2, ValuesAssumption
       DEF Waiting, Placed, Bringing, CodeTasksAgree, Secured, InHand, Good, Field
  <2>4. CodeCase'
    BY <1>1, <2>1, <2>2, NoRowsPairs, ValuesAssumption
       DEF CodeCase, CodeWillBeSet, NoCodeAnywhere, NoCodeInStore, Field
  <2> QED BY <2>3, <2>4 DEF Once
<1> QED BY <1>4, <1>5, <1>6, <1>7

\* The steps that queue the tasks of a restore.
LEMMA RestoringOnce ==
    ASSUME Types, SessionInv, Once, RestoreAll \/ RestoreWiFi \/ RestoreCode \/ RestoreWan
    PROVE  Once'
<1> USE DEF Undecided, Early
<1>0. /\ ses \in Sessions /\ queue \in Seq(Jobs)
      /\ ses.held["code"] \in {0, 1, Absent}
      /\ Waiting /\ Placed /\ Bringing /\ CodeTasksAgree /\ CodeCase
  BY PairValues DEF Types, Sessions, Once, Field, Value
<1>1. /\ ses.at \in {"all", "wifi", "code", "wan"}
      /\ ses' = [ses EXCEPT !.at = NextPoint]
      /\ UNCHANGED <<cpe, boot, db, lkg, pre, informed, capture>>
  BY RestoreSteps
<1>2. /\ ses'.held = ses.held
      /\ ses.at = "all" => ses'.at = "dequeue"
      /\ ses.at = "wifi" => ses'.at = "code"
      /\ ses.at = "code" => ses'.at = "wan"
      /\ ses.at = "wan" => ses'.at = "dequeue"
  BY <1>0, <1>1 DEF NextPoint, Sessions
<1>3. PICK set \in Pairs : Joins(set) /\ Brings(set)
  BY RestoreSteps
<1>4. /\ set["wifi"] = IF ses.at \in {"all", "wifi"} THEN 1 ELSE Absent
      /\ set["code"] \in {0, 1, Absent} /\ (set["code"] = 0 => ses.at = "all")
      /\ set["wan"] # 0 /\ (ses.at # "all" => set["wan"] = IF ses.at = "wan" THEN 1 ELSE Absent)
  BY <1>0, <1>1, <1>3, ValuesAssumption DEF Brings, Bringing
<1>5. \A i \in DOMAIN queue' : \/ i \in DOMAIN queue /\ queue'[i] = queue[i]
                               \/ queue'[i].set = set
  BY <1>0, <1>3, JoinsQueue
<1>6. Waiting'
  BY <1>1, <1>2 DEF Waiting
<1>7. Kept("wan") => Kept("wan")'
  BY <1>1 DEF Kept
<1>8. Secured("wifi")'
  <2>1. Secured("wifi")
    BY <1>0, <1>1 DEF Placed
  <2>2. set["wifi"] \in {Absent, 1}
    BY <1>4
  <2> QED BY <1>0, <1>1, <1>2, <1>3, <1>4, <2>1, <2>2, JoinSecured DEF Secured, InHand, Field
<1>9. Secured("wan")' \/ Kept("wan")'
  <2>1. CASE Kept("wan")
    BY <1>7, <2>1
  <2>2. CASE ~Kept("wan")
    <3>1. Secured("wan") /\ ses.at # "all"
      BY <1>0, <1>1, <2>2 DEF Placed, Bringing
    <3>2. set["wan"] \in {Absent, 1}
      BY <1>4, <3>1
    <3> QED BY <1>0, <1>1, <1>2, <1>3, <1>4, <3>1, <3>2, JoinSecured DEF Secured, InHand, Field
  <2> QED BY <2>1, <2>2
<1>10. Placed'
  BY <1>8, <1>9 DEF Placed
<1>11. Bringing'
  BY <1>0, <1>1, <1>2, <1>4, <1>5 DEF Bringing
<1>12. CodeTasksAgree'
  <2>1. CASE ses.at = "all"
    <3>1. cpe["code"] = 0 /\ \A i \in DOMAIN queue : queue[i].set["code"] = Absent
      BY <1>0, <2>1, IdleRows DEF CodeTasksAgree, Field
    <3> QED BY <1>1, <1>2, <1>5, <2>1, <3>1, ValuesAssumption DEF CodeTasksAgree
  <2>2. CASE ses.at # "all"
    <3>1. \A i \in DOMAIN queue : queue[i].set["code"] # 0
      BY <1>0, <1>1, <2>2 DEF CodeTasksAgree
    <3>2. \A i \in DOMAIN queue' : queue'[i].set["code"] # 0
      BY <1>4, <1>5, <2>2, <3>1
    <3> QED BY <1>1, <1>2, <2>2, <3>2 DEF CodeTasksAgree
  <2> QED BY <2>1, <2>2
<1>13. CodeCase'
  BY <1>0, <1>1, <1>7, RestoringSetsCode DEF CodeCase, CodeLeaves, NoCodeAnywhere, NoCodeInStore
<1> QED BY <1>6, <1>10, <1>11, <1>12, <1>13 DEF Once

\* The session after the InformResponse.
LEMMA WorkingOnce ==
    ASSUME Types, SessionInv, Once,
           Respond \/ Summon \/ Dispatch \/ Execute \/ Finish \/ Close
    PROVE  Once'
<1> USE DEF Undecided, Early, Working
<1>0. /\ ses \in Sessions /\ queue \in Seq(Jobs) /\ NoSession.at = "none"
      /\ Waiting /\ Placed /\ Bringing /\ CodeTasksAgree /\ CodeCase
  BY DEF Types, Sessions, Once, NoSession
<1>1. /\ ses.at \in {"dequeue", "summon", "tasks", "sent", "executed"}
      /\ ses'.at \in {"none", "summon", "tasks", "sent", "executed"}
      /\ UNCHANGED <<lkg, pre, informed, capture>>
      /\ ~boot'
  <2>1. ses.at \in Working => boot = FALSE
    BY DEF SessionInv, Types
  <2>2. CASE Respond
    BY <2>2 DEF Respond, NoSession
  <2>5. CASE Close
    BY <1>0, <2>1, <2>5 DEF Close
  <2>3. CASE Summon \/ Dispatch
    BY <1>0, <2>1, <2>3 DEF Summon, Dispatch, Move, Sessions
  <2>4. CASE Execute
    BY <1>0, <2>1, <2>4 DEF Execute, Move, Sessions
  <2>6. CASE Finish
    BY <1>0, <2>1, <2>6 DEF Finish, Sessions
  <2> QED BY <2>2, <2>3, <2>4, <2>5, <2>6
<1>2. ~CodeWillBeSet => cpe["code"] = 0 /\ \A i \in DOMAIN queue : queue[i].set["code"] # 1
  BY <1>0, <1>1, MissingCode DEF CodeWillBeSet
<1>3. Secured("wifi") /\ (Secured("wan") \/ Kept("wan"))
  BY <1>0, <1>1 DEF Placed
<1>4. Waiting'
  <2>1. ses'.at = "none" => QueueIsIdle'
    <3> SUFFICES ASSUME Close PROVE QueueIsIdle'
      BY <1>0, <1>1 DEF Respond, NoSession, Summon, Dispatch, Execute, Finish, Move, Sessions
    <3>1. \A i \in DOMAIN queue : i > 0
      BY <1>0
    <3> QED BY <3>1 DEF Close, SessionInv, QueueIsIdle
  <2> QED BY <1>1, <2>1 DEF Waiting
<1>5. CASE Respond \/ Summon \/ Dispatch \/ Close
  <2>1. /\ UNCHANGED <<cpe, queue>>
        /\ db'["code"] \in {db["code"], cpe["code"]} /\ db'["wan"] = db["wan"]
        /\ \/ db'["code"] = db["code"] /\ db'["wifi"] = db["wifi"]
           \/ db'["code"] = cpe["code"]
    <3>1. CASE Summon
      BY <3>1, ValuesAssumption DEF Summon, Stored, Types, Field, Value
    <3>2. CASE Respond \/ Dispatch \/ Close
      BY <3>2 DEF Respond, Dispatch, Close
    <3> QED BY <1>5, <3>1, <3>2
  <2>2. Placed'
    BY <1>1, <1>3, <2>1 DEF Placed, Secured, InHand, Kept
  <2>3. Bringing' /\ CodeTasksAgree'
    BY <1>0, <1>1, <2>1 DEF Bringing, CodeTasksAgree
  <2>4. CodeWillBeSet => CodeWillBeSet'
    BY <1>1, <2>1 DEF CodeWillBeSet, QueueSetsCode
  <2>5. CodeCase'
    <3>1. CASE CodeWillBeSet
      BY <2>4, <3>1 DEF CodeCase
    <3>2. CASE ~CodeWillBeSet /\ NoCodeAnywhere
      BY <1>1, <1>2, <2>1, <3>2 DEF CodeCase, NoCodeAnywhere, NoCodeInStore
    <3>3. CASE ~CodeWillBeSet /\ CodeLeaves
      BY <1>1, <1>2, <2>1, <3>3 DEF CodeCase, CodeLeaves, NoCodeAnywhere, NoCodeInStore, Kept
    <3> QED BY <1>0, <3>1, <3>2, <3>3 DEF CodeCase
  <2> QED BY <1>4, <2>2, <2>3, <2>5 DEF Once
<1>6. CASE Execute
  <2>1. /\ 1 \in DOMAIN queue /\ UNCHANGED <<db, queue>>
        /\ \A f \in Field : cpe'[f] =
              IF queue[1].set[f] = Absent THEN cpe[f] ELSE queue[1].set[f]
    BY <1>6, HeadJob DEF Execute, SessionInv, Stored
  <2>2. \A f \in Field : Secured(f) => Secured(f)'
    BY <1>1, <2>1 DEF Secured, InHand
  <2>3. Placed'
    BY <1>1, <1>3, <2>1, <2>2 DEF Placed, Kept, Field
  <2>4. Bringing'
    BY <1>0, <1>1, <2>1 DEF Bringing
  <2>5. CodeTasksAgree'
    <3>1. queue[1].set["code"] \in {0, 1, Absent}
      BY <1>6, HeadJob, PairValues DEF Execute, SessionInv, Field, Value
    <3> QED BY <1>0, <1>1, <2>1, <3>1 DEF CodeTasksAgree, Field
  <2>6. CodeWillBeSet => CodeWillBeSet'
    BY <1>1, <1>6, ExecuteSetsCode DEF CodeWillBeSet
  <2>7. CodeCase'
    BY <1>0, <1>1, <2>1, <2>6 DEF CodeCase, CodeLeaves, NoCodeAnywhere, NoCodeInStore, Kept
  <2> QED BY <1>4, <2>3, <2>4, <2>5, <2>7 DEF Once
<1>7. CASE Finish
  <2>1. /\ queue # <<>> /\ 1 \in DOMAIN queue /\ Head(queue) = queue[1]
        /\ queue[1].set \in Pairs /\ queue' = Tail(queue) /\ cpe' = cpe
        /\ \A f \in Field : queue[1].set[f] # Absent => cpe[f] = queue[1].set[f]
    BY <1>7, HeadJob DEF Finish, SessionInv
  <2>2. /\ \A i \in DOMAIN queue' : i + 1 \in DOMAIN queue /\ queue'[i] = queue[i + 1]
        /\ \A i \in DOMAIN queue : i # 1 => i - 1 \in DOMAIN queue' /\ queue'[i - 1] = queue[i]
    BY <1>0, <2>1, TailJobs
  <2>3. \A f \in Field : Secured(f) => Secured(f)'
    <3> SUFFICES ASSUME NEW f \in Field, Secured(f) PROVE Secured(f)'
      OBVIOUS
    <3>1. \A i \in DOMAIN queue' : queue'[i].set[f] \in {Absent, 1}
      BY <2>2 DEF Secured
    <3>2. cpe[f] = 1 \/ \E i \in DOMAIN queue : queue[i].set[f] = 1
      BY <1>1 DEF Secured, InHand
    <3>3. cpe[f] = 1 \/ \E i \in DOMAIN queue' : queue'[i].set[f] = 1
      BY <2>1, <2>2, <3>2, ValuesAssumption
    <3> QED BY <2>1, <3>1, <3>3 DEF Secured
  <2>4. /\ db'["wifi"] = IF queue[1].set["wifi"] = Absent THEN db["wifi"] ELSE queue[1].set["wifi"]
        /\ db'["code"] = IF queue[1].set["code"] = Absent THEN db["code"] ELSE queue[1].set["code"]
        /\ db'["wan"] \in {db["wan"], queue[1].set["wan"]}
        /\ db'["wan"] # db["wan"] => queue[1].set["wan"] \notin {Absent, NoPassword}
    BY <1>7, <2>1, ValuesAssumption DEF Finish, Stored, Field, Pairs, Rows
  <2>5. Kept("wan") => Kept("wan")'
    <3>1. queue[1].set["wan"] \in {1, Absent, NoPassword}
      BY <1>0, <2>1, PairValues DEF Bringing, Field, Value
    <3> QED BY <1>1, <2>4, <3>1 DEF Kept
  <2>6. Placed'
    BY <1>3, <2>3, <2>5 DEF Placed, Field
  <2>7. Bringing' /\ CodeTasksAgree'
    BY <1>0, <1>1, <2>1, <2>2 DEF Bringing, CodeTasksAgree
  <2>8. CodeWillBeSet => CodeWillBeSet'
    BY <1>1, <1>7, FinishSetsCode DEF CodeWillBeSet
  <2>9. ~CodeWillBeSet /\ db'["code"] = 1 => db["code"] = 1 /\ queue[1].set["code"] = Absent
    BY <1>2, <2>1, <2>4
  <2>10. queue[1].set["wifi"] \in {Absent, 1}
    BY <1>3, <2>1 DEF Secured
  <2>11. CodeCase'
    <3>1. CASE CodeWillBeSet
      BY <2>8, <3>1 DEF CodeCase
    <3>2. CASE ~CodeWillBeSet /\ NoCodeAnywhere
      BY <1>1, <2>9, <3>2 DEF CodeCase, NoCodeAnywhere, NoCodeInStore
    <3>3. CASE ~CodeWillBeSet /\ CodeLeaves
      BY <1>1, <2>4, <2>5, <2>9, <2>10, <3>3 DEF CodeCase, CodeLeaves, NoCodeAnywhere, NoCodeInStore
    <3> QED BY <1>0, <3>1, <3>2, <3>3 DEF CodeCase
  <2> QED BY <1>4, <2>6, <2>7, <2>11 DEF Once
<1> QED BY <1>5, <1>6, <1>7

\* Goroutines, snapshots and the user.
LEMMA BackgroundOnce ==
    ASSUME Types, SessionInv, Once,
           StoreInform \/ SaverSaves \/ CaptureReads \/ CaptureSaves \/ AskReboot
    PROVE  Once'
<1> USE DEF Undecided, Early
<1>0. /\ ses \in Sessions /\ queue \in Seq(Jobs)
      /\ Waiting /\ Placed /\ Bringing /\ CodeTasksAgree /\ CodeCase
  BY DEF Types, Sessions, Once
<1>1. CASE StoreInform
  <2>1. /\ informed \in {0, 1} /\ informed' = Absent
        /\ db'["code"] = informed /\ db'["wifi"] = db["wifi"] /\ db'["wan"] = db["wan"]
        /\ UNCHANGED <<cpe, boot, lkg, pre, queue, ses, capture>>
    <3>1. \A g \in Field : Only("code", informed)[g] = IF g = "code" THEN informed ELSE Absent
      BY OnlyPairs DEF Types, Field
    <3> QED BY <1>1, <3>1 DEF StoreInform, Stored, Field, Types, Value
  <2>2. Waiting'
    BY <1>0, <2>1, ValuesAssumption
       DEF Waiting, QueueIsIdle, Kept, Good, NoCodeAnywhere, NoCodeInStore
  <2>3. Placed' /\ Bringing' /\ CodeTasksAgree'
    BY <1>0, <2>1 DEF Placed, Bringing, CodeTasksAgree, Secured, InHand, Kept, QueueIsIdle
  <2>4. CodeCase'
    BY <1>0, <2>1, ValuesAssumption
       DEF CodeCase, CodeWillBeSet, QueueSetsCode, CodeLeaves, NoCodeAnywhere, NoCodeInStore, Kept
  <2> QED BY <2>2, <2>3, <2>4 DEF Once
<1>2. CASE SaverSaves
  <2>1. /\ pre' = db
        /\ UNCHANGED <<cpe, boot, db, lkg, queue, ses, informed, capture>>
    BY <1>2 DEF SaverSaves
  <2>2. Waiting'
    BY <1>0, <2>1 DEF Waiting, QueueIsIdle, Kept, Good, NoCodeAnywhere, NoCodeInStore
  <2>3. Placed' /\ Bringing' /\ CodeTasksAgree'
    BY <1>0, <2>1 DEF Placed, Bringing, CodeTasksAgree, Secured, InHand, Kept, QueueIsIdle
  <2>4. CodeCase'
    BY <1>0, <2>1
       DEF CodeCase, CodeWillBeSet, QueueSetsCode, CodeLeaves, NoCodeAnywhere, NoCodeInStore, Kept
  <2> QED BY <2>2, <2>3, <2>4 DEF Once
<1>3. CASE CaptureReads
  <2>1. /\ capture'.at = "save" /\ capture'.rows = db
        /\ UNCHANGED <<cpe, boot, db, lkg, pre, queue, ses, informed>>
    BY <1>3 DEF CaptureReads
  <2>2. Waiting'
    BY <1>0, <2>1 DEF Waiting, QueueIsIdle, Kept, Good, NoCodeAnywhere, NoCodeInStore
  <2>3. Placed' /\ Bringing' /\ CodeTasksAgree'
    BY <1>0, <2>1 DEF Placed, Bringing, CodeTasksAgree, Secured, InHand, Kept, QueueIsIdle
  <2>4. CodeCase'
    BY <1>0, <2>1
       DEF CodeCase, CodeWillBeSet, QueueSetsCode, CodeLeaves, NoCodeAnywhere, NoCodeInStore, Kept
  <2> QED BY <2>2, <2>3, <2>4 DEF Once
<1>4. CASE CaptureSaves
  <2>1. /\ capture.at = "save" /\ capture'.at = "idle" /\ lkg' = capture.rows
        /\ \A f \in Field : capture'.rows[f] = Absent
        /\ UNCHANGED <<cpe, boot, db, pre, queue, ses, informed>>
    BY <1>4, RestingType, NoRowsPairs DEF CaptureSaves
  <2>2. Waiting'
    BY <1>0, <2>1, ValuesAssumption
       DEF Waiting, QueueIsIdle, Kept, Good, NoCodeAnywhere, NoCodeInStore, Field
  <2>3. Placed' /\ Bringing' /\ CodeTasksAgree'
    BY <1>0, <2>1 DEF Placed, Bringing, CodeTasksAgree, Secured, InHand, Kept, QueueIsIdle
  <2>4. CodeCase'
    BY <1>0, <2>1, ValuesAssumption
       DEF CodeCase, CodeWillBeSet, QueueSetsCode, CodeLeaves, NoCodeAnywhere, NoCodeInStore,
           Kept, Field
  <2> QED BY <2>2, <2>3, <2>4 DEF Once
<1>5. CASE AskReboot
  <2>1. UNCHANGED <<cpe, boot, db, lkg, pre, ses, informed, capture>>
    BY <1>5 DEF AskReboot
  <2>2. Joins(NoRows) /\ NoRows \in Pairs /\ \A f \in Field : NoRows[f] = Absent
    <3>1. Task("reboot", NoRows) \in Jobs /\ Task("reboot", NoRows).set = NoRows
      BY MakeJob, NoRowsPairs
    <3> QED BY <1>5, <3>1, NoRowsPairs DEF AskReboot, Enqueue, Joins
  <2>3. \A i \in DOMAIN queue' : (i \in DOMAIN queue /\ queue'[i] = queue[i]) \/ queue'[i].set = NoRows
    BY <1>0, <2>2, JoinsQueue
  <2>4. Waiting'
    BY <1>0, <2>1, <2>3
       DEF Waiting, QueueIsIdle, Kept, Good, NoCodeAnywhere, NoCodeInStore
  <2>5. \A f \in Field : Secured(f) => Secured(f)'
    <3> SUFFICES ASSUME NEW f \in Field, Secured(f) PROVE Secured(f)'
      OBVIOUS
    <3> QED BY <1>0, <2>1, <2>2, JoinSecured DEF Secured, InHand
  <2>6. Placed'
    BY <1>0, <2>1, <2>5 DEF Placed, Kept, Field
  <2>7. Bringing'
    BY <1>0, <2>1, <2>2, <2>3, ValuesAssumption DEF Bringing, Kept, Field
  <2>8. CodeTasksAgree'
    <3>1. QueueIsIdle => QueueIsIdle'
      BY <2>3 DEF QueueIsIdle
    <3> QED BY <1>0, <2>1, <2>2, <2>3, <3>1, ValuesAssumption DEF CodeTasksAgree, Field
  <2>9. CodeWillBeSet => CodeWillBeSet'
    BY <1>0, <2>1, <2>2, JoinSetsCode DEF CodeWillBeSet, Field
  <2>10. CodeCase'
    BY <1>0, <2>1, <2>9 DEF CodeCase, CodeLeaves, NoCodeAnywhere, NoCodeInStore, Kept
  <2> QED BY <2>4, <2>6, <2>7, <2>8, <2>10 DEF Once
<1> QED BY <1>1, <1>2, <1>3, <1>4, <1>5

LEMMA NextOneReset ==
    Types /\ SessionInv /\ NoReset /\ OneReset /\ [Next]_vars => OneReset'
<1> SUFFICES ASSUME Types, SessionInv, NoReset, OneReset, [Next]_vars,
                    count'.resets = 1, count'.faults = 0
             PROVE  Once'
  BY DEF OneReset
<1>1. count.resets \in Nat /\ count.faults \in Nat
  BY DEF Types
<1>2. CASE Reset /\ count'.resets = count.resets + 1
  <2>1. count.resets = 0
    BY <1>1, <1>2
  <2> QED BY <1>2, <2>1, ResetOnce
<1>3. CASE count'.faults = count.faults + 1
  BY <1>1, <1>3
<1>4. CASE /\ ~(Cut \/ Restart \/ PreUnreadable \/ Refuse \/ Reset)
           /\ count'.resets = count.resets /\ count'.faults = count.faults
  <2>1. Once
    BY <1>4 DEF OneReset
  <2>2. CASE UNCHANGED vars
    BY <2>1, <2>2 DEF vars, Once, Waiting, Placed, Bringing, CodeTasksAgree, CodeCase,
       Undecided, QueueIsIdle, Kept, Secured, InHand, CodeWillBeSet, QueueSetsCode,
       CodeLeaves, NoCodeAnywhere, NoCodeInStore
  <2>3. CASE Inform \/ ReadPre \/ DeletePre \/ ReadLkg \/ ClearRows
    BY <2>1, <2>3, DetectionOnce
  <2>4. CASE RestoreAll \/ RestoreWiFi \/ RestoreCode \/ RestoreWan
    BY <2>1, <2>4, RestoringOnce
  <2>5. CASE Respond \/ Summon \/ Dispatch \/ Execute \/ Finish \/ Close
    BY <2>1, <2>5, WorkingOnce
  <2>6. CASE StoreInform \/ SaverSaves \/ CaptureReads \/ CaptureSaves \/ AskReboot
    BY <2>1, <2>6, BackgroundOnce
  <2> QED BY <1>4, <2>2, <2>3, <2>4, <2>5, <2>6 DEF Next, Handler, Background
<1> QED BY <1>2, <1>3, <1>4, MishapsCount

LEMMA InitResets == Init => NothingLost /\ NoReset /\ OneReset
<1> SUFFICES ASSUME Init PROVE NothingLost /\ NoReset /\ OneReset
  OBVIOUS
<1>1. /\ cpe = Configured /\ db = Configured /\ lkg = Configured /\ boot = FALSE
      /\ queue = <<>> /\ pre = Null /\ informed = Absent
      /\ count.resets = 0
  BY DEF Init
<1>2. ses.at = "none" /\ capture.at = "idle"
  BY RestingType DEF Init, NoSession
<1> QED BY <1>1, <1>2, NoRowsPairs, ValuesAssumption
        DEF NothingLost, NoReset, OneReset, QueueIsIdle

\* A factory reset, found by its BOOTSTRAP event or by the empty code, does not
\* lose the WiFi network or the PPPoE credentials, however the goroutines, the
\* daily snapshot and the tasks interleave with the handler and even if a
\* snapshot overwrites the good one meanwhile: that takes a second mishap
\* (detectAndHandleReset, CaptureAllDeviceSnapshots, executeTask).
THEOREM OneMishapLosesNothingHolds == Spec => []OneMishapLosesNothing
<1>1. Types /\ NothingLost /\ NoReset /\ OneReset => OneMishapLosesNothing
  <2> SUFFICES ASSUME Types, NothingLost, NoReset, OneReset, NEW f \in {"wifi", "wan"},
                      ~Remembered(f)
               PROVE  count.lost > 0 /\ count.resets + count.faults > 1
    BY DEF OneMishapLosesNothing
  <2>1. count.lost \in Nat /\ count.resets \in Nat /\ count.faults \in Nat /\ f \in Field
    BY DEF Types, Field
  <2>2. /\ cpe[f] # 1 /\ lkg[f] # 1 /\ ses.held[f] # 1
        /\ \A i \in DOMAIN queue : queue[i].set[f] # 1
    <3>1. Chosen(1) /\ lkg # Null
      BY ChosenIsOne, PairsAreRows DEF Value, Types
    <3>2. DOMAIN queue = 1..Len(queue)
      BY DEF Types
    <3> QED BY <3>1, <3>2 DEF Remembered
  <2>3. count.lost > 0
    BY <2>1, <2>2 DEF NothingLost
  <2>4. count.resets # 0
    BY <2>1, <2>2, NoRowsPairs DEF NoReset
  <2>5. ~(count.resets = 1 /\ count.faults = 0)
    <3> SUFFICES ASSUME Once PROVE FALSE
      BY DEF OneReset
    <3>1. ~Kept(f) /\ ~Secured(f) /\ ~Good(ses.held)
      BY <2>2 DEF Kept, Secured, InHand, Good
    <3> QED BY <3>1 DEF Once, Waiting, Placed
  <2> QED BY <2>1, <2>3, <2>4, <2>5
<1> QED BY <1>1, InitTypes, InitResets, NextTypes, NextSession, NextNothingLost, NextNoReset,
           NextOneReset, PTL DEF Spec

=============================================================================
