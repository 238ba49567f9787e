---------------------------- MODULE ResetRestore ----------------------------
(***************************************************************************)
(* Factory reset detection and restore (internal/cwmp/session.go,          *)
(* detectAndHandleReset and what it calls), with everything that writes    *)
(* what it reads: the goroutine an Inform starts to store its parameters,  *)
(* the one a Reboot task starts to save pre_reset_params, the daily and    *)
(* the requested last_known_good snapshots, summons, and the tasks that    *)
(* carry the restored values back to the CPE.                              *)
(*                                                                         *)
(* One device.  Its configuration is three values the user chose: the WiFi *)
(* network, the ProvisioningCode and the PPPoE credentials.  0 is the      *)
(* factory value: the factory SSID, an empty code, no PPPoE.  A CPE never  *)
(* returns a PPPoE password: the store knows the pair the ACS itself has   *)
(* set (_helix.provision); the user name the CPE reports may be in a       *)
(* snapshot or not, which is left open.  The task queue is the FIFO list   *)
(* that TaskQueue describes; the cache of ParameterStore is left out.      *)
(***************************************************************************)
EXTENDS Integers, Sequences

CONSTANTS
    Absent,       \* a parameter the store has no row for
    Null,         \* no snapshot
    NoPassword,   \* PPPoE with a user name and an empty password
    ReportsCode,  \* the root object is "Device.", whose ProvisioningCode is looked for
    MaxTasks,     \* bound: reboots the user asks for
    MaxCaptures,  \* bound: last_known_good snapshots
    MaxMishaps    \* bound: resets, cut sessions, restarts, failed or refused commands

ASSUME ReportsCodeAssumption == ReportsCode \in BOOLEAN
ASSUME BoundsAssumption == {MaxTasks, MaxCaptures, MaxMishaps} \subseteq Nat

Field == {"wifi", "code", "wan"}

ASSUME ValuesAssumption ==
    /\ Absent \notin {0, 1}
    /\ NoPassword \notin {0, 1, Absent}
    /\ Null \notin [Field -> {0, 1, Absent, NoPassword}]

Factory == [wifi |-> 0, code |-> 0, wan |-> 0]
Configured == [wifi |-> 1, code |-> 1, wan |-> 1]

\* The rows that matter: "wan" stands for the _helix.provision pair.
NoRows == [f \in Field |-> Absent]

VARIABLES
    cpe,        \* the configuration the CPE runs with
    boot,       \* the CPE has a BOOTSTRAP event to deliver
    db,         \* device_parameters
    lkg,        \* the last_known_good snapshot
    pre,        \* the pre_reset_params snapshot
    queue,      \* tasks that are not finished, oldest first
    ses,        \* the CWMP session: its step, its Inform, the snapshot in hand
    informed,   \* code values of the Inform that a goroutine has still to store
    saver,      \* the goroutine of a Reboot task
    capture,    \* the job or request that saves last_known_good
    count       \* history: what has happened so far

vars == <<cpe, boot, db, lkg, pre, queue, ses, informed, saver, capture, count>>

\* A task sets the fields of its domain; a reboot sets none.
Task(kind, set) == [kind |-> kind, set |-> set]

NoSession == [at |-> "none", boot |-> FALSE, code |-> 0, held |-> NoRows, left |-> 0]
Resting == [at |-> "idle", rows |-> NoRows]

Init ==
    /\ cpe = Configured
    /\ boot = FALSE
    /\ db = Configured
    /\ lkg = db
    /\ pre = Null
    /\ queue = <<>>
    /\ ses = NoSession
    /\ informed = Absent
    /\ saver = "idle"
    /\ capture = Resting
    /\ count = [resets |-> 0, faults |-> 0, captures |-> 0, tasks |-> 0,
                restores |-> 0, lost |-> 0, dropped |-> {}, refused |-> FALSE]

\* A value the user chose, in a configuration, a task or the rows of a snapshot.
Chosen(v) == v \notin {0, Absent, NoPassword}

Count(field) == count' = [count EXCEPT ![field] = @ + 1]

\* Rows of the map replace those of the store, settings those of the CPE.
Stored(old, new) == [f \in Field |-> IF new[f] = Absent THEN old[f] ELSE new[f]]
Only(f, v) == [NoRows EXCEPT ![f] = v]

-----------------------------------------------------------------------------
(* handleInform, from the Inform to the InformResponse                     *)

\* The Inform carries the events and, of a "Device." CPE, the code; a
\* goroutine will store it.  (The goroutines of an Inform and of a reboot have
\* deadlines of 10 and 5 seconds: each is overtaken by one Inform at most.)
Inform ==
    /\ ses.at = "none"
    /\ informed = Absent
    /\ saver # "late"
    /\ ses' = [NoSession EXCEPT !.at = "pre", !.boot = boot, !.code = cpe.code]
    /\ informed' = cpe.code
    /\ saver' = (IF saver = "idle" THEN "idle" ELSE "late")
    /\ UNCHANGED <<cpe, boot, db, lkg, pre, queue, capture, count>>

StoreInform ==
    /\ informed # Absent
    /\ db' = Stored(db, Only("code", informed))
    /\ informed' = Absent
    /\ UNCHANGED <<cpe, boot, lkg, pre, queue, ses, saver, capture, count>>

Move(at) == ses' = [ses EXCEPT !.at = at]

\* Case 1: the snapshot of a reboot the ACS asked for.
ReadPre ==
    /\ ses.at = "pre"
    /\ IF pre = Null THEN Move("lkg") ELSE ses' = [ses EXCEPT !.at = "unpre", !.held = pre]
    /\ UNCHANGED <<cpe, boot, db, lkg, pre, queue, informed, saver, capture, count>>

DeletePre ==
    /\ ses.at = "unpre"
    /\ pre' = Null
    /\ IF ses.boot
       THEN /\ Move("all")
            /\ count' = [count EXCEPT !.dropped =
                  @ \cup {"wan"} \cup {f \in Field : ~Chosen(ses.held[f])}]
       ELSE Move("dequeue") /\ UNCHANGED count
    /\ UNCHANGED <<cpe, boot, db, lkg, queue, informed, saver, capture>>

\* filterCriticalParameters leaves _helix.provision out; a reported PPPoE
\* user name goes with the password the CPE returned, an empty one.
Critical(rows) == {[rows EXCEPT !.wan = Absent], [rows EXCEPT !.wan = NoPassword]}

Enqueue(task) == queue' = Append(queue, task)

\* restoreParameters
RestoreAll ==
    /\ ses.at = "all"
    /\ Move("dequeue")
    /\ \E set \in Critical(ses.held) :
          IF set = NoRows THEN UNCHANGED queue ELSE Enqueue(Task("all", set))
    /\ UNCHANGED <<cpe, boot, db, lkg, pre, informed, saver, capture, count>>

\* Mutant: the code alone tells a reset.
IsCodeReset(rows) == ReportsCode /\ ses.code = 0 /\ rows.code \notin {0, Absent}

\* Case 2: a reset nobody announced, known by its event or by the code.
IsReset(rows) ==
    \/ ses.boot
    \/ ReportsCode /\ ses.code = 0 /\ rows.code \notin {0, Absent}

\* Mutant: the snapshot is deleted so that it is used once, as in Case 1.
ReadLkgOnce ==
    /\ ses.at = "lkg"
    /\ IF lkg # Null /\ IsReset(lkg)
       THEN ses' = [ses EXCEPT !.at = "clear", !.held = lkg] /\ lkg' = Null
       ELSE Move("dequeue") /\ UNCHANGED lkg
    /\ UNCHANGED <<cpe, boot, db, pre, queue, informed, saver, capture, count>>

ReadLkg ==
    /\ ses.at = "lkg"
    /\ IF lkg # Null /\ IsReset(lkg)
       THEN ses' = [ses EXCEPT !.at = "clear", !.held = lkg]
       ELSE Move("dequeue")
    /\ UNCHANGED <<cpe, boot, db, lkg, pre, queue, informed, saver, capture, count>>

ClearRows ==
    /\ ses.at = "clear"
    /\ db' = NoRows
    /\ Move("wifi")
    /\ Count("restores")
    /\ UNCHANGED <<cpe, boot, lkg, pre, queue, informed, saver, capture>>

\* restoreWiFiConfig: the bands the snapshot has an SSID for, then the code.
RestoreWiFi ==
    /\ ses.at = "wifi"
    /\ Move("code")
    /\ IF ses.held.wifi = Absent
       THEN UNCHANGED queue
       ELSE Enqueue(Task("wifi", Only("wifi", ses.held.wifi)))
    /\ UNCHANGED <<cpe, boot, db, lkg, pre, informed, saver, capture, count>>

\* Mutant: the code is left to the user.
RestoreNoCode ==
    /\ ses.at = "code"
    /\ Move("wan")
    /\ UNCHANGED <<cpe, boot, db, lkg, pre, queue, informed, saver, capture, count>>

RestoreCode ==
    /\ ses.at = "code"
    /\ Move("wan")
    /\ IF ses.held.code \in {0, Absent}
       THEN UNCHANGED queue
       ELSE Enqueue(Task("code", Only("code", ses.held.code)))
    /\ UNCHANGED <<cpe, boot, db, lkg, pre, informed, saver, capture, count>>

\* restoreWANConfig: the pair the ACS has set, or else the reported user name.
RestoreWan ==
    /\ ses.at = "wan"
    /\ Move("dequeue")
    /\ IF ses.held.wan # Absent
       THEN Enqueue(Task("wan", Only("wan", ses.held.wan)))
       ELSE UNCHANGED queue \/ Enqueue(Task("wan", Only("wan", NoPassword)))
    /\ UNCHANGED <<cpe, boot, db, lkg, pre, informed, saver, capture, count>>

\* DequeuePending, and the InformResponse that acknowledges the events.
Respond ==
    /\ ses.at = "dequeue"
    /\ ses' = [NoSession EXCEPT !.at = "summon", !.left = Len(queue)]
    /\ boot' = FALSE
    /\ UNCHANGED <<cpe, db, lkg, pre, queue, informed, saver, capture, count>>

-----------------------------------------------------------------------------
(* The rest of the session                                                 *)

\* The summon, unless it is throttled, stores what the CPE returns before the
\* tasks are dispatched.
Summon ==
    /\ ses.at = "summon"
    /\ Move("tasks")
    /\ \/ db' = Stored(db, [cpe EXCEPT !.wan = Absent])
       \/ UNCHANGED db
    /\ UNCHANGED <<cpe, boot, lkg, pre, queue, informed, saver, capture, count>>

\* A reboot is dispatched: its goroutine runs while the CPE answers.
Dispatch ==
    /\ ses.at = "tasks"
    /\ ses.left > 0
    /\ Move("sent")
    /\ IF Head(queue).kind = "reboot"
       THEN saver = "idle" /\ saver' = "running"
       ELSE UNCHANGED saver
    /\ UNCHANGED <<cpe, boot, db, lkg, pre, queue, informed, capture, count>>

Execute ==
    /\ ses.at = "sent"
    /\ cpe' = Stored(cpe, Head(queue).set)
    /\ Move("executed")
    /\ UNCHANGED <<boot, db, lkg, pre, queue, informed, saver, capture, count>>

\* Mutant: the session keeps the finished task in its list.
FinishKeepsCount ==
    /\ ses.at = "executed"
    /\ db' = Stored(db, [Head(queue).set EXCEPT !.wan = IF @ = NoPassword THEN Absent ELSE @])
    /\ queue' = Tail(queue)
    /\ Move("tasks")
    /\ UNCHANGED <<cpe, boot, lkg, pre, informed, saver, capture, count>>

\* The values go to the store before the task is done; persistWANCredentials
\* leaves out an empty password.
Finish ==
    /\ ses.at = "executed"
    /\ db' = Stored(db, [Head(queue).set EXCEPT !.wan = IF @ = NoPassword THEN Absent ELSE @])
    /\ queue' = Tail(queue)
    /\ ses' = [ses EXCEPT !.at = "tasks", !.left = @ - 1]
    /\ UNCHANGED <<cpe, boot, lkg, pre, informed, saver, capture, count>>

Close ==
    /\ ses.at = "tasks"
    /\ ses.left = 0
    /\ ses' = NoSession
    /\ UNCHANGED <<cpe, boot, db, lkg, pre, queue, informed, saver, capture, count>>

-----------------------------------------------------------------------------
(* Snapshots                                                               *)

\* The goroutine of executeTask for a reboot.  (That its GetAllParameters and
\* its SaveSnapshot are two calls is ParameterStore's matter.)
SaverSaves ==
    /\ saver # "idle"
    /\ pre' = db
    /\ saver' = "idle"
    /\ UNCHANGED <<cpe, boot, db, lkg, queue, ses, informed, capture, count>>

\* CaptureAllDeviceSnapshots for this serial, or SaveLastKnownGood.
CaptureReads ==
    /\ capture.at = "idle"
    /\ count.captures < MaxCaptures
    /\ db # NoRows
    /\ Count("captures")
    /\ capture' = [at |-> "save", rows |-> db]
    /\ UNCHANGED <<cpe, boot, db, lkg, pre, queue, ses, informed, saver>>

CaptureSaves ==
    /\ capture.at = "save"
    /\ lkg' = capture.rows
    /\ capture' = Resting
    /\ count' = [count EXCEPT !.lost = @ +
          (IF lkg # Null /\ \E f \in Field : Chosen(lkg[f]) /\ ~Chosen(capture.rows[f])
           THEN 1 ELSE 0)]
    /\ UNCHANGED <<cpe, boot, db, pre, queue, ses, informed, saver>>

-----------------------------------------------------------------------------
(* The environment                                                         *)

\* The user asks for a reboot.
AskReboot ==
    /\ count.tasks < MaxTasks
    /\ Count("tasks")
    /\ Enqueue(Task("reboot", NoRows))
    /\ UNCHANGED <<cpe, boot, db, lkg, pre, ses, informed, saver, capture>>

Mishap(kind) ==
    /\ count.resets + count.faults < MaxMishaps
    /\ Count(kind)

\* The button, or the FactoryReset RPC: the session is over.
Reset ==
    /\ Mishap("resets")
    /\ cpe' = Factory
    /\ boot' = TRUE
    /\ ses' = NoSession
    /\ UNCHANGED <<db, lkg, pre, queue, informed, saver, capture>>

\* The connection is cut; an unfinished task waits for the next session.
Cut ==
    /\ ses.at # "none"
    /\ Mishap("faults")
    /\ ses' = NoSession
    /\ UNCHANGED <<cpe, boot, db, lkg, pre, queue, informed, saver, capture>>

Restart ==
    /\ Mishap("faults")
    /\ ses' = NoSession
    /\ informed' = Absent
    /\ saver' = "idle"
    /\ capture' = Resting
    /\ UNCHANGED <<cpe, boot, db, lkg, pre, queue>>

\* GetSnapshot("pre_reset_params") fails: the handler goes on to Case 2.
PreUnreadable ==
    /\ ses.at = "pre"
    /\ Mishap("faults")
    /\ Move("lkg")
    /\ UNCHANGED <<cpe, boot, db, lkg, pre, queue, informed, saver, capture>>

\* The task cannot be built or the CPE answers with a fault: it has failed.
Refuse ==
    /\ ses.at = "sent"
    /\ count.resets + count.faults < MaxMishaps
    /\ count' = [count EXCEPT !.faults = @ + 1, !.refused = TRUE]
    /\ queue' = Tail(queue)
    /\ ses' = [ses EXCEPT !.at = "tasks", !.left = @ - 1]
    /\ UNCHANGED <<cpe, boot, db, lkg, pre, informed, saver, capture>>

Handler ==
    \/ ReadPre \/ DeletePre \/ RestoreAll \/ ReadLkg \/ ClearRows
    \/ RestoreWiFi \/ RestoreCode \/ RestoreWan \/ Respond
    \/ Summon \/ Dispatch \/ Execute \/ Finish \/ Close

Background == StoreInform \/ SaverSaves \/ CaptureSaves

Next ==
    \/ Inform \/ Handler \/ Background \/ CaptureReads
    \/ AskReboot \/ Reset \/ Cut \/ Restart \/ PreUnreadable \/ Refuse

\* The CPE informs periodically and answers; goroutines have deadlines.
Spec ==
    /\ Init /\ [][Next]_vars
    /\ WF_vars(Inform) /\ WF_vars(Handler)
    /\ WF_vars(StoreInform) /\ WF_vars(SaverSaves)
    /\ WF_vars(CaptureSaves)

-----------------------------------------------------------------------------
(* Properties                                                              *)

Value == {0, 1}
Rows == [Field -> Value \cup {Absent, NoPassword}]

\* The tasks the session has dequeued are the oldest of the list.
TypeOK ==
    /\ cpe \in [Field -> Value \cup {NoPassword}]
    /\ boot \in BOOLEAN
    /\ {db, capture.rows, ses.held} \subseteq Rows
    /\ {lkg, pre} \subseteq Rows \cup {Null}
    /\ queue \in Seq([kind : {"wifi", "code", "wan", "all", "reboot"}, set : Rows])
    /\ ses.left \in 0..Len(queue)
    /\ informed \in Value \cup {Absent}
    /\ saver \in {"idle", "running", "late"}

\* Someone who can bring the value back has it.
Remembered(f) ==
    \/ Chosen(cpe[f])
    \/ lkg # Null /\ Chosen(lkg[f])
    \/ Chosen(ses.held[f])
    \/ \E i \in 1..Len(queue) : Chosen(queue[i].set[f])

\* After a reset the store is empty and the values are under way: in the
\* handler, in the queue, at the CPE.  A snapshot taken then overwrites the good
\* one, and still one mishap loses nothing: the WiFi network and the PPPoE
\* credentials are gone only if a snapshot overwrote them and, besides, a reset
\* was followed by a second one, a cut, a restart or a refusal.
OneMishapLosesNothing ==
    \A f \in {"wifi", "wan"} :
        ~Remembered(f) => count.lost > 0 /\ count.resets + count.faults > 1

\* Restoring the code "to stop re-detection loop": the restore from
\* last_known_good is queued once per reset, once more for a session that
\* failed, and once more for a snapshot that overwrote the good one, not at
\* every Inform.  (A reset found with a snapshot that has lost the code does
\* not restore it; a snapshot taken earlier and saved later brings the code
\* back, and the reset is found a second time.)
RestoresAreNotRepeated ==
    count.restores <= count.resets + count.faults + count.lost

\* What last_known_good remembers is back on the CPE in the end, unless the CPE
\* refused a task or a pre_reset_params snapshot was restored instead that did
\* not have the value (it never has the PPPoE credentials).
ConfigurationComesBack ==
    <>[](\A f \in Field :
            lkg # Null /\ Chosen(lkg[f]) =>
                Chosen(cpe[f]) \/ count.refused \/ f \in count.dropped)

=============================================================================
