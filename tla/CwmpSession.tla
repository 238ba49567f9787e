---------------------------- MODULE CwmpSession ----------------------------
(***************************************************************************)
(* The CWMP session machine of internal/cwmp/session.go: one HTTP request  *)
(* of a CPE is one action, which runs the whole handler.  A CPE opens a    *)
(* session with an Inform, posts empty bodies to ask for work, and answers *)
(* each RPC with a response or a fault; a session object keeps what the    *)
(* ACS remembers between two requests, and is found again by cookie, by    *)
(* the cwmp:ID of the RPC being answered, or by device serial.             *)
(*                                                                         *)
(* Requests of one device are sequential, as in TR-069; the API, timers,   *)
(* connection losses and process restarts come between any two of them.    *)
(* The task queue appears here by what its operations do when no other     *)
(* command interleaves and Redis answers: TaskQueue has the finer grain.   *)
(***************************************************************************)
EXTENDS Integers, FiniteSets, Sequences, Functions, Lists

CONSTANTS
    Device,          \* CPE serials
    Sid,             \* session ids as ACS and CPE see them: cookie, or cwmp:ID
    SidOf,           \* [Device -> Sid] the id a device's requests come with
    Rotates,         \* devices whose Inform always comes under a fresh id
    Obj,             \* pool of *Session values; unreachable ones are reused
    NoObj,
    Task,            \* ids of the tasks API clients create
    Owner,           \* [Task -> Device] task.Serial
    Kind,            \* [Task -> Kinds] task.Type, and the flow it selects
    Unbuildable,     \* tasks executeTask cannot turn into an RPC
    WanSteps,        \* active steps of the driver's WAN provisioning flow
    Batches,         \* GetParameterValues batches of a full summon
    GlobalDefaults,  \* BOOLEAN: "__system__" parameters are configured
    DriverDefaults,  \* BOOLEAN: the driver lists default_params
    Events,          \* Inform events considered
    MaxDrops, MaxFaults, MaxTriggers, MaxRestarts   \* bounds

Kinds == {"set", "wifi", "lan", "get", "diag", "wan", "wanset",
          "pfadd", "pfdel", "reboot", "firmware"}
StepKinds == {"AddObject", "SetParameterValues", "DeleteObject"}

ASSUME DeviceAssumption == SidOf \in [Device -> Sid] /\ Rotates \subseteq Device
ASSUME TaskAssumption ==
    /\ Owner \in [Task -> Device]
    /\ Kind \in [Task -> Kinds]
    /\ Unbuildable \subseteq Task
ASSUME FlowAssumption == WanSteps \in Seq(StepKinds) \ {<<>>} /\ Batches \in Nat
ASSUME OptionAssumption ==
    /\ GlobalDefaults \in BOOLEAN /\ DriverDefaults \in BOOLEAN
    /\ Events \subseteq {"periodic", "bootstrap", "diagnostics"}
ASSUME BoundAssumption ==
    {MaxDrops, MaxFaults, MaxTriggers, MaxRestarts} \subseteq Nat
ASSUME ObjAssumption ==
    /\ NoObj \notin Obj
    /\ IsFiniteSet(Obj) /\ IsFiniteSet(Sid) /\ IsFiniteSet(Device)
    /\ Cardinality(Obj) > Cardinality(Sid) + 2 * Cardinality(Device)

(* Tasks the handler makes up: they live in a session, not in the queue.   *)
Defaults(d) == <<"global_defaults", d>>
DriverSet(d) == <<"default_params", d>>
Collect(t) == <<"collect", t>>

Diagnostics == {t \in Task : Kind[t] = "diag"}
Synthetic == {Defaults(d) : d \in Device} \cup {DriverSet(d) : d \in Device}
                \cup {Collect(t) : t \in Diagnostics}
Item == Task \cup Synthetic
NoItem == <<"none">>
Summon == <<"summon">>      \* what a summon's RPCs are sent for

\* A UUID is not the marker of a task the handler made up.
ASSUME IdAssumption ==
    /\ Task \cap (Synthetic \cup {NoItem, Summon}) = {}
    /\ NoItem \notin Device

IsCollect(i) == i \in {Collect(t) : t \in Diagnostics}
KindOf(i) == IF i \in Task THEN Kind[i] ELSE IF IsCollect(i) THEN "collect" ELSE "set"

\* The number of RPCs the CPE has to accept before a task has been done.
Steps(i) == CASE KindOf(i) = "wan" -> Len(WanSteps)
              [] KindOf(i) = "pfadd" -> 2
              [] OTHER -> 1

-----------------------------------------------------------------------------
VARIABLES
    obj,        \* [Obj -> session record] the Session values
    sessions,   \* SessionManager.sessions
    bySerial,   \* SessionManager.serialSessions
    conn,       \* [Device -> Msg] the ACS reply the CPE holds; "204": no session
    queue,      \* Redis: status and FIFO of the tasks
    db,         \* PostgreSQL: _helix.provisioned, _helix.provision.*
    fresh,      \* devices with a lastSummonTime less than two minutes old
    full,       \* Handler.pendingFullSummon
    transfers,  \* firmware tasks whose TransferComplete the CPE still owes
    applied,    \* what the CPEs have accepted: <<item, step>>
    spent       \* how much of each bound is used up

vars == <<obj, sessions, bySerial, conn, queue, db, fresh, full, transfers,
          applied, spent>>

Fresh == [dev |-> NoItem, state |-> "new", pend |-> <<>>, cur |-> NoItem,
          phase |-> 0, mode |-> "", batch |-> 0, wp |-> NoItem, step |-> 0,
          follow |-> NoItem, mark |-> FALSE, creds |-> NoItem,
          needs |-> FALSE, boot |-> FALSE]

Ops == StepKinds \cup {"GetParameterNames", "GetParameterValues", "Reboot",
                       "Download", "InformResponse", "204"}
Msg(op, i, k) == [op |-> op, item |-> i, step |-> k, via |-> NoObj]
Close == Msg("204", NoItem, 0)
Ack == Msg("InformResponse", NoItem, 0)
Silent == Msg("", NoItem, 0)      \* nothing written to w yet

Statuses == {"absent", "pending", "executing", "done", "failed"}
Terminal == {"done", "failed"}

SessionType ==
    [dev : Device \cup {NoItem}, state : {"new", "processing", "done"},
     pend : Seq(Item), cur : Item \cup {NoItem}, phase : 0..4,
     mode : {"", "ui_refresh", "task_discovery"}, batch : 0..Batches,
     wp : Task \cup {NoItem}, step : 0..Len(WanSteps), follow : Task \cup {NoItem},
     mark : BOOLEAN, creds : Task \cup {NoItem}, needs : BOOLEAN, boot : BOOLEAN]
ReplyType == [op : Ops, item : Item \cup {NoItem, Summon}, step : Nat,
              via : Obj \cup {NoObj}]
QueueType == [status : [Item -> Statuses], fifo : [Device -> Seq(Task)]]
DbType == [provisioned : SUBSET Device, creds : SUBSET Task]

TypeOK ==
    /\ obj \in [Obj -> SessionType]
    /\ sessions \in [Sid -> Obj \cup {NoObj}]
    /\ bySerial \in [Device -> Obj \cup {NoObj}]
    /\ conn \in [Device -> ReplyType]
    /\ queue \in QueueType
    /\ db \in DbType
    /\ fresh \in SUBSET Device /\ full \in SUBSET Device
    /\ transfers \in SUBSET Task
    /\ applied \subseteq Item \X Nat
    /\ spent \in [drops : 0..MaxDrops, faults : 0..MaxFaults,
                  triggers : 0..MaxTriggers, restarts : 0..MaxRestarts]

Init ==
    /\ obj = [o \in Obj |-> Fresh]
    /\ sessions = [s \in Sid |-> NoObj]
    /\ bySerial = [d \in Device |-> NoObj]
    /\ conn = [d \in Device |-> Close]
    /\ queue = [status |-> [i \in Item |-> "absent"],
                fifo |-> [d \in Device |-> <<>>]]
    /\ db = [provisioned |-> {}, creds |-> {}]
    /\ fresh = {} /\ full = {} /\ transfers = {} /\ applied = {}
    /\ spent = [drops |-> 0, faults |-> 0, triggers |-> 0, restarts |-> 0]

-----------------------------------------------------------------------------
(* A handler is written as a function of the world it sees: the session s  *)
(* it runs in, the stores it may write, and out, the reply written to w.   *)

World(s) == [s |-> s, queue |-> queue, db |-> db, fresh |-> fresh,
             transfers |-> transfers, applied |-> applied, out |-> Silent]

Without(q, t) == Keep(q, Task \ {t})

\* queue.UpdateStatus: store the copy; a finished task leaves the list.
UpdateStatus(w, i, st) ==
    LET stored == [w EXCEPT !.queue.status[i] = st]
    IN IF st \in Terminal /\ i \in Task
       THEN [stored EXCEPT !.queue.fifo[Owner[i]] = Without(@, i)]
       ELSE stored

RpcOf(i) ==
    CASE KindOf(i) \in {"set", "wifi", "lan", "diag", "wanset"} -> "SetParameterValues"
      [] KindOf(i) \in {"get", "collect"} -> "GetParameterValues"
      [] KindOf(i) = "pfadd" -> "AddObject"
      [] KindOf(i) = "pfdel" -> "DeleteObject"
      [] KindOf(i) = "reboot" -> "Reboot"
      [] KindOf(i) = "firmware" -> "Download"

\* The RPC of the provisioning step a session is at (WANProvision.buildCurrentXML).
StepMsg(s) == Msg(WanSteps[s.step], s.wp, s.step)

\* executeTask for a task that can be built: the RPC, and what the session
\* keeps to go on from its answer.
ExecuteTask(w, i) ==
    LET s == [w.s EXCEPT !.cur = i,
                         !.creds = IF KindOf(i) \in {"wan", "wanset"} THEN i ELSE @,
                         !.follow = IF KindOf(i) = "pfadd" THEN i ELSE @,
                         !.wp = IF KindOf(i) = "wan" THEN i ELSE @,
                         !.step = IF KindOf(i) = "wan" THEN 1 ELSE @]
    IN [w EXCEPT !.s = s,
                 !.out = IF KindOf(i) = "wan" THEN StepMsg(s) ELSE Msg(RpcOf(i), i, 1)]

\* dispatchTask for a task that can be built.
Dispatch(w, i) ==
    ExecuteTask(IF IsCollect(i) THEN w ELSE UpdateStatus(w, i, "executing"), i)

\* dispatchTask for tasks that cannot: each is marked executing, then failed.
FailAll(w, S) ==
    [w EXCEPT !.queue = [status |-> [i \in Item |-> IF i \in S THEN "failed" ELSE @.status[i]],
                         fifo |-> [d \in Device |-> Keep(@.fifo[d], Task \ S)]]]

\* Mutant: the popped task stays at the head of the list.
RestWithPopped(pend, n) == SubSeq(pend, n, Len(pend))

\* What pendingTasks is once its n-th task has been popped.
Rest(pend, n) == SubSeq(pend, n + 1, Len(pend))

\* dispatchNextOrClose: pops tasks until one can be sent; 204 if none can.
DispatchNextOrClose(w) ==
    LET pend == w.s.pend
        good == {k \in DOMAIN pend : pend[k] \notin Unbuildable}
        next == CHOOSE k \in good : \A j \in good : k <= j
    IN IF good = {}
       THEN [FailAll(w, Range(pend)) EXCEPT !.s.pend = <<>>, !.s.state = "done", !.out = Close]
       ELSE Dispatch([FailAll(w, {pend[k] : k \in 1 .. next - 1})
                        EXCEPT !.s.pend = Rest(pend, next)],
                     pend[next])

\* Mutant: the completed task stays the session's current task.
NotReleased(s) == s

\* The session gives up its current task.
Released(s) == [s EXCEPT !.cur = NoItem]

\* handleTaskResponse and completeTask.
TaskResponse(w, st) ==
    LET i == w.s.cur
        cleared == [w EXCEPT !.s = Released(@)]
        summonAgain == IF KindOf(i) \in {"wan", "wanset", "wifi", "lan"} /\ st = "done"
                       THEN [cleared EXCEPT !.fresh = @ \ {w.s.dev}] ELSE cleared
    IN DispatchNextOrClose(IF i = NoItem THEN cleared
                                         ELSE UpdateStatus(summonAgain, i, st))

-----------------------------------------------------------------------------
(* Default parameters: prepended to the session's tasks when the CPE's     *)
(* current values differ, which the model leaves open.                     *)

\* Mutant: the flag is written as soon as the defaults are queued.
QueueAndMarkProvisioned(w, d) ==
    [w EXCEPT !.s.pend = <<Defaults(d)>> \o @, !.db.provisioned = @ \cup {d},
              !.s.needs = FALSE]

\* The SetParameterValues task; the flag waits for the CPE's answer.
QueueGlobalDefaults(w, d) ==
    [w EXCEPT !.s.pend = <<Defaults(d)>> \o @, !.s.mark = TRUE, !.s.needs = FALSE]

\* A session opened by a request after a restart has no serial and no driver.
InjectGlobalDefaults(w, d, differs) ==
    IF \/ ~GlobalDefaults
       \/ d = NoItem
       \/ ~w.s.boot /\ ~w.s.needs /\ d \in w.db.provisioned
    THEN w
    ELSE IF differs
    THEN QueueGlobalDefaults(w, d)
    ELSE [w EXCEPT !.s.needs = FALSE, !.db.provisioned = @ \cup {d},
                   !.applied = @ \cup {<<Defaults(d), 1>>}]   \* the CPE has them

InjectDriverDefaults(w, d, differs) ==
    IF DriverDefaults /\ d # NoItem /\ differs
    THEN [w EXCEPT !.s.pend = <<DriverSet(d)>> \o @]
    ELSE w

\* What finishSummon and the end of a UI refresh do with the values.
AfterSummon(w, driverDiffers, globalDiffers) ==
    InjectGlobalDefaults(InjectDriverDefaults(w, w.s.dev, driverDiffers),
                         w.s.dev, globalDiffers)

-----------------------------------------------------------------------------
(* One operator per CPE response, applied to the session it is routed to.  *)

\* Mutant: the provisioning is not dropped.
ProvisionKept(s) == s

\* session.wanProvision = nil.
ProvisionDropped(s) == [s EXCEPT !.wp = NoItem, !.step = 0]

\* WANProvision.onSetParams, onDeleteObject and onAddObject, at a live step.
Advance(w) ==
    LET s == [w.s EXCEPT !.step = @ + 1]
    IN IF s.step <= Len(WanSteps)
       THEN [w EXCEPT !.s = s, !.out = StepMsg(s)]
       ELSE TaskResponse([w EXCEPT !.s = ProvisionDropped(@)], "done")

StoreCredentials(w) ==
    [w EXCEPT !.db.creds = @ \cup ({w.s.creds} \ {NoItem}), !.s.creds = NoItem]

\* Mutant: the first step accepted counts as the whole flow.
AnyStep(s) == TRUE

\* No step is left once the current one is accepted.
LastStep(s) == s.step >= Len(WanSteps)

\* Mutant: a diagnostic's type is missing from the list.
NeverAsync(i) == FALSE

\* The answer only means that the diagnostic has started.
IsDiagnosticAsync(i) == i \in Diagnostics

SetParamValuesResponse(w) ==
    IF w.s.wp # NoItem
    THEN Advance(IF LastStep(w.s) THEN StoreCredentials(w) ELSE w)
    ELSE IF IsDiagnosticAsync(w.s.cur)
    THEN DispatchNextOrClose([w EXCEPT !.s = Released(@)])
    ELSE LET marked == [w EXCEPT !.s.mark = FALSE,
                          !.db.provisioned = @ \cup (IF w.s.mark THEN {w.s.dev} ELSE {})]
         IN TaskResponse(StoreCredentials(marked), "done")

AddObjectResponse(w) ==
    LET fn == w.s.follow
        taken == [w EXCEPT !.s.follow = NoItem]
    IN IF w.s.wp # NoItem
       THEN IF WanSteps[w.s.step] = "AddObject" THEN Advance(taken)
            ELSE TaskResponse([taken EXCEPT !.s = ProvisionDropped(@)], "failed")
       ELSE IF fn = NoItem THEN TaskResponse(taken, "done")
       ELSE [taken EXCEPT !.out = Msg("SetParameterValues", fn, 2)]

DeleteObjectResponse(w) == IF w.s.wp # NoItem THEN Advance(w) ELSE TaskResponse(w, "done")

\* status 0: the file is installed; 1: a TransferComplete will follow.
DownloadResponse(w, i, status) ==
    IF status = 0 THEN TaskResponse(w, "done")
    ELSE LET owed == [w EXCEPT !.transfers = @ \cup {i}]
         IN IF w.s.pend = <<>> THEN [owed EXCEPT !.out = Close]
                               ELSE DispatchNextOrClose(owed)

GetParameterNamesResponse(w) ==
    IF Batches = 0 THEN DispatchNextOrClose([w EXCEPT !.s.phase = 0])
    ELSE [w EXCEPT !.s.phase = 2, !.s.batch = 0,
                   !.out = Msg("GetParameterValues", Summon, 0)]

\* Mutant: the end of a summon does not reset its phase.
SummonStays(s) == [s EXCEPT !.mode = "", !.batch = 0]

\* summonPhase = 0, and what went with it.
SummonOver(s) == [s EXCEPT !.phase = 0, !.mode = "", !.batch = 0]

\* The answer goes to the summon when one waits for values, else to the task.
GetParamValuesResponse(w, driverDiffers, globalDiffers) ==
    LET i == w.s.cur
        idle == [w EXCEPT !.s = SummonOver(@)]
        taken == [w EXCEPT !.s = Released(@)]
        original == CHOOSE t \in Diagnostics : i = Collect(t)
    IN CASE w.s.phase = 2 /\ w.s.batch + 1 < Batches ->
              [w EXCEPT !.s.batch = @ + 1, !.out = Msg("GetParameterValues", Summon, 0)]
         [] w.s.phase = 2 /\ w.s.batch + 1 >= Batches ->
              DispatchNextOrClose(AfterSummon([idle EXCEPT !.s.mode = w.s.mode],
                                              driverDiffers, globalDiffers))
         [] w.s.phase = 4 ->
              DispatchNextOrClose(IF w.s.mode = "ui_refresh"
                                  THEN AfterSummon(idle, driverDiffers, globalDiffers)
                                  ELSE idle)
         [] w.s.phase \notin {2, 4} ->
              DispatchNextOrClose(CASE i = NoItem -> taken
                                    [] IsCollect(i) -> UpdateStatus(taken, original, "done")
                                    [] OTHER -> UpdateStatus(taken, i, "done"))

-----------------------------------------------------------------------------
(* Routing: which session object a request runs in.                        *)

Reached == Range(sessions) \cup Range(bySerial) \cup {conn[d].via : d \in Device}
NewObj == CHOOSE o \in Obj : o \notin Reached

\* GetOrCreate for the id the device's requests carry.
ByCookie(d) == IF sessions[SidOf[d]] = NoObj THEN NewObj ELSE sessions[SidOf[d]]

\* TakeByRPCID: an answer goes to the session that sent the RPC; after a
\* restart no such binding exists.
ByRpc(d) == IF conn[d].via = NoObj THEN ByCookie(d) ELSE conn[d].via

\* The handler's effects become the next state; objects nothing reaches any
\* more are as good as new.
Finish(d, o, w, objs, index, serial) ==
    LET reply == [w.out EXCEPT !.via = IF w.out.op \in {"204", "InformResponse"}
                                       THEN NoObj ELSE o]
        conns == [conn EXCEPT ![d] = reply]
        reached == Range(index) \cup Range(serial) \cup {conns[e].via : e \in Device}
    IN /\ conn' = conns
       /\ sessions' = index
       /\ bySerial' = serial
       /\ obj' = [p \in Obj |-> IF p \notin reached THEN Fresh
                                ELSE IF p = o THEN w.s ELSE objs[p]]
       /\ queue' = w.queue
       /\ db' = w.db
       /\ fresh' = w.fresh
       /\ transfers' = w.transfers
       /\ applied' = w.applied

\* A request inside a session: GetOrCreate has put an object under the id.
Serve(d, o, w) ==
    Finish(d, o, w, obj, [sessions EXCEPT ![SidOf[d]] = ByCookie(d)], bySerial)

-----------------------------------------------------------------------------
(* Inform                                                                  *)

InFlight(s) == s.cur # NoItem \/ s.wp # NoItem \/ s.follow # NoItem

\* adoptInFlightBySerial: the current session takes the previous one's task.
Adopt(s, p) ==
    IF s.cur # NoItem THEN s
    ELSE [s EXCEPT !.cur = p.cur, !.wp = p.wp, !.step = p.step, !.follow = p.follow,
                   !.mark = @ \/ p.mark,
                   !.creds = IF p.creds = NoItem THEN @ ELSE p.creds]

Emptied(p) == [p EXCEPT !.cur = NoItem, !.wp = NoItem, !.step = 0, !.follow = NoItem,
                        !.mark = FALSE, !.creds = NoItem]

\* Mutant: Informs without a cookie all get the same session id.
InformSharesSession(d) ==
    LET known == Range(sessions) \ {NoObj}
    IN IF known = {} THEN NewObj ELSE CHOOSE o \in known : TRUE

\* The session an Inform of d comes to.
InformObj(d) == IF d \in Rotates THEN NewObj ELSE ByCookie(d)

Adopts(d) == /\ bySerial[d] \notin {NoObj, InformObj(d)}
             /\ InFlight(obj[bySerial[d]])

\* The session after adoption, with the Inform's serial and event.
Opened(d, event) ==
    LET s == obj[InformObj(d)]
    IN [(IF Adopts(d) THEN Adopt(s, obj[bySerial[d]]) ELSE s)
          EXCEPT !.dev = d, !.boot = event = "bootstrap"]

\* BindSerial, and the removal of the emptied session from the session map.
FinishInform(d, w) ==
    LET o == InformObj(d)
        prev == bySerial[d]
        kept == [s \in Sid |-> IF Adopts(d) /\ sessions[s] = prev THEN NoObj ELSE sessions[s]]
    IN Finish(d, o, w,
              [p \in Obj |-> IF Adopts(d) /\ p = prev THEN Emptied(obj[p]) ELSE obj[p]],
              [kept EXCEPT ![SidOf[d]] = o],
              [bySerial EXCEPT ![d] = o])

\* Mutant: the newest task first.
DequeueNewestFirst(d) ==
    LET found == Keep(queue.fifo[d], {t \in Task : queue.status[t] = "pending"})
    IN [k \in DOMAIN found |-> found[Len(found) + 1 - k]]

DequeuePending(d) ==
    Keep(queue.fifo[d], {t \in Task : queue.status[t] = "pending"})

\* FindExecutingDiagnostics, each turned into a task that collects its result.
Collects(d) ==
    LET found == Keep(queue.fifo[d],
                      {t \in Diagnostics : queue.status[t] = "executing"})
    IN [k \in DOMAIN found |-> Collect(found[k])]

\* A UI refresh unless there was one within two minutes, else a discovery
\* for the WiFi or WAN tasks waiting; else the phase stays what it was.
ScheduleSummon(s, d) ==
    IF d \notin fresh THEN [s EXCEPT !.phase = 3, !.mode = "ui_refresh"]
    ELSE IF \E t \in Range(DequeuePending(d)) : Kind[t] \in {"wifi", "wan", "wanset"}
    THEN [s EXCEPT !.phase = 3, !.mode = "task_discovery"]
    ELSE s

\* "8 DIAGNOSTICS COMPLETE" comes from a CPE that has run a diagnostic.
Opens(d, event) ==
    /\ conn[d] = Close
    /\ event = "diagnostics" =>
         \E t \in Diagnostics : Owner[t] = d /\ <<t, 1>> \in applied

\* The tasks of the session: results to collect first, then what is pending.
Tasks(s, d, event) ==
    (IF event = "diagnostics" THEN Collects(d) ELSE <<>>) \o DequeuePending(d)

\* handleInform: the whole list of pending tasks is read into the session.
Inform(d, event, differs) ==
    /\ Opens(d, event)
    /\ d \notin full
    /\ LET o == Opened(d, event)
           s == [ScheduleSummon(o, d) EXCEPT
                   !.pend = Tasks(o, d, event),
                   !.state = "processing",
                   !.needs = @ \/ event = "bootstrap" \/ d \notin db.provisioned]
           w == [World(s) EXCEPT !.fresh = @ \cup {d}, !.out = Ack]
       IN FinishInform(d, InjectGlobalDefaults(w, d, differs))
    /\ UNCHANGED <<full, spent>>

\* Mutant: the request is looked up but not removed.
Loaded(S, d) == S

\* pendingFullSummon.LoadAndDelete.
LoadedAndDeleted(S, d) == S \ {d}

\* handleInform when a full summon was asked for: no InformResponse, no
\* pending tasks; whatever the session still had is dispatched at once.
InformFullSummon(d, event) ==
    /\ Opens(d, event)
    /\ d \in full
    /\ full' = LoadedAndDeleted(full, d)
    /\ FinishInform(d, DispatchNextOrClose(
                          World([Opened(d, event) EXCEPT !.phase = 1])))
    /\ UNCHANGED spent

\* handleInform when MongoDB refuses the device: the session is bound already.
InformRejected(d, event) ==
    /\ Opens(d, event)
    /\ spent.faults < MaxFaults
    /\ spent' = [spent EXCEPT !.faults = @ + 1]
    /\ FinishInform(d, [World(Opened(d, event)) EXCEPT !.out = Close])
    /\ UNCHANGED full

-----------------------------------------------------------------------------
(* Empty POST: the CPE asks for the next RPC.                              *)

EmptyPost(d) ==
    /\ conn[d].op = "InformResponse"
    /\ LET o == ByCookie(d)
           s == obj[o]
           w == World(s)
       IN CASE s.phase = 1 ->
                 Serve(d, o, [w EXCEPT !.out = Msg("GetParameterNames", Summon, 0)])
            [] s.phase = 3 ->
                 Serve(d, o, [w EXCEPT !.s.phase = 4,
                                       !.out = Msg("GetParameterValues", Summon, 0)])
            [] s.phase \notin {1, 3} /\ s.wp # NoItem ->
                 Serve(d, o, [w EXCEPT !.out = StepMsg(s)])
            [] s.phase \notin {1, 3} /\ s.wp = NoItem /\ s.cur # NoItem ->
                 Serve(d, o, Dispatch(w, s.cur))
            [] s.phase \notin {1, 3} /\ s.wp = NoItem /\ s.cur = NoItem ->
                 IF s.pend # <<>> THEN Serve(d, o, DispatchNextOrClose(w))
                 ELSE Finish(d, o, [w EXCEPT !.s.state = "done", !.out = Close], obj,
                             [sessions EXCEPT ![SidOf[d]] = NoObj], bySerial)
    /\ UNCHANGED <<full, spent>>

-----------------------------------------------------------------------------
(* The CPE's answers                                                       *)

Holds(d, op) == conn[d].op = op

\* The world an answer of d is served in; the CPE has accepted the RPC.
Answered(d) ==
    LET w == World(obj[ByRpc(d)])
    IN IF conn[d].item = Summon THEN w
       ELSE [w EXCEPT !.applied = @ \cup {<<conn[d].item, conn[d].step>>}]

SetParamValuesOk(d) ==
    /\ Holds(d, "SetParameterValues")
    /\ Serve(d, ByRpc(d), SetParamValuesResponse(Answered(d)))
    /\ UNCHANGED <<full, spent>>

AddObjectOk(d) ==
    /\ Holds(d, "AddObject")
    /\ Serve(d, ByRpc(d), AddObjectResponse(Answered(d)))
    /\ UNCHANGED <<full, spent>>

DeleteObjectOk(d) ==
    /\ Holds(d, "DeleteObject")
    /\ Serve(d, ByRpc(d), DeleteObjectResponse(Answered(d)))
    /\ UNCHANGED <<full, spent>>

GetParamNamesOk(d) ==
    /\ Holds(d, "GetParameterNames")
    /\ Serve(d, ByRpc(d), GetParameterNamesResponse(Answered(d)))
    /\ UNCHANGED <<full, spent>>

GetParamValuesOk(d, driverDiffers, globalDiffers) ==
    /\ Holds(d, "GetParameterValues")
    /\ Serve(d, ByRpc(d), GetParamValuesResponse(Answered(d), driverDiffers, globalDiffers))
    /\ UNCHANGED <<full, spent>>

RebootOk(d) ==
    /\ Holds(d, "Reboot")
    /\ Serve(d, ByRpc(d), TaskResponse(Answered(d), "done"))
    /\ UNCHANGED <<full, spent>>

DownloadOk(d) ==
    /\ Holds(d, "Download")
    /\ Serve(d, ByRpc(d), DownloadResponse(Answered(d), conn[d].item, 0))
    /\ UNCHANGED <<full, spent>>

\* The CPE will install the file later: nothing is applied yet.
DownloadAccepted(d) ==
    /\ Holds(d, "Download")
    /\ Serve(d, ByRpc(d), DownloadResponse(World(obj[ByRpc(d)]), conn[d].item, 1))
    /\ UNCHANGED <<full, spent>>

\* A SOAP Fault drops the provisioning state and fails the current task.
Fault(d) ==
    /\ conn[d].op \notin {"204", "InformResponse"}
    /\ spent.faults < MaxFaults
    /\ spent' = [spent EXCEPT !.faults = @ + 1]
    /\ Serve(d, ByRpc(d), TaskResponse(
           World([ProvisionDropped(obj[ByRpc(d)]) EXCEPT !.follow = NoItem]), "failed"))
    /\ UNCHANGED full

\* handleTransferComplete: the task is found by CommandKey, not by session.
TransferComplete(d, t, ok) ==
    /\ conn[d].op = "InformResponse"
    /\ t \in transfers /\ Owner[t] = d
    /\ LET w == UpdateStatus(World(Fresh), t, IF ok THEN "done" ELSE "failed")
       IN /\ queue' = w.queue
          /\ applied' = IF ok THEN applied \cup {<<t, 1>>} ELSE applied
    /\ transfers' = transfers \ {t}
    /\ UNCHANGED <<obj, sessions, bySerial, conn, db, fresh, full, spent>>

-----------------------------------------------------------------------------
(* What happens between the CPE's requests.                                *)

\* Mutant: the default status is forgotten.
EnqueueNoStatus(t) ==
    /\ queue.status[t] = "absent"
    /\ queue' = [queue EXCEPT !.status[t] = "", !.fifo[Owner[t]] = Append(@, t)]
    /\ UNCHANGED <<obj, sessions, bySerial, conn, db, fresh, full, transfers,
                   applied, spent>>

\* POST /devices/{serial}/tasks.
Enqueue(t) ==
    /\ queue.status[t] = "absent"
    /\ queue' = [queue EXCEPT !.status[t] = "pending",
                              !.fifo[Owner[t]] = Append(@, t)]
    /\ UNCHANGED <<obj, sessions, bySerial, conn, db, fresh, full, transfers,
                   applied, spent>>

\* POST /devices/{serial}/summon: also marks the device's last session.
TriggerFullSummon(d) ==
    /\ spent.triggers < MaxTriggers
    /\ spent' = [spent EXCEPT !.triggers = @ + 1]
    /\ full' = full \cup {d}
    /\ obj' = [o \in Obj |-> IF o = bySerial[d] /\ obj[o].state # "done"
                             THEN [obj[o] EXCEPT !.phase = 1] ELSE obj[o]]
    /\ UNCHANGED <<sessions, bySerial, conn, queue, db, fresh, transfers, applied>>

\* Two minutes since the last summon.
ThrottleExpires(d) ==
    /\ d \in fresh
    /\ fresh' = fresh \ {d}
    /\ UNCHANGED <<obj, sessions, bySerial, conn, queue, db, full, transfers,
                   applied, spent>>

\* The connection is lost: the CPE has not answered, or its answer is lost.
Drop(d, accepted) ==
    LET m == conn[d]
    IN /\ m # Close
       /\ spent.drops < MaxDrops
       /\ spent' = [spent EXCEPT !.drops = @ + 1]
       /\ conn' = [conn EXCEPT ![d] = Close]
       /\ accepted => m.item \in Item
       /\ applied' = IF accepted /\ m.op # "Download"
                     THEN applied \cup {<<m.item, m.step>>} ELSE applied
       /\ transfers' = IF accepted /\ m.op = "Download"
                       THEN transfers \cup {m.item} ELSE transfers
       /\ obj' = [o \in Obj |-> IF o \in Range(sessions) \cup Range(bySerial)
                                    \/ \E e \in Device \ {d} : conn[e].via = o
                               THEN obj[o] ELSE Fresh]
       /\ UNCHANGED <<sessions, bySerial, queue, db, fresh, full>>

\* The ACS process restarts: the stores stay, the handler's memory does not.
Restart ==
    /\ spent.restarts < MaxRestarts
    /\ spent' = [spent EXCEPT !.restarts = @ + 1]
    /\ obj' = [o \in Obj |-> Fresh]
    /\ sessions' = [s \in Sid |-> NoObj]
    /\ bySerial' = [d \in Device |-> NoObj]
    /\ conn' = [d \in Device |-> [conn[d] EXCEPT !.via = NoObj]]
    /\ fresh' = {} /\ full' = {}
    /\ UNCHANGED <<queue, db, transfers, applied>>

-----------------------------------------------------------------------------
Answer(d) ==
    \/ SetParamValuesOk(d)
    \/ AddObjectOk(d)
    \/ DeleteObjectOk(d)
    \/ GetParamNamesOk(d)
    \/ \E a, b \in BOOLEAN : GetParamValuesOk(d, a, b)
    \/ RebootOk(d)
    \/ DownloadOk(d)
    \/ DownloadAccepted(d)

\* What the CPE does in the normal course of a session.
Cpe(d) ==
    \/ \E event \in Events : \/ \E differs \in BOOLEAN : Inform(d, event, differs)
                             \/ InformFullSummon(d, event)
    \/ EmptyPost(d)
    \/ Answer(d)

Next ==
    \/ \E d \in Device :
          \/ Cpe(d)
          \/ Fault(d)
          \/ \E accepted \in BOOLEAN : Drop(d, accepted)
          \/ \E event \in Events : InformRejected(d, event)
          \/ \E t \in Task, ok \in BOOLEAN : TransferComplete(d, t, ok)
          \/ TriggerFullSummon(d)
          \/ ThrottleExpires(d)
    \/ \E t \in Task : Enqueue(t)
    \/ Restart

Spec == Init /\ [][Next]_vars

\* A CPE Informs periodically and goes on with the session it opened.  Some
\* Cpe(d) step that changes the state is possible in every state, so this is
\* WF_vars(Cpe(d)) without ENABLED, which is slow to evaluate.
FairSpec == Spec /\ \A d \in Device : []<><<Cpe(d)>>_vars

-----------------------------------------------------------------------------
(* Properties                                                              *)

\* The CPE has accepted all of i; a diagnostic is over when its result is read.
Done(i) ==
    /\ \A k \in 1 .. Steps(i) : <<i, k>> \in applied
    /\ i \in Diagnostics => <<Collect(i), 1>> \in applied

\* A task is reported done only if the CPE has accepted every RPC the task
\* is made of (completeTask, session.go): what an answer completes is the
\* task it answers, across reconnects, adoptions and summons.
DoneWasExecuted ==
    \A t \in Task : queue.status[t] = "done" => Done(t)

\* While the CPE works on a task's RPC, the session its answer will be routed
\* to (TakeByRPCID) has that task as its current one, and no summon there
\* would take the answer for its own values.
AnswerReachesItsTask ==
    \A d \in Device :
        LET m == conn[d]
        IN m.item \in Item /\ m.via # NoObj =>
              /\ obj[m.via].cur = m.item
              /\ m.op = "GetParameterValues" => obj[m.via].phase \notin {2, 4}

\* A session in the middle of a WAN provisioning, or of a port mapping, works
\* on that task: nothing else is dispatched until it is over (ServeHTTP).
MultiStepOwnsTheSession ==
    \A o \in Obj :
        /\ obj[o].wp # NoItem => obj[o].cur = obj[o].wp
        /\ obj[o].follow # NoItem => obj[o].cur = obj[o].follow

\* What a session still has to dispatch is pending in Redis, each task once,
\* in the order of the FIFO: stale lists never come back.
SessionTasksArePending ==
    \A o \in Obj :
        LET own == Keep(obj[o].pend, Task)
        IN own # <<>> =>
             \E n \in 0 .. Len(DequeuePending(obj[o].dev)) :
                own = SubSeq(DequeuePending(obj[o].dev), 1, n)

\* A task goes out to the CPE before every task enqueued after it.
FirstDispatchInOrder ==
    [][\A d \in Device : \A j, k \in DOMAIN queue.fifo[d] :
         j < k /\ queue.status[queue.fifo[d][k]] = "pending"
               /\ queue'.status[queue.fifo[d][k]] = "executing"
         => queue'.status[queue.fifo[d][j]] # "pending"]_vars

\* The flag _helix.provisioned of a device is written only after the CPE
\* acknowledged the global defaults, or already had their values
\* (injectGlobalDefaultParams and its comment).  A SOAP fault leaves
\* pendingProvisionMark set, so this holds until the first one.
ProvisionedOnlyAfterAck ==
    spent.faults = 0 => \A d \in db.provisioned : Done(Defaults(d))

\* PPPoE credentials are persisted once the WAN task completes successfully
\* (comment of Session.pendingWANCredentials).  A SOAP fault leaves
\* pendingWANCredentials set, so this holds until the first one.
CredentialsUntilAFault ==
    spent.faults = 0 => \A t \in db.creds : Done(t)

\* A task that was finished is not sent to the CPE again (dispatchTask).  A
\* firmware task is: it stays current when its TransferComplete finishes it.
FinishedStaysFinished ==
    [][\A t \in Task : queue.status[t] \in Terminal /\ Kind[t] # "firmware" =>
                           queue'.status[t] # "executing"]_vars

\* A device only gets RPCs for its own tasks (Session: "per-connection").
TaskGoesToItsDevice ==
    \A d \in Device : conn[d].item \in Task => Owner[conn[d].item] = d

\* Every task an API client created is sent to the CPE, or fails, once the
\* CPE keeps its Informs and sessions going.
PendingIsServed ==
    \A t \in Task : queue.status[t] = "pending" ~> queue.status[t] # "pending"

\* While nothing is lost or refused, every task that ends with the CPE's answer
\* is finished, not left executing, whenever a full summon is asked for.
Undisturbed == spent.drops = 0 /\ spent.faults = 0 /\ spent.restarts = 0
TasksFinish ==
    \A t \in Task :
        queue.status[t] = "pending" ~> queue.status[t] \in Terminal \/ ~Undisturbed
=============================================================================
