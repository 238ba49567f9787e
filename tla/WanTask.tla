------------------------------ MODULE WanTask ------------------------------
(***************************************************************************)
(* WAN and WiFi tasks of one session (internal/cwmp/session.go): from      *)
(* which parameters the session learns the instances of the CPE's objects  *)
(* (the Inform, then a targeted or a full summon), and what each task      *)
(* makes of that instance map, while the tasks themselves change the CPE.  *)
(*                                                                         *)
(* A device is [params, model, driver, adds, hints, bands]: the objects    *)
(* it has (InstanceDiscovery), its data model, the flows its driver has    *)
(* ("none": no driver, "update": only updates, "full": new ones too),      *)
(* whether its schema provisions with AddObject, the driver's WiFi hints,  *)
(* and the band its WiFi objects really are of.                            *)
(***************************************************************************)
EXTENDS InstanceDiscovery

CONSTANTS
    Devices,     \* the devices a session may be with
    Todos,       \* the sequences of pending tasks it may begin with
    Informed,    \* the sets of subtrees an Inform may carry
    MaxFaults    \* faults of the CPE

Subtrees == {"wan", "wifi", "gpon"}
ASSUME InformedAssumption == Informed \subseteq SUBSET Subtrees
ASSUME FaultsAssumption == MaxFaults \in Nat

\* The names of a TR-181 device start with "Device.".
ASSUME DevicesAssumption ==
    \A v \in Devices :
      /\ v.model \in {"tr098", "tr181"} /\ ParamsOK(v.params)
      /\ v.model = "tr181" => v.params.dev

VARIABLES
    device,      \* the CPE
    im,          \* session.instanceMap
    mapped,      \* the subtrees it was discovered from
    changed,     \* a WAN task has succeeded since it was
    phase,       \* "new", "post", "fetch" (a summon is out), "tasks", "rpc", "done"
    fetch,       \* the subtrees the summon asks for
    todo,        \* session.pendingTasks
    current,     \* the task being executed
    plan,        \* what executeTask made of it
    faults

vars == <<device, im, mapped, changed, phase, fetch, todo, current, plan, faults>>

NoTask == [type |-> "none"]
NoPlan == [flow |-> "none"]
IsTR098 == device.model = "tr098"

\* What a response holds when only those subtrees were asked for.  A TR-098
\* summon asks for InternetGatewayDevice names only: no "Device." among them.
Carried(S) ==
    LET p == device.params
        Part(t, whole, none) == IF t \in S THEN whole ELSE none
    IN  IF IsTR098
        THEN [NoParams EXCEPT !.ip = Part("wan", p.ip, {}), !.ppp = Part("wan", p.ppp, {}),
                              !.lan = Part("wifi", p.lan, {}),
                              !.wlan = Part("wifi", p.wlan, Nothing)]
        ELSE [p EXCEPT !.iface = Part("wan", @, Nothing), !.pppIf = Part("wan", @, Nothing),
                       !.vterm = Part("wan", @, Nothing), !.eth = Part("wan", @, Nothing),
                       !.gpon = Part("gpon", @, Nothing),
                       !.radio = Part("wifi", @, Nothing), !.ssid = Part("wifi", @, Nothing),
                       !.ap = Part("wifi", @, Nothing)]

\* An Inform may hold names of both data models: it is of a TR-098 device, but
\* its instances are looked for under the TR-181 names only.
InformCarries(S) == [Carried(S) EXCEPT !.dev = device.params.dev]

-----------------------------------------------------------------------------
(* The Inform and the summon it schedules. *)

\* Only the first WiFi or WAN task says what is fetched.
TargetedSummonPaths(tasks) ==
    LET wanted == {i \in DOMAIN tasks : tasks[i].type \in {"wan", "wifi"}}
    IN  IF wanted = {} THEN {} ELSE {tasks[Min(wanted)].type}

UISummonPaths == {"wan", "wifi"}

Init ==
    /\ device \in Devices
    /\ todo \in Todos
    /\ im = NoMap /\ mapped = {} /\ changed = FALSE
    /\ phase = "new" /\ fetch = {}
    /\ current = NoTask /\ plan = NoPlan /\ faults = 0

\* throttled: less than two minutes since the last refresh.
Inform ==
    /\ phase = "new"
    /\ \E S \in Informed, throttled \in BOOLEAN :
         /\ im' \in DiscoverInstances(InformCarries(S), device.hints)
         /\ mapped' = IF IsTR098 /\ device.params.dev THEN {} ELSE S
         /\ fetch' = IF throttled THEN TargetedSummonPaths(todo) ELSE UISummonPaths
    /\ phase' = "post"
    /\ UNCHANGED <<device, changed, todo, current, plan, faults>>

\* The API asks for a full summon before the CPE's empty POST.
TriggerFullSummon ==
    /\ phase = "post" /\ fetch # Subtrees
    /\ fetch' = Subtrees
    /\ UNCHANGED <<device, im, mapped, changed, phase, todo, current, plan, faults>>

\* The empty POST: the summon goes out, else the tasks.
EmptyPost ==
    /\ phase = "post"
    /\ phase' = IF fetch = {} THEN "tasks" ELSE "fetch"
    /\ UNCHANGED <<device, im, mapped, changed, fetch, todo, current, plan, faults>>

\* The response replaces the map by what that response alone shows.
SummonResponse ==
    /\ phase = "fetch"
    /\ im' \in DiscoverInstances(Carried(fetch), device.hints)
    /\ mapped' = fetch
    /\ changed' = FALSE
    /\ phase' = "tasks"
    /\ UNCHANGED <<device, fetch, todo, current, plan, faults>>

\* A fault ends the summon; the tasks go out with the map there is.
SummonFault ==
    /\ phase = "fetch" /\ faults < MaxFaults
    /\ phase' = "tasks" /\ faults' = faults + 1
    /\ UNCHANGED <<device, im, mapped, changed, fetch, todo, current, plan>>

-----------------------------------------------------------------------------
(* executeTask. *)

\* The type may be left out when credentials or a VLAN are given.
IsPPPoE(t) ==
    \/ t.conn = "pppoe"
    \/ t.conn = "" /\ (t.user \/ t.pass \/ t.vlan > 0)

Provisioned == im.pppConn > 0 \/ (im.wanIP > 0 /\ im.ppp > 0)

Plan(flow, vlan) ==
    [flow  |-> flow,
     vlan  |-> vlan,                                  \* 0: not written
     conn  |-> <<SafeInt(im.wanDev, 1), SafeInt(im.conn, 1), SafeInt(im.pppConn, 1)>>,
     stack |-> <<im.wanIP, im.ppp, im.vterm>>,
     gpon  |-> im.gpon]

\* Username and password at the mapper's paths; the VLAN is not written.
GenericPlan(t) == IF t.user \/ t.pass THEN Plan("generic", 0) ELSE NoPlan

\* No PPPoE stack is known: provision it, by the driver's flow, by the steps
\* kept for schemas that add objects, or by setting the credentials.
NewPlan(t) ==
    IF t.vlan = 0 \/ ~t.user THEN NoPlan
    ELSE IF device.driver = "full" THEN Plan("new", t.vlan)
    ELSE IF device.adds THEN Plan("legacy", t.vlan)
    ELSE GenericPlan(t)

VlanChanging(t) == t.vlan > 0 /\ t.vlan # im.vlan

\* Without a driver: the parameters themselves, the VLAN only at a VLANTermination.
FallbackPlan(t) == Plan("fallback", IF VlanChanging(t) /\ im.vterm > 0 THEN t.vlan ELSE 0)

\* The stack is known: a driver's update flow, or the fallback.
UpdatePlan(t) ==
    IF \/ VlanChanging(t) /\ ~t.user
       \/ ~VlanChanging(t) /\ ~t.user /\ ~t.pass
    THEN NoPlan
    ELSE IF device.driver = "none"
    THEN FallbackPlan(t)
    ELSE IF ~VlanChanging(t) THEN Plan("update", 0)
    ELSE IF im.wanIP > 0 /\ im.ppp > 0 /\ im.vterm = 0 THEN NoPlan
    ELSE Plan("update_vlan", t.vlan)

WanPlan(t) ==
    IF ~IsPPPoE(t) THEN Plan("set", 0)
    ELSE IF Provisioned THEN UpdatePlan(t) ELSE NewPlan(t)

\* The objects of a band a WiFi task writes to.
WifiTargets(b) ==
    IF IsTR098 THEN [wlan |-> SafeIdx(im.wlans, b)]
    ELSE [ssid |-> SafeIdx(im.ssids, b), ap |-> SafeIdx(im.aps, b),
          radio |-> SafeIdx(im.radios, b)]

\* Turning band steering on writes the other band too.
WifiPlan(t) ==
    IF device.driver = "none" THEN NoPlan
    ELSE [flow |-> "wifi",
          at |-> [b \in IF t.steer THEN 0..1 ELSE {t.band} |-> WifiTargets(b)]]

\* A task that cannot be built fails at once and the next one is dispatched.
ExecuteTask ==
    /\ phase = "tasks" /\ todo # <<>>
    /\ todo' = Tail(todo)
    /\ LET t == Head(todo)
           made == IF t.type = "wan" THEN WanPlan(t) ELSE WifiPlan(t)
       IN  IF made = NoPlan
           THEN current' = NoTask /\ plan' = NoPlan /\ phase' = "tasks"
           ELSE current' = t /\ plan' = made /\ phase' = "rpc"
    /\ UNCHANGED <<device, im, mapped, changed, fetch, faults>>

-----------------------------------------------------------------------------
(* The CPE's answer. *)

Fresh(S) == Max(S \cup {0}) + 1

\* The CPE builds a new stack (next free indices), or sets a VLAN in place.
\* An object that is not there is not set: the request is refused.
Applied(p) ==
    IF plan.flow \in {"new", "legacy"}
    THEN IF IsTR098
         THEN [p EXCEPT !.ppp = @ \cup {[dev |-> 1, conn |-> Fresh({x.conn : x \in @}),
                                         n |-> 1, addr |-> "public", vlan |-> plan.vlan]}]
         ELSE LET i == Fresh(DOMAIN p.iface)  l == Fresh(DOMAIN p.pppIf)
                  v == Fresh(DOMAIN p.vterm)  e == Fresh(DOMAIN p.eth)
                  New(f, x, y) == [z \in DOMAIN f \cup {x} |-> IF z = x THEN y ELSE f[z]]
              IN  [p EXCEPT
                    !.iface = New(@, i, [type |-> "wan", internet |-> TRUE, lower |-> l,
                                         addrs |-> {"public"}, ipcp |-> TRUE]),
                    !.pppIf = New(@, l, [lower |-> v]),
                    !.vterm = New(@, v, [id |-> plan.vlan, lower |-> e]),
                    !.eth = New(@, e, [lower |-> plan.gpon])]
    ELSE IF plan.flow = "update_vlan" /\ IsTR098
    THEN [p EXCEPT !.ppp = {IF <<x.dev, x.conn, x.n>> = plan.conn
                            THEN [x EXCEPT !.vlan = plan.vlan] ELSE x : x \in @}]
    ELSE IF plan.vlan > 0 /\ plan.stack[3] \in DOMAIN p.vterm
    THEN [p EXCEPT !.vterm[plan.stack[3]].id = plan.vlan]
    ELSE p

TaskDone ==
    /\ phase = "rpc"
    /\ device' = IF current.type = "wan" THEN [device EXCEPT !.params = Applied(@)] ELSE device
    /\ changed' = (changed \/ current.type = "wan")
    /\ phase' = "tasks" /\ current' = NoTask
    /\ UNCHANGED <<im, mapped, fetch, todo, plan, faults>>

TaskFault ==
    /\ phase = "rpc" /\ faults < MaxFaults
    /\ phase' = "tasks" /\ faults' = faults + 1 /\ current' = NoTask
    /\ UNCHANGED <<device, im, mapped, changed, fetch, todo, plan>>

CloseSession ==
    /\ phase = "tasks" /\ todo = <<>>
    /\ phase' = "done"
    /\ UNCHANGED <<device, im, mapped, changed, fetch, todo, current, plan, faults>>

Next ==
    \/ Inform
    \/ TriggerFullSummon
    \/ EmptyPost
    \/ SummonResponse
    \/ SummonFault
    \/ ExecuteTask
    \/ TaskDone
    \/ TaskFault
    \/ CloseSession

Spec == Init /\ [][Next]_vars

-----------------------------------------------------------------------------
(* Properties. *)

Wan == phase = "rpc" /\ current.type = "wan"

\* The map was discovered from the task's subtree, and no WAN task has changed
\* the CPE since.
Accurate(subtree) == subtree \in mapped /\ ~changed

\* The interfaces that say most plainly that they are the Internet connection.
InternetInterfaces ==
    LET p      == device.params
        wan    == OfType(p, "wan")
        marked == {i \in wan : p.iface[i].internet}
        public == {i \in DOMAIN p.iface : "public" \in p.iface[i].addrs}
    IN  CASE marked # {} -> marked
          [] marked = {} /\ wan # {} -> wan
          [] wan = {} /\ public # {} -> public
          [] OTHER -> {i \in DOMAIN p.iface : p.iface[i].ipcp}

\* The PPPoE connection can be told from the others: one WANDevice has all the
\* connections; where there are PPP interfaces, what says it is the Internet
\* connection stands on one of them.
Identified ==
    LET p == device.params
    IN  /\ \A x, y \in p.ip \cup p.ppp : x.dev = y.dev
        /\ DOMAIN p.pppIf # {} =>
              /\ InternetInterfaces # {}
              /\ \A i \in InternetInterfaces : p.iface[i].lower \in DOMAIN p.pppIf

Connections == {<<x.dev, x.conn, x.n>> : x \in device.params.ppp}

\* Interface, PPP interface and VLAN termination stacked on one another.
IsStack(s) ==
    /\ s[1] \in DOMAIN device.params.iface /\ device.params.iface[s[1]].lower = s[2]
    /\ s[2] \in DOMAIN device.params.pppIf /\ device.params.pppIf[s[2]].lower = s[3]

HasPPPoE ==
    IF IsTR098 THEN device.params.ppp # {}
    ELSE \E i \in DOMAIN device.params.iface :
            device.params.iface[i].lower \in DOMAIN device.params.pppIf

New == Wan /\ plan.flow \in {"new", "legacy", "generic"}
Update == Wan /\ plan.flow \in {"update", "update_vlan"}

\* The indices of a plan come from different scans of the parameters, in
\* whatever order the map gave.  From an accurate map, only a CPE without a
\* PPPoE connection is provisioned, and the indices of an update are all of
\* one connection: it never disables one interface and rewrites the session
\* of another.
PlanFitsTheDevice ==
    Accurate("wan") /\ Identified =>
    /\ New => ~HasPPPoE
    /\ Update => IF IsTR098 THEN plan.conn \in Connections ELSE IsStack(plan.stack)

\* The VLAN of the connection a plan addresses.
VlanThere ==
    IF IsTR098
    THEN {x.vlan : x \in {y \in device.params.ppp : <<y.dev, y.conn, y.n>> = plan.conn}}
    ELSE {device.params.vterm[v].id : v \in {plan.stack[3]} \cap DOMAIN device.params.vterm}

\* A VLAN is left out of an update when discovery saw it there already: with
\* a driver, the connection the update addresses has then the VLAN asked for.
RequestedVlanIsSet ==
    Accurate("wan") /\ Identified /\ Update /\ current.vlan > 0 =>
    plan.vlan = current.vlan \/ VlanThere = {current.vlan}

HasBand(b) == \E f \in DOMAIN device.bands : b \in Range(device.bands[f])

\* Bands are guessed in five ways (frequency, standard, channel, strategy,
\* order) and kept per kind of object: on a device whose band is reported or
\* follows the driver's strategy, all the objects a WiFi task writes for a
\* band are of that band.
WifiAddressesTheBand ==
    phase = "rpc" /\ current.type = "wifi" /\ "wifi" \in mapped =>
    \A b \in DOMAIN plan.at : HasBand(b) =>
      \A f \in DOMAIN plan.at[b] : device.bands[f][plan.at[b][f]] = b

\* "so that instanceMap is accurate before the task is dispatched"
\* (internal/cwmp/session.go:758): a CPE that has a PPPoE connection is not given another.
ProvisionedOnce == New /\ plan.flow # "generic" => ~HasPPPoE
=============================================================================
