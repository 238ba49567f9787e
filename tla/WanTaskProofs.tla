--------------------------- MODULE WanTaskProofs ---------------------------
(***************************************************************************)
(* Proofs about WanTask, for any devices, lists of tasks, Informs and      *)
(* number of faults.                                                       *)
(***************************************************************************)
EXTENDS WanTask, WellFoundedInduction, TLAPS

-----------------------------------------------------------------------------
(* Least elements. *)

Smaller == {pair \in Nat \X Nat : pair[1] < pair[2]}

LEMMA SmallerIsWellFounded == IsWellFoundedOn(Smaller, Nat)
<1>1. OpToRel(<, Nat) = Smaller
  BY Zenon DEF OpToRel, Smaller
<1> QED BY <1>1, NatLessThanWellFounded, Zenon

\* Min is of its set.
LEMMA MinIsMember ==
    ASSUME NEW S \in SUBSET Nat, S # {}
    PROVE  Min(S) \in S
<1>1. PICK x \in S : \A y \in S : <<y, x>> \notin Smaller
  BY SmallerIsWellFounded, WFMin, Zenon
<1>2. ASSUME NEW y \in S
      PROVE  x <= y
  <2>1. x \in Nat /\ y \in Nat
    OBVIOUS
  <2>2. <<y, x>> \notin Smaller
    BY <1>1
  <2> QED BY <2>1, <2>2 DEF Smaller
<1> QED BY <1>2 DEF Min

LEMMA MinOr0IsMember ==
    ASSUME NEW S \in SUBSET Nat
    PROVE  /\ S # {} => MinOr0(S) \in S
           /\ S = {} => MinOr0(S) = 0
BY MinIsMember DEF MinOr0

-----------------------------------------------------------------------------
(* What discovery makes of the WAN connections. *)

\* TR-098: the chosen connection is one the CPE has, with the VLAN it has; the
\* WANDevice is that of it or of an IP connection.
LEMMA TR098Discovery ==
    ASSUME NEW p, ParamsOK(p), NEW q, q.ip = p.ip, q.ppp = p.ppp,
           NEW m \in DiscoverTR098(q)
    PROVE  /\ m.wanIP = 0 /\ m.ppp = 0
           /\ p.ppp = {} => m.pppConn = 0
           /\ p.ppp # {} =>
                \E x \in p.ppp :
                   /\ m.conn = x.conn /\ m.pppConn = x.n /\ m.vlan = x.vlan
                   /\ \E y \in p.ip \cup p.ppp : m.wanDev = y.dev
<1> DEFINE base == DiscoverTR098LAN(q, DiscoverTR098WLAN(q, NoMap))
<1>1. /\ DOMAIN base = DOMAIN NoMap
      /\ base.wanIP = 0 /\ base.ppp = 0 /\ base.pppConn = 0 /\ base.wanDev = 0
  BY DEF DiscoverTR098LAN, DiscoverTR098WLAN, NoMap
<1>2. m \in DiscoverTR098WAN(q, base)
  BY DEF DiscoverTR098
<1> HIDE DEF base
<1> DEFINE withIP == IF q.ip = {} THEN {base} ELSE {WithIP(base, x) : x \in q.ip}
<1>3. ASSUME NEW w \in withIP
      PROVE  /\ DOMAIN w = DOMAIN NoMap
             /\ w.wanIP = 0 /\ w.ppp = 0 /\ w.pppConn = 0
             /\ w.wanDev = 0 \/ \E y \in p.ip : w.wanDev = y.dev
  <2>1. CASE w = base
    BY <1>1, <2>1
  <2>2. ASSUME NEW x \in p.ip, w = WithIP(base, x)
        PROVE  /\ DOMAIN w = DOMAIN NoMap /\ w.wanDev = x.dev
               /\ w.wanIP = 0 /\ w.ppp = 0 /\ w.pppConn = 0
    BY <1>1, <2>2 DEF WithIP, NoMap
  <2> QED BY <2>1, <2>2
<1>4. CASE p.ppp = {}
  <2>1. m \in withIP
    BY <1>2, <1>4 DEF DiscoverTR098WAN
  <2> QED BY <1>3, <1>4, <2>1
<1>5. CASE p.ppp # {}
  <2>1. PICK w \in withIP, c \in BestPPP(q) : m = WithPPP(q, w, c)
    BY <1>2, <1>5 DEF DiscoverTR098WAN
  <2> HIDE DEF withIP
  <2>2. /\ m.wanIP = 0 /\ m.ppp = 0 /\ m.conn = c.conn /\ m.pppConn = c.n
        /\ m.vlan = VlanOf(q, c)
        /\ m.wanDev = IF w.wanDev = 0 THEN c.dev ELSE w.wanDev
    BY <1>3, <2>1 DEF WithPPP, NoMap
  <2>3. PICK x \in p.ppp : c.dev = x.dev /\ c.conn = x.conn /\ c.n = x.n
    <3>1. PICK z \in p.ppp : c \in Candidates(q, z)
      BY DEF BestPPP
    <3> QED BY <3>1 DEF Candidates
  <2>4. VlanOf(q, c) = x.vlan
    <3> DEFINE V == {z.vlan : z \in {y \in q.ppp : y.dev = c.dev /\ y.conn = c.conn /\ y.n = c.n}}
    <3>1. V = {x.vlan}
      BY <2>3 DEF ParamsOK
    <3>2. x.vlan \in Nat
      BY DEF ParamsOK
    <3>3. MinOr0(V) \in V
      <4> HIDE DEF V
      <4> QED BY <3>1, <3>2, MinOr0IsMember
    <3> QED BY <3>1, <3>3 DEF VlanOf
  <2>5. \E y \in p.ip \cup p.ppp : m.wanDev = y.dev
    BY <1>3, <2>2, <2>3
  <2> QED BY <1>5, <2>2, <2>3, <2>4, <2>5
<1> QED BY <1>4, <1>5

\* TR-181: the chosen interface, what stands under it, and the VLAN of that.
LEMMA TR181Discovery ==
    ASSUME NEW q, NEW h, NEW m \in DiscoverTR181(q, h)
    PROVE  /\ m.pppConn = 0 /\ m.wanIP \in WanChoices(q)
           /\ m.wanIP \in DOMAIN q.iface /\ q.iface[m.wanIP].lower \in DOMAIN q.pppIf
                => m.ppp = q.iface[m.wanIP].lower
           /\ DOMAIN q.pppIf = {} => m.ppp = 0
           /\ m.ppp \in DOMAIN q.pppIf => m.vterm = q.pppIf[m.ppp].lower
           /\ m.vlan = IF m.vterm \in DOMAIN q.vterm THEN q.vterm[m.vterm].id ELSE 0
<1>0. PICK a \in DiscoverTR181WAN(q, NoMap) :
         \E d \in DiscoverTR181WiFi(q, h, DiscoverTR181VLAN(q, DiscoverTR181PPP(q, a))) :
              m = DiscoverTR181FreeGPON(q, d)
  BY DEF DiscoverTR181
<1> DEFINE b == DiscoverTR181PPP(q, a)
           c == DiscoverTR181VLAN(q, b)
<1>1. PICK d \in DiscoverTR181WiFi(q, h, c) : m = DiscoverTR181FreeGPON(q, d)
  BY <1>0
<1>2. /\ DOMAIN a = DOMAIN NoMap /\ a.pppConn = 0 /\ a.wanIP \in WanChoices(q) /\ a.vlan = 0
  <2>1. PICK w \in WanChoices(q), l \in LanChoices(q) :
           a = WithInterfaces(NoMap, w, l)
    BY DEF DiscoverTR181WAN
  <2> QED BY <2>1 DEF WithInterfaces, NoMap
<1>3. /\ DOMAIN b = DOMAIN NoMap /\ b.pppConn = 0 /\ b.wanIP = a.wanIP /\ b.vlan = 0
      /\ a.wanIP \in DOMAIN q.iface /\ q.iface[a.wanIP].lower \in DOMAIN q.pppIf
           => b.ppp = q.iface[a.wanIP].lower
      /\ DOMAIN q.pppIf = {} => b.ppp = 0
  BY <1>2 DEF DiscoverTR181PPP, MinOr0, NoMap
<1>4. /\ DOMAIN c = DOMAIN NoMap /\ c.pppConn = 0 /\ c.wanIP = b.wanIP /\ c.ppp = b.ppp
      /\ c.vterm = IF b.ppp \in DOMAIN q.pppIf THEN q.pppIf[b.ppp].lower ELSE 0
      /\ c.vlan = IF c.vterm \in DOMAIN q.vterm THEN q.vterm[c.vterm].id ELSE 0
  <2> DEFINE v == IF b.ppp \in DOMAIN q.pppIf THEN q.pppIf[b.ppp].lower ELSE 0
             e == IF v \in DOMAIN q.vterm THEN q.vterm[v].lower ELSE 0
             tag == IF v \in DOMAIN q.vterm THEN q.vterm[v].id ELSE b.vlan
             link == IF e \in DOMAIN q.eth THEN q.eth[e].lower ELSE b.gpon
  <2> HIDE DEF b
  <2>1. c = [b EXCEPT !.vterm = v, !.vlan = tag, !.eth = e, !.gpon = link]
    BY Zenon DEF DiscoverTR181VLAN
  <2> HIDE DEF c, v, e, tag, link
  <2>2. /\ DOMAIN c = DOMAIN b /\ c.pppConn = b.pppConn /\ c.wanIP = b.wanIP /\ c.ppp = b.ppp
        /\ "vterm" \in DOMAIN b => c.vterm = v
        /\ "vlan" \in DOMAIN b => c.vlan = tag
    BY <2>1
  <2>3. {"vterm", "vlan"} \subseteq DOMAIN b
    BY <1>3 DEF NoMap
  <2> QED BY <1>3, <2>2, <2>3 DEF v, tag
<1> HIDE DEF b, c
<1>5. /\ d.pppConn = c.pppConn /\ d.wanIP = c.wanIP /\ d.ppp = c.ppp
      /\ d.vterm = c.vterm /\ d.vlan = c.vlan /\ DOMAIN d = DOMAIN NoMap
  <2>1. d = c \/ \E s, u, r : d = WithSlots(c, s, u, r)
    BY <1>1, Zenon DEF DiscoverTR181WiFi
  <2>2. ASSUME NEW s, NEW u, NEW r, d = WithSlots(c, s, u, r)
        PROVE  /\ d.pppConn = c.pppConn /\ d.wanIP = c.wanIP /\ d.ppp = c.ppp
               /\ d.vterm = c.vterm /\ d.vlan = c.vlan /\ DOMAIN d = DOMAIN c
    <3>1. DOMAIN c = DOMAIN NoMap
      BY <1>4
    <3> QED BY <2>2, <3>1 DEF WithSlots, NoMap
  <2> QED BY <1>4, <2>1, <2>2
<1>6. /\ m.pppConn = d.pppConn /\ m.wanIP = d.wanIP /\ m.ppp = d.ppp
      /\ m.vterm = d.vterm /\ m.vlan = d.vlan
  BY <1>1, <1>5 DEF DiscoverTR181FreeGPON, NoMap
<1> QED BY <1>2, <1>3, <1>4, <1>5, <1>6

\* What a response that has the WAN subtree shows of it.
LEMMA CarriedWan ==
    ASSUME device \in Devices, NEW S, "wan" \in S
    PROVE  /\ IsTR098 => /\ ~Carried(S).dev
                         /\ Carried(S).ip = device.params.ip
                         /\ Carried(S).ppp = device.params.ppp
           /\ ~IsTR098 => /\ Carried(S).dev
                          /\ Carried(S).iface = device.params.iface
                          /\ Carried(S).pppIf = device.params.pppIf
                          /\ Carried(S).vterm = device.params.vterm
<1>1. /\ device.model \in {"tr098", "tr181"} /\ DOMAIN device.params = DOMAIN NoParams
      /\ device.model = "tr181" => device.params.dev
  BY DevicesAssumption DEF ParamsOK
<1>2. CASE IsTR098
  BY <1>2 DEF Carried, NoParams
<1>3. CASE ~IsTR098
  BY <1>1, <1>3 DEF Carried, NoParams, IsTR098
<1> QED BY <1>2, <1>3

\* An Inform shows no more, as long as it is of one data model only.
LEMMA InformCarriedSame ==
    ASSUME device \in Devices, NEW S, ~(IsTR098 /\ device.params.dev)
    PROVE  InformCarries(S) = Carried(S)
<1>1. /\ device.model \in {"tr098", "tr181"} /\ DOMAIN device.params = DOMAIN NoParams
      /\ device.params.dev \in BOOLEAN /\ device.model = "tr181" => device.params.dev
  BY DevicesAssumption DEF ParamsOK
<1>2. Carried(S).dev = device.params.dev
  <2>1. CASE IsTR098
    <3>1. Carried(S).dev = FALSE
      BY <2>1 DEF Carried, NoParams
    <3>2. device.params.dev = FALSE
      BY <1>1, <2>1
    <3> QED BY <3>1, <3>2, Zenon
  <2>2. CASE ~IsTR098
    <3>1. Carried(S).dev = device.params.dev
      BY <1>1, <2>2 DEF Carried, NoParams
    <3> QED BY <3>1
  <2> QED BY <2>1, <2>2
<1>3. Carried(S) = [f \in DOMAIN Carried(S) |-> Carried(S)[f]]
  BY ZenonT(40) DEF Carried
<1>4. [Carried(S) EXCEPT !.dev = Carried(S).dev] = Carried(S)
  BY <1>3
<1> QED BY <1>2, <1>4 DEF InformCarries

-----------------------------------------------------------------------------
(* The invariant: until a WAN task has succeeded the CPE is as it was, the  *)
(* map is what discovery makes of the subtrees it is said to come from, and *)
(* the plan under way is the one of this map.                               *)

Untouched == /\ ~changed => device \in Devices
             /\ phase \in {"new", "post", "fetch"} => ~changed

Read == Accurate("wan") => im \in DiscoverInstances(Carried(mapped), device.hints)

Planned == Wan => plan = WanPlan(current)

MapInv == Untouched /\ Read /\ Planned

LEMMA InitMapInv == Init => MapInv
BY DEF Init, MapInv, Untouched, Read, Planned, Accurate, Wan

\* A step that leaves map and CPE alone, or is a WAN task's success.
LEMMA ReadStays ==
    ASSUME Read, im' = im, mapped' = mapped,
           ~changed' => ~changed /\ device' = device
    PROVE  Read'
<1>1. ASSUME device' = device
      PROVE  Carried(mapped)' = Carried(mapped)
  BY <1>1 DEF Carried, IsTR098
<1> QED BY <1>1 DEF Read, Accurate

LEMMA NextMapInv ==
    ASSUME MapInv, [Next]_vars
    PROVE  MapInv'
<1> USE DEF MapInv
<1>1. CASE Inform
  <2>1. /\ ~changed /\ device \in Devices /\ device' = device /\ changed' = changed
        /\ phase' = "post"
    BY <1>1 DEF Inform, Untouched
  <2>2. PICK S \in Informed :
           /\ im' \in DiscoverInstances(InformCarries(S), device.hints)
           /\ mapped' = IF IsTR098 /\ device.params.dev THEN {} ELSE S
    BY <1>1 DEF Inform
  <2>3. Read'
    <3>1. CASE IsTR098 /\ device.params.dev
      BY <2>2, <3>1 DEF Read, Accurate
    <3>2. CASE ~(IsTR098 /\ device.params.dev)
      <4>1. im' \in DiscoverInstances(Carried(mapped'), device.hints)
        BY <2>1, <2>2, <3>2, InformCarriedSame
      <4>2. Carried(mapped)' = Carried(mapped')
        BY <2>1 DEF Carried, IsTR098
      <4> QED BY <2>1, <4>1, <4>2 DEF Read
    <3> QED BY <3>1, <3>2
  <2>4. Untouched' /\ Planned'
    BY <2>1 DEF Untouched, Planned, Wan
  <2> QED BY <2>3, <2>4
<1>2. CASE SummonResponse
  <2>1. /\ ~changed /\ device \in Devices /\ device' = device /\ changed' = FALSE
        /\ phase' = "tasks" /\ mapped' = fetch
        /\ im' \in DiscoverInstances(Carried(fetch), device.hints)
    BY <1>2 DEF SummonResponse, Untouched
  <2>2. Carried(mapped)' = Carried(fetch)
    BY <2>1 DEF Carried, IsTR098
  <2>3. Read'
    BY <2>1, <2>2 DEF Read
  <2> QED BY <2>1, <2>3 DEF Untouched, Planned, Wan
<1>3. CASE ExecuteTask
  <2>1. UNCHANGED <<device, im, mapped, changed>> /\ phase' \in {"tasks", "rpc"}
    BY <1>3 DEF ExecuteTask
  <2>2. Read' /\ Untouched'
    BY <2>1, ReadStays DEF Untouched
  <2>3. Planned'
    <3>1. WanPlan(current)' = WanPlan(current')
      BY <2>1 DEF WanPlan, Provisioned, UpdatePlan, NewPlan, GenericPlan, FallbackPlan, Plan, VlanChanging
    <3>2. Wan' => plan' = WanPlan(current')
      BY <1>3 DEF ExecuteTask, Wan
    <3> QED BY <3>1, <3>2 DEF Planned
  <2> QED BY <2>2, <2>3
<1>4. CASE TaskDone
  <2>1. /\ phase' = "tasks" /\ im' = im /\ mapped' = mapped
        /\ ~changed' => ~changed /\ device' = device
    BY <1>4 DEF TaskDone
  <2>2. Read'
    BY <2>1, ReadStays
  <2> QED BY <2>1, <2>2 DEF Untouched, Planned, Wan
<1>5. CASE TriggerFullSummon \/ EmptyPost \/ SummonFault \/ TaskFault \/ CloseSession
  <2>1. /\ UNCHANGED <<device, im, mapped, changed>> /\ phase' # "rpc" /\ phase' # "new"
        /\ phase' \in {"post", "fetch"} => phase \in {"post", "fetch"}
    BY <1>5 DEF TriggerFullSummon, EmptyPost, SummonFault, TaskFault, CloseSession
  <2>2. Read'
    BY <2>1, ReadStays
  <2>3. Untouched' /\ Planned'
    BY <2>1 DEF Untouched, Planned, Wan
  <2> QED BY <2>2, <2>3
<1>6. CASE UNCHANGED vars
  <2>1. Read' /\ Untouched'
    BY <1>6, ReadStays DEF vars, Untouched
  <2>2. Planned'
    BY <1>6 DEF vars, Planned, Wan, WanPlan, Provisioned, UpdatePlan, NewPlan, GenericPlan,
                FallbackPlan, Plan, VlanChanging
  <2> QED BY <2>1, <2>2
<1> QED BY <1>1, <1>2, <1>3, <1>4, <1>5, <1>6 DEF Next

-----------------------------------------------------------------------------
(* What a plan takes from the map. *)

\* A plan to update is made when a stack is known, of that stack; its VLAN is
\* left out only when the map has it.  Every plan to provision is made when no
\* stack is known.
LEMMA PlansOfTheMap ==
    ASSUME Planned
    PROVE  /\ New => ~Provisioned
           /\ Update =>
                /\ Provisioned
                /\ plan.conn = <<SafeInt(im.wanDev, 1), SafeInt(im.conn, 1),
                                 SafeInt(im.pppConn, 1)>>
                /\ plan.stack = <<im.wanIP, im.ppp, im.vterm>>
                /\ current.vlan > 0 => plan.vlan = current.vlan \/ im.vlan = current.vlan
<1>1. ASSUME New
      PROVE  ~Provisioned
  <2>1. plan = WanPlan(current) /\ plan.flow \in {"new", "legacy", "generic"}
    BY <1>1 DEF New, Planned
  <2>2. ASSUME Provisioned
        PROVE  FALSE
    <3>1. plan = Plan("set", 0) \/ plan = UpdatePlan(current)
      BY <2>1, <2>2 DEF WanPlan
    <3>2. plan.flow \in {"set", "none", "fallback", "update", "update_vlan"}
      BY <3>1 DEF UpdatePlan, FallbackPlan, Plan, NoPlan
    <3> QED BY <2>1, <3>2
  <2> QED BY <2>2
<1>2. ASSUME Update
      PROVE  /\ Provisioned
             /\ plan.conn = <<SafeInt(im.wanDev, 1), SafeInt(im.conn, 1),
                              SafeInt(im.pppConn, 1)>>
             /\ plan.stack = <<im.wanIP, im.ppp, im.vterm>>
             /\ current.vlan > 0 => plan.vlan = current.vlan \/ im.vlan = current.vlan
  <2>1. plan = WanPlan(current) /\ plan.flow \in {"update", "update_vlan"}
    BY <1>2 DEF Update, Planned
  <2>2. plan # Plan("set", 0)
    BY <2>1 DEF Plan
  <2>3. plan # NewPlan(current)
    <3>1. ASSUME plan = NewPlan(current)
          PROVE  plan.flow \in {"none", "new", "legacy", "generic"}
      BY <3>1 DEF NewPlan, GenericPlan, Plan, NoPlan
    <3> QED BY <2>1, <3>1
  <2>4. Provisioned /\ plan = UpdatePlan(current)
    BY <2>1, <2>2, <2>3 DEF WanPlan
  <2>5. \/ ~VlanChanging(current) /\ plan = Plan("update", 0)
        \/ plan = Plan("update_vlan", current.vlan)
    BY <2>1, <2>4 DEF UpdatePlan, FallbackPlan, Plan, NoPlan
  <2> QED BY <2>4, <2>5 DEF Plan, VlanChanging
<1> QED BY <1>1, <1>2

\* What an accurate map has of a TR-098 device's PPP connections: nothing, or
\* one of them, at its WANDevice when there is one only.
LEMMA TR098Map ==
    ASSUME MapInv, Accurate("wan"), Identified, IsTR098
    PROVE  /\ Provisioned <=> device.params.ppp # {}
           /\ Provisioned =>
                \E x \in device.params.ppp :
                   /\ <<SafeInt(im.wanDev, 1), SafeInt(im.conn, 1), SafeInt(im.pppConn, 1)>>
                         = <<x.dev, x.conn, x.n>>
                   /\ im.vlan = x.vlan
<1> DEFINE p == device.params
           q == Carried(mapped)
<1>1. device \in Devices /\ ParamsOK(p)
  BY DevicesAssumption DEF MapInv, Untouched, Accurate
<1>2. ~q.dev /\ q.ip = p.ip /\ q.ppp = p.ppp
  BY <1>1, CarriedWan DEF Accurate
<1>3. im \in DiscoverTR098(q)
  BY <1>2 DEF MapInv, Read, DiscoverInstances
<1>4. ASSUME NEW x \in p.ip \cup p.ppp
      PROVE  x.dev \in Index /\ x.conn \in Index /\ x.n \in Index
  BY <1>1 DEF ParamsOK
<1>5. ASSUME NEW x \in p.ip \cup p.ppp, NEW y \in p.ip \cup p.ppp
      PROVE  x.dev = y.dev
  BY DEF Identified
<1> HIDE DEF p, q
<1>6. /\ im.wanIP = 0 /\ im.ppp = 0
      /\ p.ppp = {} => im.pppConn = 0
      /\ p.ppp # {} =>
           \E x \in p.ppp :
              /\ im.conn = x.conn /\ im.pppConn = x.n /\ im.vlan = x.vlan
              /\ \E y \in p.ip \cup p.ppp : im.wanDev = y.dev
  BY <1>1, <1>2, <1>3, TR098Discovery
<1>7. CASE p.ppp = {}
  BY <1>6, <1>7 DEF Provisioned, p
<1>8. CASE p.ppp # {}
  <2>1. PICK x \in p.ppp :
           /\ im.conn = x.conn /\ im.pppConn = x.n /\ im.vlan = x.vlan
           /\ \E y \in p.ip \cup p.ppp : im.wanDev = y.dev
    BY <1>6, <1>8
  <2>2. im.wanDev = x.dev
    BY <1>5, <2>1
  <2>3. im.wanDev > 0 /\ im.conn > 0 /\ im.pppConn > 0
    BY <1>4, <2>1, <2>2 DEF Index
  <2>4. Provisioned
    BY <2>3 DEF Provisioned
  <2>5. <<SafeInt(im.wanDev, 1), SafeInt(im.conn, 1), SafeInt(im.pppConn, 1)>>
           = <<x.dev, x.conn, x.n>>
    BY <2>1, <2>2, <2>3 DEF SafeInt
  <2> QED BY <1>8, <2>1, <2>4, <2>5 DEF p
<1> QED BY <1>7, <1>8

\* What an accurate map has of a TR-181 device's stacks: none, or one of them.
LEMMA TR181Map ==
    ASSUME MapInv, Accurate("wan"), Identified, ~IsTR098
    PROVE  /\ HasPPPoE => Provisioned
           /\ Provisioned => IsStack(<<im.wanIP, im.ppp, im.vterm>>)
           /\ im.vlan > 0 => /\ im.vterm \in DOMAIN device.params.vterm
                             /\ im.vlan = device.params.vterm[im.vterm].id
<1> DEFINE p == device.params
           q == Carried(mapped)
<1>1. device \in Devices /\ ParamsOK(p)
  BY DevicesAssumption DEF MapInv, Untouched, Accurate
<1>2. q.dev /\ q.iface = p.iface /\ q.pppIf = p.pppIf /\ q.vterm = p.vterm
  BY <1>1, CarriedWan DEF Accurate
<1>3. im \in DiscoverTR181(q, device.hints)
  BY <1>2 DEF MapInv, Read, DiscoverInstances
<1>4. DOMAIN p.iface \subseteq Index /\ DOMAIN p.pppIf \subseteq Index
  BY <1>1 DEF ParamsOK
<1>5. DOMAIN p.pppIf # {} =>
         /\ InternetInterfaces # {}
         /\ \A i \in InternetInterfaces : p.iface[i].lower \in DOMAIN p.pppIf
  BY DEF Identified
<1>6. WanChoices(q) = WanChoices(p)
  BY <1>2 DEF WanChoices, ChooseTR181WANCandidate, OfType
<1>7. InternetInterfaces # {} => WanChoices(p) \subseteq InternetInterfaces
  <2> DEFINE wan == OfType(p, "wan")
             marked == {i \in wan : p.iface[i].internet}
             public == {i \in DOMAIN p.iface : "public" \in p.iface[i].addrs}
             ipcp == {i \in DOMAIN p.iface : p.iface[i].ipcp}
  <2>1. /\ wan \in SUBSET Nat /\ marked \in SUBSET Nat /\ marked \subseteq wan
        /\ public \in SUBSET Nat /\ ipcp \in SUBSET Nat
    BY <1>4 DEF OfType, Index
  <2>2. InternetInterfaces = CASE marked # {} -> marked
                               [] marked = {} /\ wan # {} -> wan
                               [] wan = {} /\ public # {} -> public
                               [] OTHER -> ipcp
    BY DEF InternetInterfaces
  <2>3. WanChoices(p) = IF wan # {} THEN {Min(IF marked # {} THEN marked ELSE wan)}
                        ELSE IF public # {} THEN public ELSE {MinOr0(ipcp)}
    BY DEF WanChoices, ChooseTR181WANCandidate
  <2> HIDE DEF wan, marked, public, ipcp
  <2>4. CASE marked # {}
    <3>1. InternetInterfaces = marked /\ WanChoices(p) = {Min(marked)}
      BY <2>1, <2>2, <2>3, <2>4
    <3> QED BY <2>1, <2>4, <3>1, MinIsMember
  <2>5. CASE marked = {} /\ wan # {}
    <3>1. InternetInterfaces = wan /\ WanChoices(p) = {Min(wan)}
      BY <2>2, <2>3, <2>5
    <3> QED BY <2>1, <2>5, <3>1, MinIsMember
  <2>6. CASE wan = {} /\ public # {}
    BY <2>1, <2>2, <2>3, <2>6
  <2>7. CASE wan = {} /\ public = {}
    <3>1. InternetInterfaces = ipcp /\ WanChoices(p) = {MinOr0(ipcp)}
      BY <2>1, <2>2, <2>3, <2>7
    <3> QED BY <2>1, <3>1, MinOr0IsMember
  <2> QED BY <2>4, <2>5, <2>6, <2>7
<1>8. InternetInterfaces \subseteq DOMAIN p.iface
  BY DEF InternetInterfaces, OfType
<1> HIDE DEF p, q
<1>9. /\ im.pppConn = 0 /\ im.wanIP \in WanChoices(p)
      /\ im.wanIP \in DOMAIN p.iface /\ p.iface[im.wanIP].lower \in DOMAIN p.pppIf
           => im.ppp = p.iface[im.wanIP].lower
      /\ DOMAIN p.pppIf = {} => im.ppp = 0
      /\ im.ppp \in DOMAIN p.pppIf => im.vterm = p.pppIf[im.ppp].lower
      /\ im.vlan = IF im.vterm \in DOMAIN p.vterm THEN p.vterm[im.vterm].id ELSE 0
  BY <1>2, <1>3, <1>6, TR181Discovery
<1>10. ASSUME DOMAIN p.pppIf # {}
       PROVE  Provisioned /\ IsStack(<<im.wanIP, im.ppp, im.vterm>>)
  <2>1. im.wanIP \in DOMAIN p.iface /\ p.iface[im.wanIP].lower \in DOMAIN p.pppIf
    BY <1>5, <1>7, <1>8, <1>9, <1>10
  <2>2. /\ im.ppp = p.iface[im.wanIP].lower /\ im.ppp \in DOMAIN p.pppIf
        /\ im.vterm = p.pppIf[im.ppp].lower
    BY <1>9, <2>1
  <2>3. im.wanIP > 0 /\ im.ppp > 0
    BY <1>4, <2>1, <2>2 DEF Index
  <2> QED BY <2>1, <2>2, <2>3 DEF Provisioned, IsStack, p
<1>11. Provisioned => DOMAIN p.pppIf # {}
  BY <1>9 DEF Provisioned
<1>12. HasPPPoE => DOMAIN p.pppIf # {}
  BY DEF HasPPPoE, p
<1>13. im.vlan > 0 => /\ im.vterm \in DOMAIN p.vterm
                      /\ im.vlan = p.vterm[im.vterm].id
  BY <1>9
<1> QED BY <1>10, <1>11, <1>12, <1>13 DEF p

-----------------------------------------------------------------------------
(* The theorems. *)

\* From an accurate map only a CPE without a PPPoE connection is provisioned,
\* and an update addresses one connection the CPE has.
LEMMA MapInvFits == MapInv => PlanFitsTheDevice
<1> SUFFICES ASSUME MapInv, Accurate("wan"), Identified
             PROVE  /\ New => ~HasPPPoE
                    /\ Update => IF IsTR098 THEN plan.conn \in Connections
                                 ELSE IsStack(plan.stack)
  BY DEF PlanFitsTheDevice
<1>1. Planned
  BY DEF MapInv
<1>2. CASE IsTR098
  <2>1. New => ~HasPPPoE
    BY <1>1, <1>2, PlansOfTheMap, TR098Map DEF HasPPPoE
  <2>2. Update => plan.conn \in Connections
    BY <1>1, <1>2, PlansOfTheMap, TR098Map DEF Connections
  <2> QED BY <1>2, <2>1, <2>2
<1>3. CASE ~IsTR098
  BY <1>1, <1>3, PlansOfTheMap, TR181Map
<1> QED BY <1>2, <1>3

\* The VLAN an update leaves out is the one its connection has.
LEMMA MapInvVlan == MapInv => RequestedVlanIsSet
<1> SUFFICES ASSUME MapInv, Accurate("wan"), Identified, Update, current.vlan > 0,
                    plan.vlan # current.vlan
             PROVE  VlanThere = {current.vlan}
  BY DEF RequestedVlanIsSet
<1>1. /\ Provisioned /\ im.vlan = current.vlan
      /\ plan.conn = <<SafeInt(im.wanDev, 1), SafeInt(im.conn, 1), SafeInt(im.pppConn, 1)>>
      /\ plan.stack = <<im.wanIP, im.ppp, im.vterm>>
  BY PlansOfTheMap DEF MapInv
<1>2. CASE IsTR098
  <2>1. PICK x \in device.params.ppp : plan.conn = <<x.dev, x.conn, x.n>> /\ im.vlan = x.vlan
    BY <1>1, <1>2, TR098Map
  <2>2. ParamsOK(device.params)
    BY DevicesAssumption DEF MapInv, Untouched, Accurate
  <2>3. \A y \in device.params.ppp : <<y.dev, y.conn, y.n>> = plan.conn <=> y = x
    BY <2>1, <2>2 DEF ParamsOK
  <2>4. VlanThere = {x.vlan}
    BY <1>2, <2>3 DEF VlanThere
  <2> QED BY <1>1, <2>1, <2>4
<1>3. CASE ~IsTR098
  <2>1. /\ im.vterm \in DOMAIN device.params.vterm
        /\ current.vlan = device.params.vterm[im.vterm].id
    BY <1>1, <1>3, TR181Map
  <2>2. plan.stack[3] = im.vterm
    BY <1>1
  <2> QED BY <1>3, <2>1, <2>2 DEF VlanThere
<1> QED BY <1>2, <1>3

\* Whatever the devices, the tasks, what Informs and summons carry and the
\* faults: the map is what discovery makes of the CPE until a WAN task has
\* changed it, and the plan under way is made of that map.
THEOREM MapInvariant == Spec => []MapInv
<1>1. Init => MapInv
  BY InitMapInv
<1>2. MapInv /\ [Next]_vars => MapInv'
  BY NextMapInv
<1> QED BY <1>1, <1>2, PTL DEF Spec

\* PlanFitsTheDevice for every device, list of tasks, Inform and summon.
THEOREM PlansFit == Spec => []PlanFitsTheDevice
BY MapInvariant, MapInvFits, PTL

\* RequestedVlanIsSet for every device, list of tasks, Inform and summon.
THEOREM VlansAreSet == Spec => []RequestedVlanIsSet
BY MapInvariant, MapInvVlan, PTL
=============================================================================
