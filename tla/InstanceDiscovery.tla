------------------------- MODULE InstanceDiscovery -------------------------
(***************************************************************************)
(* How the ACS finds the instances of a CPE's objects                      *)
(* (internal/datamodel/instances.go) and which index a path template gets  *)
(* (internal/schema/mapper.go).                                            *)
(*                                                                         *)
(* The parameters are a Go map: the code ranges over them in an order that *)
(* differs from one run to the next.  Where the order matters ("first seen *)
(* wins", "last seen wins") a result is therefore a SET of what discovery  *)
(* may return; DiscoverInstances(p, h) is the set of instance maps of the  *)
(* parameters p under the driver's hints h.                                *)
(*                                                                         *)
(* A parameter map is a record of the objects it shows:                    *)
(*   dev    a name starts with "Device."                                   *)
(*   ip     WANIPConnections [dev, conn, n]                                *)
(*   ppp    WANPPPConnections [dev, conn, n, addr, vlan]                   *)
(*   lan    LANDevice indices                                              *)
(*   wlan   WLANConfiguration index -> [channel, std]                      *)
(*   iface  IP.Interface index -> [type, internet, addrs, ipcp, lower]     *)
(*   pppIf, vterm, eth  index -> [lower, ...]: LowerLayers, 0 if none      *)
(*   gpon   X_TP_GPON.Link index -> Enable                                 *)
(*   radio  index -> [freq, std];  ssid, ap  index -> the object it names  *)
(* A standard is the set of 802.11 letters its value spells.               *)
(***************************************************************************)
EXTENDS Integers, Sequences, FiniteSetsExt

Band == 0..2                                  \* 2.4, 5 and 6 GHz
Nothing == [i \in {} |-> 0]                   \* no instances
NoMap == [wanDev |-> 0, conn |-> 0, ipConn |-> 0, pppConn |-> 0, lanDev |-> 0,
          wanIP |-> 0, lanIP |-> 0, ppp |-> 0, vterm |-> 0, eth |-> 0,
          vlan |-> 0, gpon |-> 0, wlans |-> Nothing, ssids |-> Nothing,
          radios |-> Nothing, aps |-> Nothing]
NoParams == [dev |-> FALSE, ip |-> {}, ppp |-> {}, lan |-> {}, wlan |-> Nothing,
             iface |-> Nothing, pppIf |-> Nothing, vterm |-> Nothing,
             eth |-> Nothing, gpon |-> Nothing, radio |-> Nothing,
             ssid |-> Nothing, ap |-> Nothing]

\* Instances are numbered from one, and a path names one object.
Index == Nat \ {0}
ParamsOK(p) ==
    /\ DOMAIN p = DOMAIN NoParams /\ p.dev \in BOOLEAN
    /\ \A x \in p.ip \cup p.ppp : {x.dev, x.conn, x.n} \subseteq Index
    /\ \A x \in p.ppp : x.vlan \in Nat
    /\ \A x, y \in p.ppp : <<x.dev, x.conn, x.n>> = <<y.dev, y.conn, y.n>> => x = y
    /\ \A f \in {"iface", "pppIf", "vterm"} : DOMAIN p[f] \subseteq Index

MinOr0(S) == IF S = {} THEN 0 ELSE Min(S)
OneOf(S) == IF S = {} THEN {0} ELSE S         \* any of S, 0 when there is none
Place(S, i) == Cardinality({j \in S : j < i}) \* of i in the sorted slice of S

\* The slice that holds for each band the smallest instance of that band.
Primary(bandOf) ==
    [b \in 0..Max(Range(bandOf)) |-> MinOr0({i \in DOMAIN bandOf : bandOf[i] = b})]

-----------------------------------------------------------------------------
(* TR-098. *)

Candidate == [dev : Nat, conn : Nat, n : Nat, rank : 0..2]

\* A WANConnectionDevice is one candidate: the PPP connection of it seen first,
\* and the kind of the address seen last (public 2, any 1, none 0).
Candidates(p, c) ==
    LET here == {x \in p.ppp : x.dev = c.dev /\ x.conn = c.conn}
        seen == {x \in here : x.addr # "none"}
    IN  [dev : {c.dev}, conn : {c.conn}, n : {x.n : x \in here},
         rank : OneOf({IF x.addr = "public" THEN 2 ELSE 1 : x \in seen})]

Beats(c, d) == c.rank > d.rank \/ (c.rank = d.rank /\ c.conn < d.conn)

BestPPP(p) ==
    {c \in UNION {Candidates(p, x) : x \in p.ppp} :
       \A x \in p.ppp : \/ x.dev = c.dev /\ x.conn = c.conn
                        \/ \E d \in Candidates(p, x) : ~Beats(d, c)}

\* A mutant: the suffix matches on any connection of the WANDevice.
VlanOfAny(p, c) == MinOr0({x.vlan : x \in {y \in p.ppp : y.dev = c.dev /\ y.vlan > 0}})

\* The driver's suffix names the VLAN parameter of the chosen connection.
VlanOf(p, c) ==
    MinOr0({x.vlan : x \in {y \in p.ppp : y.dev = c.dev /\ y.conn = c.conn /\ y.n = c.n}})

WithIP(m, x) == [m EXCEPT !.wanDev = x.dev, !.conn = x.conn, !.ipConn = x.n]

\* The WANIPConnection seen first names the WANDevice, even when the PPP
\* connection that is chosen belongs to another one.
WithPPP(p, m, c) ==
    [m EXCEPT !.wanDev = IF @ = 0 THEN c.dev ELSE @, !.conn = c.conn,
              !.pppConn = c.n, !.vlan = VlanOf(p, c)]

DiscoverTR098WAN(p, im) ==
    LET withIP == IF p.ip = {} THEN {im} ELSE {WithIP(im, x) : x \in p.ip}
    IN  IF p.ppp = {} THEN withIP
        ELSE {WithPPP(p, m, c) : m \in withIP, c \in BestPPP(p)}

DiscoverTR098LAN(p, im) == [im EXCEPT !.lanDev = MinOr0(p.lan)]

Spells(std, letter) ==
    std \cap (IF letter = "a" THEN {"a", "ac", "ax"} ELSE {letter}) # {}

\* Bands by channel, else by standard; -1 when neither tells.
WlanBand(w) ==
    CASE w.channel \in 1..13 -> 0
      [] w.channel >= 36     -> 1
      [] Spells(w.std, "ac") \/ (Spells(w.std, "a") /\ ~Spells(w.std, "n")) -> 1
      [] w.std \cap {"b", "g", "n"} # {} -> 0
      [] OTHER -> -1

DiscoverTR098WLAN(p, im) ==
    LET seen  == DOMAIN p.wlan
        known == {i \in seen : WlanBand(p.wlan[i]) # -1}
        both  == seen \cap 1..4 # {} /\ seen \cap 5..8 # {}
    IN  [im EXCEPT !.wlans =
           IF seen = {} THEN Nothing
           ELSE IF known # {} THEN Primary([i \in known |-> WlanBand(p.wlan[i])])
           ELSE IF both THEN [b \in 0..1 |-> Min(seen \cap (IF b = 0 THEN 1..4 ELSE 5..8))]
           ELSE [b \in 0..Cardinality(seen) - 1 |-> CHOOSE i \in seen : Place(seen, i) = b]]

DiscoverTR098(p) ==
    DiscoverTR098WAN(p, DiscoverTR098LAN(p, DiscoverTR098WLAN(p, NoMap)))

-----------------------------------------------------------------------------
(* TR-181: the WAN stack. *)

OfType(p, t) == {i \in DOMAIN p.iface : p.iface[i].type = t}

ChooseTR181WANCandidate(p) ==
    LET internet == {i \in OfType(p, "wan") : p.iface[i].internet}
    IN  Min(IF internet # {} THEN internet ELSE OfType(p, "wan"))

\* The connection type decides; failing it, an address of the right kind seen
\* first; failing that for the WAN, the lowest interface addressed over IPCP.
WanChoices(p) ==
    LET public == {i \in DOMAIN p.iface : "public" \in p.iface[i].addrs}
        ipcp   == {i \in DOMAIN p.iface : p.iface[i].ipcp}
    IN  IF OfType(p, "wan") # {} THEN {ChooseTR181WANCandidate(p)}
        ELSE IF public # {} THEN public ELSE {MinOr0(ipcp)}

LanChoices(p) ==
    IF OfType(p, "lan") # {} THEN {Min(OfType(p, "lan"))}
    ELSE OneOf({i \in OfType(p, "none") : "private" \in p.iface[i].addrs})

WithInterfaces(m, w, l) == [m EXCEPT !.wanIP = w, !.lanIP = l]

DiscoverTR181WAN(p, im) ==
    {WithInterfaces(im, w, l) : w \in WanChoices(p), l \in LanChoices(p)}

\* A mutant: the lowest PPP interface, whatever the WAN interface stands on.
DiscoverTR181LowestPPP(p, im) == [im EXCEPT !.ppp = MinOr0(DOMAIN p.pppIf)]

\* The PPP interface under the WAN interface, else the lowest.
DiscoverTR181PPP(p, im) ==
    LET below == IF im.wanIP \in DOMAIN p.iface THEN p.iface[im.wanIP].lower ELSE 0
    IN  [im EXCEPT !.ppp = IF below \in DOMAIN p.pppIf THEN below
                           ELSE MinOr0(DOMAIN p.pppIf)]

\* Down the LowerLayers: PPP, VLANTermination, Ethernet.Link, GPON link.
DiscoverTR181VLAN(p, im) ==
    LET v == IF im.ppp \in DOMAIN p.pppIf THEN p.pppIf[im.ppp].lower ELSE 0
        e == IF v \in DOMAIN p.vterm THEN p.vterm[v].lower ELSE 0
    IN  [im EXCEPT !.vterm = v,
                   !.vlan = IF v \in DOMAIN p.vterm THEN p.vterm[v].id ELSE @,
                   !.eth = e,
                   !.gpon = IF e \in DOMAIN p.eth THEN p.eth[e].lower ELSE @]

\* The first disabled link, which replaces the one the WAN stack stands on.
DiscoverTR181FreeGPON(p, im) ==
    LET free == {i \in DOMAIN p.gpon : ~p.gpon[i]}
    IN  [im EXCEPT !.gpon = IF free = {} THEN @ ELSE Min(free)]

-----------------------------------------------------------------------------
(* TR-181: WiFi. *)

\* OperatingStandards: the branch for 802.11ax comes last and is never taken,
\* its value spells an "a".
StandardBand(std) ==
    CASE Spells(std, "b") \/ Spells(std, "g") -> 0
      [] Spells(std, "n") /\ ~Spells(std, "a") -> 0
      [] Spells(std, "a") -> 1
      [] OTHER -> -1

\* Frequencies when any radio reports one, else standards.
RadioBand(p) ==
    LET freq == [i \in {j \in DOMAIN p.radio : p.radio[j].freq \in Band} |-> p.radio[i].freq]
        std  == {j \in DOMAIN p.radio : StandardBand(p.radio[j].std) # -1}
    IN  IF DOMAIN freq # {} THEN freq ELSE [i \in std |-> StandardBand(p.radio[i].std)]

\* A mutant: pairs counted from zero.
PairBlockFromZero(i) == (i \div 2) % 2

PairBlockMod2(i) == ((i - 1) \div 2) % 2
LegacyBand(i) ==
    CASE i \in {1, 2, 5, 6, 9, 11, 13} -> 0
      [] i \in {3, 4, 7, 8, 10, 12, 14} -> 1
      [] OTHER -> (i + 1) % 2

\* The driver's strategy for SSIDs without LowerLayers.
SSIDBandForIndex(i, h) ==
    CASE h.strategy = "pair_block_mod2" -> PairBlockMod2(i)
      [] h.strategy = "explicit" /\ i \in DOMAIN h.explicit -> h.explicit[i]
      [] OTHER -> LegacyBand(i)

StrategyActive(h) ==
    \/ h.strategy \in {"pair_block_mod2", "legacy_tplink_multi"}
    \/ h.strategy = "explicit" /\ DOMAIN h.explicit # {}

\* LowerLayers, else the strategy or the order of the indices.
SSIDBand(p, h) ==
    LET radio  == RadioBand(p)
        all    == DOMAIN p.ssid
        placed == {i \in all : p.ssid[i] \in DOMAIN radio}
        radios == Cardinality(DOMAIN radio)
        many   == Cardinality(all) >= 4
    IN  IF placed # {} THEN [i \in placed |-> radio[p.ssid[i]]]
        ELSE [i \in all |->
                IF radios > 0
                THEN IF many /\ radios = 2 THEN SSIDBandForIndex(i, h)
                     ELSE Place(all, i) % radios
                ELSE IF many /\ StrategyActive(h) THEN SSIDBandForIndex(i, h)
                     ELSE IF all = 1..4 THEN (i - 1) \div 2
                     ELSE Place(all, i)]

\* SSIDReference, else the SSID of the same index, else the order.
APBand(p, ssid, maxBand) ==
    LET all  == DOMAIN p.ap
        refs == {i \in all : p.ap[i] \in DOMAIN ssid}
        same == all \cap DOMAIN ssid
    IN  IF refs # {} THEN [i \in refs |-> ssid[p.ap[i]]]
        ELSE IF same # {} THEN [i \in same |-> ssid[i]]
        ELSE [i \in all |-> IF Place(all, i) < Cardinality(DOMAIN ssid)
                            THEN Place(all, i) ELSE maxBand]

WithSlots(m, s, a, r) == [m EXCEPT !.ssids = s, !.aps = a, !.radios = r]

\* Smallest SSID and access point of each band; any radio of it (last seen).
DiscoverTR181WiFi(p, h, im) ==
    LET ssid  == SSIDBand(p, h)
        radio == RadioBand(p)
        top   == Max(Range(ssid) \cup Range(radio))
        ap    == APBand(p, ssid, top)
        Slots(bandOf) == [b \in 0..top |-> MinOr0({i \in DOMAIN bandOf : bandOf[i] = b})]
        Of(b) == OneOf({i \in DOMAIN radio : radio[i] = b})
    IN  IF DOMAIN ssid = {} THEN {im}
        ELSE {WithSlots(im, Slots(ssid), Slots(ap), r) :
                 r \in {f \in [0..top -> UNION {Of(b) : b \in 0..top}] :
                          \A b \in 0..top : f[b] \in Of(b)}}

DiscoverTR181(p, h) ==
    {DiscoverTR181FreeGPON(p, m) : m \in UNION {DiscoverTR181WiFi(p, h,
        DiscoverTR181VLAN(p, DiscoverTR181PPP(p, w))) : w \in DiscoverTR181WAN(p, NoMap)}}

DiscoverInstances(p, h) == IF p.dev THEN DiscoverTR181(p, h) ELSE DiscoverTR098(p)

-----------------------------------------------------------------------------
(* The index a path template gets (safeInt, safeIdx of schema/mapper.go). *)

SafeInt(v, default) == IF v > 0 THEN v ELSE default
SafeIdx(slots, b) ==
    IF b \in DOMAIN slots /\ slots[b] > 0 THEN slots[b] ELSE b + 1
=============================================================================
