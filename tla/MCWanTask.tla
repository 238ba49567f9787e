----------------------------- MODULE MCWanTask -----------------------------
(* Devices, task lists and Informs for WanTask. *)
EXTENDS WanTask, TLC

NoHints == [strategy |-> "none", explicit |-> Nothing]
PairBlock == [strategy |-> "pair_block_mod2", explicit |-> Nothing]
OneConn(d, c, n) == [dev |-> d, conn |-> c, n |-> n]
PPP(d, c, n, a, v) == [dev |-> d, conn |-> c, n |-> n, addr |-> a, vlan |-> v]
If(t, net, l, a) == [type |-> t, internet |-> net, lower |-> l, addrs |-> a, ipcp |-> FALSE]
Low(i) == [lower |-> i]
Radio(f, s) == [freq |-> f, std |-> s]
AsWlan(f) == [wlan |-> f]
AsWifi(s, a, r) == [ssid |-> s, ap |-> a, radio |-> r]
Blocks == 1 :> 0 @@ 2 :> 0 @@ 3 :> 1 @@ 4 :> 1

\* Management on connection 1, VoIP on 2, Internet on 3; 5 GHz comes first.
Cdata == [model |-> "tr098", driver |-> "full", adds |-> FALSE, hints |-> NoHints,
  params |-> [NoParams EXCEPT !.ip = {OneConn(1, 1, 1)}, !.lan = {1},
     !.ppp = {PPP(1, 2, 1, "private", 2), PPP(1, 3, 1, "public", 1),
              PPP(1, 3, 2, "none", 0)},
     !.wlan = 1 :> [channel |-> 36, std |-> {}] @@ 2 :> [channel |-> 0, std |-> {"a", "c"}]
           @@ 6 :> [channel |-> 6, std |-> {"b", "g", "n"}]],
  bands |-> AsWlan(1 :> 1 @@ 2 :> 1 @@ 6 :> 0)]

\* Names of both data models, bands known by the order only; updates only.
Zte == [model |-> "tr098", driver |-> "update", adds |-> FALSE, hints |-> NoHints,
  params |-> [NoParams EXCEPT !.dev = TRUE, !.lan = {1},
     !.ppp = {PPP(2, 1, 1, "none", 1)},
     !.wlan = 1 :> [channel |-> 0, std |-> {}] @@ 5 :> [channel |-> 0, std |-> {}]],
  bands |-> AsWlan(1 :> 0 @@ 5 :> 1)]

\* Connections in two WANDevices.
TwoWans == [Cdata EXCEPT !.driver = "update",
  !.params.ppp = {PPP(1, 1, 1, "none", 1), PPP(2, 1, 1, "none", 2)}]

\* A router over DHCP, without a PPP connection.
Routed == [Cdata EXCEPT !.params.ppp = {}]

\* Management over DHCP on 2, Internet over PPP on 3; no LowerLayers for SSIDs.
TpLink == [model |-> "tr181", driver |-> "full", adds |-> TRUE, hints |-> PairBlock,
  params |-> [NoParams EXCEPT !.dev = TRUE,
     !.iface = 1 :> If("lan", FALSE, 0, {"private"}) @@ 2 :> If("wan", FALSE, 0, {"private"})
            @@ 3 :> If("wan", TRUE, 2, {"public"}),
     !.pppIf = 1 :> Low(1) @@ 2 :> Low(2),
     !.vterm = 1 :> [id |-> 2, lower |-> 1] @@ 2 :> [id |-> 1, lower |-> 2],
     !.eth = 1 :> Low(1) @@ 2 :> Low(2),
     !.gpon = 1 :> TRUE @@ 2 :> TRUE @@ 3 :> FALSE,
     !.radio = 1 :> Radio(0, {}) @@ 2 :> Radio(1, {}),
     !.ssid = [i \in 1..4 |-> 0], !.ap = [i \in 1..4 |-> 0]],
  bands |-> AsWifi(Blocks, Blocks, 1 :> 0 @@ 2 :> 1)]

\* The same with its WAN deleted.
Bare == [TpLink EXCEPT !.params.iface = 1 :> If("lan", FALSE, 0, {"private"}),
                       !.params.pppIf = Nothing]

\* No driver and no vendor types: the addresses tell, 5 GHz comes first.
Generic == [model |-> "tr181", driver |-> "none", adds |-> FALSE, hints |-> NoHints,
  params |-> [NoParams EXCEPT !.dev = TRUE,
     !.iface = 1 :> If("none", FALSE, 0, {"private"}) @@ 2 :> If("none", FALSE, 1, {"public"}),
     !.pppIf = 1 :> Low(1), !.vterm = 1 :> [id |-> 1, lower |-> 0]],
  bands |-> AsWifi(Nothing, Nothing, Nothing)]

\* Standards instead of frequencies, LowerLayers and references, 5 GHz first.
Ruijie == [Generic EXCEPT !.driver = "update",
  !.params.radio = 1 :> Radio(-1, {"a", "n", "ac"}) @@ 2 :> Radio(-1, {"b", "g", "n"}),
  !.params.ssid = 1 :> 1 @@ 2 :> 1 @@ 5 :> 2, !.params.ap = 1 :> 5 @@ 2 :> 1,
  !.bands = AsWifi(1 :> 1 @@ 2 :> 1 @@ 5 :> 0, 1 :> 0 @@ 2 :> 1, 1 :> 1 @@ 2 :> 0)]

MCDevices == {Cdata, Zte, TwoWans, Routed, TpLink, Bare, Generic, Ruijie}

Pppoe(u, v) == [type |-> "wan", conn |-> "", user |-> u, pass |-> TRUE, vlan |-> v]
Dhcp == [type |-> "wan", conn |-> "dhcp", user |-> FALSE, pass |-> FALSE, vlan |-> 0]
Wifi(b, s) == [type |-> "wifi", band |-> b, steer |-> s]
Wans == {Dhcp} \cup {Pppoe(u, v) : u \in BOOLEAN, v \in 0..2}
Wifis == {Wifi(b, s) : b \in 0..1, s \in BOOLEAN}
MCTodos == UNION {[1..n -> Wans \cup Wifis] : n \in 0..2}
MCInformed == {{}, {"wan"}}
=============================================================================
