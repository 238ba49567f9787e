------------------------------ MODULE WanFlows ------------------------------
(***************************************************************************)
(* The WAN provision flows that come with the drivers, and the variables   *)
(* executeTask gives them.  A step lists the variables without which its   *)
(* RPC refers to nothing or says nothing: username, password and           *)
(* ipv6_enabled may be empty or "0" and are left out.  In given, 1 stands  *)
(* for any text or existing instance.                                      *)
(***************************************************************************)
EXTENDS Naturals, Sequences

On(kind, uses, as, cond) ==
    [kind |-> kind, uses |-> uses, as |-> as, cond |-> cond, neg |-> FALSE]
Add(uses, as) == On("add_object", uses, as, <<>>)
Set(uses) == On("set", uses, "", <<>>)
Delete(uses) == On("delete", uses, "", <<>>)
When(cond, step) == [step EXCEPT !.cond = cond]

NatOn == <<"feature", "nat">>
IPv6On == <<"feature", "ipv6">>
DHCPv6On == <<"feature", "dhcpv6_client">>
GponOn == <<"feature", "gpon">>

GponSet == Set({"gpon_root", "gpon_idx", "vlan_id", "optical_interface"})

\* Both TP-Link flows go on like this once the GPON link is there.
TpLinkStack == <<
    Add({}, "eth"),
    Set({"eth", "gpon_root", "gpon_idx", "vlan_id"}),
    Add({}, "vterm"),
    Set({"vterm", "eth", "vlan_id"}),
    Add({}, "ppp"),
    Add({}, "ip"),
    Set({"ip", "ppp"}),
    Set({"ppp", "vterm", "ppp_auth_protocol"}),
    Set({"ip", "default_mtu"}),
    When(NatOn, Add({}, "nat")),
    When(NatOn, Set({"nat", "ip"})),
    When(IPv6On, Set({"ip"})),
    When(DHCPv6On, Add({}, "dhcpv6")),
    When(DHCPv6On, Set({"dhcpv6", "ip"})),
    When(DHCPv6On, Set({"dhcpv6"})),
    Set({}),
    Set({"ip", "ppp", "vterm", "eth", "provisioning_code"}),
    When(DHCPv6On, Set({"dhcpv6"})),
    When(NatOn, Set({"nat"})),
    When(GponOn, Set({"gpon_root", "gpon_idx"}))>>

TpLinkNew ==
    <<When(<<"gpon_reuse">>, GponSet),
      When(<<"gpon_create">>, Add({"gpon_root"}, "gpon_idx")),
      When(<<"gpon_create">>, GponSet)>> \o TpLinkStack

TpLinkDeleteAdd ==
    <<Delete({"ip_iface_idx"}),
      Delete({"ppp_iface_idx"}),
      Delete({"vlan_term_idx"}),
      Delete({"eth_link_idx"}),
      GponSet>> \o TpLinkStack

TpLinkUpdateVlan == <<
    Set({"ip_iface_idx", "vlan_term_idx", "ppp_iface_idx", "vlan_id", "ppp_auth_protocol"}),
    Set({"ppp_iface_idx", "ip_iface_idx"})>>

HuaweiNew == <<
    Add({"wan_dev"}, "wan_conn"),
    Add({"wan_dev", "wan_conn"}, "wan_ppp_conn"),
    Set({"wan_dev", "wan_conn", "wan_ppp_conn", "vlan_id"})>>

CDataNew == <<
    Add({"wan_dev"}, "wan_conn"),
    Add({"wan_dev", "wan_conn"}, "wan_ppp_conn"),
    Set({"wan_dev", "wan_conn", "wan_ppp_conn", "vlan_id", "wan_ip_mode",
         "wan_service_list"})>>

\* The flow built in Go for devices without a driver; gi is the number of the
\* free GPON link as the steps spell it out, next to the variable gpon_idx.
LegacyNew(free) ==
    (IF free > 0 THEN <<Set({"gi"})>>
                 ELSE <<Add({}, "gpon_idx"), Set({"gpon_idx"})>>)
    \o <<Add({}, "eth"),
         Set({"eth", "gi"}),
         Add({}, "vterm"),
         Set({"vterm", "eth"}),
         Set({"vterm"}),
         Add({}, "ppp"),
         Add({}, "ip"),
         Set({"ip", "ppp"}),
         Set({"ppp", "vterm"}),
         Set({"ip"}),
         Add({}, "nat"),
         Set({"nat", "ip"}),
         Set({"ip"}),
         Add({}, "dhcpv6"),
         Set({"dhcpv6", "ip"}),
         Set({"dhcpv6"}),
         Set({}),
         Set({"dhcpv6", "eth", "vterm", "ip", "nat", "ppp", "gi"})>>

TpLinkConfig == {"ppp_auth_protocol", "default_mtu", "optical_interface",
                 "gpon_root", "provisioning_code"}
CDataConfig == {"default_mtu", "provisioning_code", "wan_service_list",
                "wan_ip_mode", "wan_ip_mode_v6"}
HuaweiConfig == {"default_mtu", "wan_service_list"}

NewInput == {"vlan_id", "username", "wan_dev", "wan_conn", "wan_ip_conn",
             "wan_ppp_conn", "mtu"}
UpdateVlanInput == {"ip_iface_idx", "ppp_iface_idx", "vlan_term_idx", "vlan_id",
                    "username", "wan_dev", "wan_conn", "wan_ip_conn", "wan_ppp_conn"}
DeleteAddInput == {"ip_iface_idx", "ppp_iface_idx", "vlan_term_idx", "eth_link_idx",
                   "gpon_idx", "vlan_id", "username"}

Bound == {"gi", "eth", "vterm", "ppp", "ip", "nat", "dhcpv6"}
AllNames == TpLinkConfig \cup CDataConfig \cup HuaweiConfig \cup NewInput
          \cup UpdateVlanInput \cup DeleteAddInput \cup Bound

Job(steps, names, features) ==
    [steps    |-> steps,
     given    |-> [n \in AllNames |-> IF n \in names THEN 1 ELSE 0],
     features |-> features]

LegacyJob(free) ==
    Job(LegacyNew(free), IF free > 0 THEN {"gi", "gpon_idx"} ELSE {}, {})

ShippedFlowJobs ==
    {Job(TpLinkNew, TpLinkConfig \cup NewInput \cup gpon, features) :
        gpon \in {{}, {"gpon_idx"}},
        features \in {{"gpon", "band_steering", "ipv6", "nat", "dhcpv6_client"},
                      {"gpon"}}}
    \cup {Job(TpLinkDeleteAdd, TpLinkConfig \cup DeleteAddInput,
              {"gpon", "ipv6", "nat", "dhcpv6_client"}),
          Job(TpLinkUpdateVlan, TpLinkConfig \cup UpdateVlanInput, {"gpon", "ipv6", "nat"}),
          Job(HuaweiNew, HuaweiConfig \cup NewInput, {"nat", "gpon"}),
          Job(CDataNew, CDataConfig \cup NewInput, {"nat", "ipv6", "gpon", "band_steering"}),
          LegacyJob(1)}
=============================================================================
