----------------------------- MODULE MCCloudInit -----------------------------
(****************************************************************************)
(* Two interfaces and the layouts that matter: a stanza shared by two       *)
(* drop-ins; a base file with a section of its own before the main file;    *)
(* two v1 lists, of which one is kept, with clients in several spellings;   *)
(* an encapsulated base file, alone, with a v2 stanza beside it, and empty; *)
(* no file that has nothing but a network; two base files.                  *)
(****************************************************************************)
EXTENDS CloudInit

CONSTANTS cloudcfg, networkjson, d1, d2, eth0, eth1, n0, n1,
          a1, a2, g1, g2, r1, r2, s1, s2

MCFiles == {cloudcfg, networkjson, d1, d2}
MCBaseFiles == <<cloudcfg, networkjson>>
MCDropIns == <<d1, d2>>
MCNameOf == [k \in {eth0, eth1} |-> IF k = eth0 THEN n0 ELSE n1]
MCFamilyOf == [g \in {g1, g2} |-> IF g = g1 THEN 4 ELSE 6]
MCHop == [r \in {r1, r2} |-> IF r = r1 THEN g1 ELSE g2]

\* No address reaches g2, a link-local gateway.
MCReach == [a \in {a1, a2} |-> IF a = a1 THEN {g1} ELSE {}]
MCAddrLists == {<<>>, <<a2, a1>>}
MCGatewaySets == {{}, {g1, g2}}
MCRouteSets == {{}, {r1, r2}}

St(a, G, on, R, S) ==
    [addresses |-> a, gateways |-> G, routes |-> R, servers |-> S,
     dhcp |-> [f \in {4, 6} |-> IF f \in on THEN "on" ELSE IF 6 \in on THEN "off" ELSE Unset]]
Sub(type, a, G, R, S) == [type |-> type, address |-> a, gateways |-> G, routes |-> R, servers |-> S]

Fixed == St(<<a1>>, {g1}, {}, {r1}, {s1})
Leased == St(<<>>, {}, {4}, {}, {})
Both == St(<<a2>>, {}, {6}, {r2}, {s2})

OneV2(k, s) == [v1 |-> <<>>, v2 |-> [x \in {k} |-> s]]
TwoV2(s, t) == [v1 |-> <<>>, v2 |-> [x \in {eth0, eth1} |-> IF x = eth0 THEN s ELSE t]]
ListV1(ns, subnets) == [v1 |-> [n \in ns |-> subnets], v2 |-> <<>>]

Mixed == <<Sub("dhcp", Absent, {}, {}, {s1}), Sub("static", a1, {g1}, {r1}, {s1}),
           Sub("dhcp6", Absent, {}, {}, {})>>
StaticOnly == <<Sub("static", a2, {}, {r2}, {}), Sub("static", a1, {g1}, {}, {s2})>>

Plain(network) == [net |-> network, other |-> FALSE]
WithOther(network) == [net |-> network, other |-> TRUE]
Dir(t, u, v, w) == [f \in MCFiles |-> IF f = cloudcfg THEN t ELSE IF f = networkjson THEN u
                                      ELSE IF f = d1 THEN v ELSE w]

MCDirs ==
    {Dir(WithOther(Absent), Absent, Plain(OneV2(eth0, Fixed)), Plain(TwoV2(Both, Leased))),
     Dir(WithOther(OneV2(eth0, Leased)), Absent, Plain(OneV2(eth1, Both)), WithOther(OneV2(eth1, Fixed))),
     Dir(WithOther(Absent), Absent, WithOther(ListV1({n0}, Mixed)), Plain(ListV1({n0, n1}, StaticOnly))),
     Dir(Absent, Plain(ListV1({n0}, Mixed)), Plain(OneV2(eth1, Fixed)), Absent),
     Dir(Absent, Plain(ListV1({n0}, StaticOnly)), Absent, Absent),
     Dir(WithOther(OneV2(eth0, Fixed)), Absent, WithOther(ListV1({n0}, <<>>)), Absent),
     Dir(WithOther(OneV2(eth0, Leased)), Plain(ListV1({n1}, Mixed)),
         WithOther(ListV1({n0}, StaticOnly)), Absent),
     Dir(Absent, Plain(ListV1({}, <<>>)), Plain(OneV2(eth1, Fixed)), Absent)}
=============================================================================
