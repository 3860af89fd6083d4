--------------------------- MODULE MCNetworkScripts ---------------------------
(****************************************************************************)
(* An interface with an alias and one whose file, if it has any, stands     *)
(* alone.  The directories: an alias that shares no key with its interface, *)
(* one that does, one in a file sorted before, a file under another name    *)
(* than the interface's, an interface without files, one whose second file  *)
(* continues a list; route files of both families, of one, of none.         *)
(****************************************************************************)
EXTENDS NetworkScripts

CONSTANTS cfgCard, cfg0, alias0, cfg1, route40, route60, route41, route61,
          e0, e1, a1, a2, a3, b1, b2, g4, g6, s1, s2, r4, q4, r6

MCFiles == {cfgCard, cfg0, alias0, cfg1, route40, route60, route41, route61}
MCOrder == <<cfgCard, cfg0, alias0, cfg1>>
MCOwnerOf == [f \in {cfgCard, cfg0, alias0, cfg1} |-> IF f = cfg1 THEN e1 ELSE e0]
MCMain == [n \in {e0, e1} |-> IF n = e0 THEN cfg0 ELSE cfg1]
MCRouteFile == [n \in {e0, e1} |-> [f \in {4, 6} |->
    IF n = e0 THEN (IF f = 4 THEN route40 ELSE route60) ELSE (IF f = 4 THEN route41 ELSE route61)]]

MCAddressKey == <<"IPADDR", "IPADDR0", "IPADDR1", "IPADDR2", "IPADDR3">>
MCServerKey == <<"DNS1", "DNS2", "DNS3">>

MCAddressArgs == {[v4 |-> <<>>, v6 |-> <<b1>>, gateway4 |-> Nil, gateway6 |-> g6],
                  [v4 |-> <<a2, a1, a3, a2>>, v6 |-> <<b1, b2>>, gateway4 |-> g4, gateway6 |-> Nil]}
MCServerArgs == {<<>>, <<s2, s1, s2>>}
MCRouteArgs == {[f \in {4, 6} |-> IF f = 4 THEN R ELSE S] : R \in {{}, {r4}, {r4, q4}}, S \in {{}, {r6}}}

Leased == [BOOTPROTO |-> "dhcp", DHCPV6C |-> "yes", MTU |-> "1500"]
Fixed == [BOOTPROTO |-> "none", IPADDR |-> a1, GATEWAY |-> g4, DNS1 |-> s1, PEERDNS |-> "no",
          IPV6ADDR |-> b1, IPV6ADDR_SECONDARIES |-> <<b2>>]
Alias == [IPADDR1 |-> a3]
AliasSame == [IPADDR |-> a3]
RouteText(R) == [routes |-> R]

Dir(texts) == [f \in MCFiles |-> IF f \in DOMAIN texts THEN texts[f] ELSE Absent]
At(f, text) == [x \in {f} |-> text]

MCDirs ==
    {Dir(At(cfg0, Fixed) @@ At(alias0, Alias) @@ At(cfg1, Leased)
            @@ At(route40, RouteText({r4})) @@ At(route60, RouteText({r6}))),
     Dir(At(cfg0, Fixed) @@ At(alias0, AliasSame) @@ At(route60, RouteText({r6}))),
     Dir(At(cfgCard, Alias) @@ At(cfg0, [IPADDR |-> a1, GATEWAY |-> g4])),
     Dir(At(cfg0, [IPADDR2 |-> a1]) @@ At(alias0, [IPADDR3 |-> a2])),
     Dir(At(cfgCard, Leased) @@ At(cfg1, Fixed) @@ At(route41, RouteText({})))}
=============================================================================
