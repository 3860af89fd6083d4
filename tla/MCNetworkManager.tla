--------------------------- MODULE MCNetworkManager ---------------------------
(****************************************************************************)
(* Two cards and a VLAN on the second, which has its hardware address.  One *)
(* profile names the first card; a stale one names it too but is pinned to  *)
(* the second; one is pinned to the second without a name, and the daemon's *)
(* own default has neither.                                                 *)
(****************************************************************************)
EXTENDS NetworkManager

CONSTANTS n0, n1, v1, m0, m1, named, stale, pinned, default, a1, b1, g1, none, r1, d1

MCMac == [i \in {n0, n1, v1} |-> IF i = n0 THEN m0 ELSE m1]
MCBoundTo == [p \in Profiles |-> IF p \in {named, stale} THEN n0 ELSE Nil]
MCPinned == [p \in Profiles |-> IF p \in {stale, pinned} THEN m1 ELSE Nil]
MCSuits ==
    [p \in Profiles |-> CASE p = named -> {n0} [] p = stale -> {}
                          [] p = pinned -> {n1} [] p = default -> {n0, n1}]

Pair(x, y) == [f \in Families |-> IF f = "ipv4" THEN x ELSE y]
Asked(s, g) == [addrs |-> s, gateway |-> g]
MCAddressArgs ==
    {Pair(Asked(<<>>, g1), Asked(<<b1>>, Nil)), Pair(Asked(<<a1>>, g1), Asked(<<>>, Nil))}
MCRouteArgs == {Pair(r1, none)}
MCServerArgs == {Pair(d1, none)}

S(m, s, g) ==
    [method |-> m, addrs |-> s, gateway |-> g, routes |-> none, dns |-> none,
     ignoreAuto |-> FALSE]

Static == Pair(S("manual", <<a1>>, g1), S("link-local", <<>>, Nil))
Leased == Pair(S("auto", <<>>, Nil), S("dhcp", <<b1>>, Nil))
Off == Pair(S("disabled", <<>>, Nil), S("ignore", <<>>, Nil))

Host(c0, c1, act, x, y, z, w) ==
    [profile |-> [p \in Profiles |-> CASE p = named -> x [] p = stale -> y
                                       [] p = pinned -> z [] p = default -> w],
     con |-> [i \in {n0, n1, v1} |-> CASE i = n0 -> c0 [] i = n1 -> c1 [] i = v1 -> Nil],
     activated |-> act]

MCHosts ==
    {Host(named, default, {n0, n1}, Static, Leased, Off, Leased),
     Host(default, pinned, {n1}, Off, Leased, Leased, Static),
     Host(Nil, default, {n1}, Leased, Off, Static, Leased)}
=============================================================================
