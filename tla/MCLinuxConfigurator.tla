------------------------- MODULE MCLinuxConfigurator -------------------------
(****************************************************************************)
(* A small host: three addresses of each family, two IPv4 gateways in       *)
(* different networks and a link-local IPv6 gateway.                        *)
(****************************************************************************)
EXTENDS LinuxConfigurator

CONSTANTS a1, a2, a3, b1, b2, b3, wide, narrow, g1, g2, h1

MCIP4 == {a1, a2, a3}
MCIP6 == {b1, b2, b3}
MCPrefix == {wide, narrow}
MCGw4 == {g1, g2}
MCGw6 == {h1}
A(ip, p) == [ip |-> ip, pfx |-> p]

\* a1 and a2 share g1's network when their prefix is the wide one; a3 is in g2's.
MCOnLink == {<<A(a1, wide), g1>>, <<A(a2, wide), g1>>,
             <<A(a3, wide), g2>>, <<A(a3, narrow), g2>>}

If(u, s4, s6, r4, r6) ==
    [up |-> u,
     addrs |-> [f \in Fam |-> IF f = "v4" THEN s4 ELSE s6],
     gw |-> [f \in Fam |-> IF f = "v4" THEN r4 ELSE r6]]

MCInterfaces ==
    {If(FALSE, <<A(a1, wide), A(a2, narrow), A(a3, wide)>>, <<>>, Nil, Nil),
     If(TRUE, <<A(a1, wide)>>, <<A(b1, wide), A(b2, wide), A(b3, narrow)>>, g1, h1)}

Opt(c, a, s, b) == [check |-> c, allowPrimary |-> a, skipPanels |-> s, ll |-> b]
MCOptions == {Opt(TRUE, FALSE, FALSE, TRUE), Opt(FALSE, TRUE, TRUE, FALSE)}
=============================================================================
