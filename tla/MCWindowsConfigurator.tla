------------------------ MODULE MCWindowsConfigurator ------------------------
(****************************************************************************)
(* An adapter with up to three IPv4 addresses and an IPv6 address, static   *)
(* or leased, some with the prefix of a single address, inside another      *)
(* address's network or alone, one with a network inside another's.         *)
(****************************************************************************)
EXTENDS WindowsConfigurator

CONSTANTS a1, a2, a3, b1, wide, narrow, g1, g2, h1

A(ip, p) == [ip |-> ip, pfx |-> p]

\* a1 and a2 share g1's network, a3 and g2 are in another; a1's can be a part of it.
MCOnLink ==
    {<<A(x, wide), y>> : x \in {a1, a2}, y \in {a1, a2, g1}}
    \cup {<<A(a3, wide), y>> : y \in {a3, g2}} \cup {<<A(b1, wide), b1>>}
    \cup {<<A(a1, narrow), y>> : y \in {a1, g1}} \cup {<<A(x, narrow), x>> : x \in {a2, a3, b1}}
    \cup {<<A(x, Host), x>> : x \in {a1, a2, a3, b1}}

Adapter(s4, s6, r4, r6, d4, d6) ==
    [addrs |-> [f \in Fam |-> IF f = "v4" THEN s4 ELSE s6],
     gw |-> [f \in Fam |-> IF f = "v4" THEN r4 ELSE r6],
     dhcp |-> [f \in Fam |-> IF f = "v4" THEN d4 ELSE d6]]

MCAdapters ==
    {Adapter(<<>>, <<>>, Nil, Nil, TRUE, FALSE),
     Adapter(<<A(a1, wide), A(a2, wide)>>, <<A(b1, wide)>>, g1, h1, TRUE, TRUE),
     Adapter(<<A(a1, narrow), A(a2, wide)>>, <<A(b1, Host)>>, g1, h1, FALSE, FALSE),
     Adapter(<<A(a2, wide), A(a1, Host), A(a3, Host)>>, <<>>, Nil, Nil, FALSE, FALSE)}
=============================================================================
