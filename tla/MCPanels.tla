------------------------------- MODULE MCPanels -------------------------------
(****************************************************************************)
(* Three IPv4 addresses, one of them private and mapped, two IPv6 ones, and *)
(* two sites, on each of the three panels.                                  *)
(****************************************************************************)
EXTENDS Panels

CONSTANTS a1, a2, a3, b1, b2, s1, s2

Host(k, ips, mark, on1, on2) ==
    [kind |-> k, ips |-> ips, shared |-> mark,
     sites |-> [s \in {s1, s2} |-> IF s = s1 THEN on1 ELSE on2]]

MCPanelHosts ==
    UNION {{Host(k, {a1, a2, b1}, {a1}, {a1, b1}, {a2, b1}),
            Host(k, {a1, a2, b1, b2}, {a1}, {a1, b1}, {a2, b2}),
            Host(k, {a1, a2, a3}, {a3}, {a2}, {a1})} : k \in {"cpanel", "plesk", "interworx"}}
    \cup {Host("plesk", {a1, a2, b1, b2}, {a2}, {a1, a2, b1}, {b1, b2}),
          Host("cpanel", {a1, b1, b2}, {}, {a1, b1, b2}, {a1, b1})}
=============================================================================
