----------------------------- MODULE MCIfUpDown -----------------------------
(****************************************************************************)
(* Three interfaces, one of them not configured or in a sourced file; a     *)
(* dual-stack pair of stanzas, with and without an "auto" line between;     *)
(* stanzas of one interface apart; DHCP beside static, PPP and loopback.    *)
(****************************************************************************)
EXTENDS IfUpDown

CONSTANTS base, f1, n0, n1, n2, a1, a2, b1, g1, d1, r1

MCFiles == {base, f1}
MCAddressLists == {<<>>, <<a1, a2, b1>>}
MCServerLists == {<<>>, <<d1>>}
MCRouteLists == {<<>>, <<r1>>}

M(fam, method) == [fam |-> fam, method |-> method]
S(n, mode, addrs, extra, g) ==
    [kind |-> "iface", iface |-> n, mode |-> mode, addrs |-> addrs, extra |-> extra,
     gateway |-> g, dns |-> <<>>, routes |-> <<>>]
Auto(ns) == [kind |-> "auto", names |-> ns]
Source == [kind |-> "source", file |-> f1]
Dir(t, u) == [f \in MCFiles |-> IF f = base THEN t ELSE u]

Two == S(n0, M("inet", "static"), <<a1>>, <<a2>>, g1)
Four == S(n0, M("inet", "static"), <<a1>>, <<>>, g1)
Six == S(n0, M("inet6", "static"), <<b1>>, <<>>, Nil)
Leased0 == S(n0, M("inet", "dhcp"), <<>>, <<>>, Nil)
Leased1 == S(n1, M("inet", "dhcp"), <<>>, <<>>, Nil)
Bare == S(n1, Nil, <<a2>>, <<>>, Nil)
Lo == S(n2, M("inet", "loopback"), <<>>, <<>>, Nil)

MCDirs ==
    {Dir(<<Auto({n0}), Two, Auto({n1}), Leased1>>, Absent),
     Dir(<<Auto({n0, n1}), Lo, Four, Six, Bare>>, Absent),
     Dir(<<Source, Auto({n0}), Leased0, Six>>, <<Auto({n1}), Bare>>),
     Dir(<<Auto({n0}), Four, Auto({n0}), Six, Bare>>, Absent),
     Dir(<<Four, Bare, Six, Lo, Source>>, <<S(n1, M("inet6", "ppp"), <<>>, <<>>, Nil)>>)}
=============================================================================
