----------------------------- MODULE MCNetworkd -----------------------------
(****************************************************************************)
(* Two interfaces and three files: one file each; two files of one          *)
(* interface; [Address] sections with servers; a catch-all file that names  *)
(* no interface (f4); a drop-in.                                            *)
(****************************************************************************)
EXTENDS Networkd

CONSTANTS f1, f2, f3, f4, n0, n1, a1, a2, g1, r1, d1, d2

MCFiles == {f1, f2, f3, f4}
MCOrder == <<f1, f2, f3, f4>>
MCNameOf == [f \in MCFiles |-> CASE f = f2 -> n1 [] f = f4 -> Nil [] OTHER -> n0]
MCAddressLists == {<<>>, <<a1>>, <<a2, a1>>}
MCServerLists == {<<>>, <<d2>>}
MCRouteLists == {<<>>, <<r1>>}

Network(a, g, d, h) ==
    [kind |-> "Network", addrs |-> a, gws |-> g, dns |-> d, dhcp |-> h]
Address(a, d) == [kind |-> "Address", addrs |-> a, gws |-> <<>>, dns |-> d, dhcp |-> Nil]
Route(r) == [kind |-> "Route", route |-> r]

Plain == <<Network(<<a1>>, <<g1>>, <<d1>>, Nil)>>
Leased == <<Network(<<>>, <<>>, <<>>, "on"), Route(r1)>>
Split == <<Network(<<a1>>, <<g1>>, <<d1>>, "off"), Address(<<a2>>, <<d2>>), Route(r1)>>

Dir(t1, t2, t3, t4, d1s) ==
    [main |-> [f \in MCFiles |->
                CASE f = f1 -> t1 [] f = f2 -> t2 [] f = f3 -> t3 [] f = f4 -> t4],
     dropins |-> [f \in MCFiles |-> IF f = f1 THEN d1s ELSE <<>>]]

MCDirs ==
    {Dir(Plain, Leased, Absent, Leased, <<>>), Dir(Split, Plain, Leased, Absent, <<>>),
     Dir(Plain, Split, Absent, Absent, <<<<Address(<<a2>>, <<>>)>>>>)}
=============================================================================
