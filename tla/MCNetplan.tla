------------------------------ MODULE MCNetplan ------------------------------
(****************************************************************************)
(* Three interfaces, three files, and the directories that matter: no       *)
(* shared key; a key in two files, the second then empty or not; a fragment *)
(* that is empty and one with a section the library does not know; two      *)
(* stanzas with the same set-name.                                          *)
(****************************************************************************)
EXTENDS Netplan

CONSTANTS f1, f2, f3, eth0, eth1, lan, n0, n1, a1, a2, g1, r1, d1

MCFiles == {f1, f2, f3}
MCOrder == <<f1, f2, f3>>
MCKey == {eth0, eth1, lan}

\* lan is a second stanza whose set-name is the first interface.
MCNameOf == [k \in MCKey |-> IF k = eth1 THEN n1 ELSE n0]

S(a, g, dhcp, r, d) ==
    [addresses |-> a, gateway |-> g, dhcp |-> dhcp, routes |-> r, nameservers |-> d]
T(ks, s, u) == [net |-> [k \in ks |-> s], unknown |-> u]
Dir(t1, t2, t3) == [f \in MCFiles |-> IF f = f1 THEN t1 ELSE IF f = f2 THEN t2 ELSE t3]

Static == S(a1, g1, Unset, Unset, d1)
Leased == S(Unset, Unset, "on", r1, Unset)
Quiet == S(a2, Unset, "off", Unset, Unset)

MCDirs ==
    {Dir(T({eth0}, Static, FALSE), T({}, Static, TRUE), T({eth1}, Leased, TRUE)),
     Dir(T({eth0, eth1}, Quiet, FALSE), T({eth0}, Leased, FALSE), Absent),
     Dir(T({eth1}, Static, FALSE), T({eth1, eth0}, Leased, FALSE), T({lan}, Quiet, FALSE)),
     Dir(T({eth0}, Quiet, FALSE), T({eth0}, Static, FALSE), T({eth0, eth1}, Leased, FALSE))}
=============================================================================
