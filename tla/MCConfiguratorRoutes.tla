------------------------ MODULE MCConfiguratorRoutes ------------------------
(****************************************************************************)
(* An interface with up to two addresses, in two networks, and a gateway in *)
(* the first: the route to the second network is a static one until the     *)
(* address of it arrives.  One of the servers is IPv4.                      *)
(****************************************************************************)
EXTENDS ConfiguratorRoutes, TLC

CONSTANTS default, net1, net2, far, a1, a2, g1, noGateway, netplan, networkd, s1, s2

MCNetOf == a1 :> net1 @@ a2 :> net2
MCWithin == default :> {a1, a2} @@ net1 :> {a1} @@ net2 :> {a2} @@ far :> {}
MCReach == a1 :> {g1} @@ a2 :> {}
MCBackends == <<netplan, networkd>>
MCServerSets == {{}, {s1}, {s1, s2}}

\* One route by the gateway twice, with two metrics, and the default route.
MCStarts ==
    {[addrs |-> {a1}, routes |-> {}],
     [addrs |-> {a1}, routes |-> {[dst |-> default, gw |-> g1, metric |-> 0]}],
     [addrs |-> {a1}, routes |-> {[dst |-> far, gw |-> g1, metric |-> m] : m \in {0, 1}}],
     [addrs |-> {a1, a2}, routes |-> {[dst |-> default, gw |-> g1, metric |-> 1]}]}
=============================================================================
