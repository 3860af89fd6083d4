------------------------- MODULE WindowsConfigurator -------------------------
(****************************************************************************)
(* AddAddress, SetPrimaryAddress, RemoveAddress and SetDHCP of              *)
(* configurator_windows.go on one adapter.  The adapter is configuration    *)
(* and running system in one; its addresses are set as a whole list, which  *)
(* is read from the adapter when a call begins.  Every call to winipcfg or  *)
(* netsh is a step and may fail, the process may die before it, and while   *)
(* SetDHCP runs the lease may change.  The calls to control panels are the  *)
(* ones of LinuxConfigurator.                                               *)
(****************************************************************************)
EXTENDS Integers, Sequences, SequencesExt

CONSTANTS
    IP4, IP6,       \* addresses of each family
    Prefix, Host,   \* prefix lengths; Host is that of a single address
    Gw4, Gw6, LinkLocalGw,
    OnLink,         \* pairs <<address, IP>>: the network of the address has the IP
    Nil, Zero,      \* "no gateway", and the one that asks to remove it
    Adapters,       \* the adapters a history may start from
    MaxCalls, MaxLeases     \* bounds on calls and on changes of the lease

Fam == {"v4", "v6"}
IP == IP4 \cup IP6
Gw == Gw4 \cup Gw6
Addr == [ip : IP, pfx : Prefix]
FamOf(ip) == IF ip \in IP4 THEN "v4" ELSE "v6"
GwOf(f) == IF f = "v4" THEN Gw4 ELSE Gw6
Lists == [Fam -> Seq(Addr)]

\* No address is there twice.
Once(s) == \A i, j \in DOMAIN s : s[i].ip = s[j].ip => i = j

ASSUME WindowsAssumption ==
    /\ IP4 \cap IP6 = {} /\ Host \in Prefix /\ LinkLocalGw \subseteq Gw
    /\ Nil \notin Gw /\ Zero \notin Gw /\ Nil # Zero
    /\ \A s \in Adapters :
          /\ s.addrs \in Lists /\ \A f \in Fam : Once(s.addrs[f])
          /\ s.gw \in [Fam -> Gw \cup {Nil}] /\ s.dhcp \in [Fam -> BOOLEAN]
    /\ MaxCalls \in Nat /\ MaxLeases \in Nat

VARIABLES
    addrs, gw, dhcp,    \* the adapter: addresses in order, default routes, DHCP clients
    disk,               \* what cloud-init has persisted of the three
    check,              \* WithConnectivityCheck
    allowPrimary,       \* WithAllowPrimaryRemoval
    pc, req, l,         \* the call in progress: next step, arguments, locals
    ret, pre,           \* result of the last call, and the world when it began
    calls, leases       \* calls and changes of the lease so far

adapter == <<addrs, gw, dhcp>>
settings == <<check, allowPrimary>>
vars == <<adapter, disk, settings, pc, req, l, ret, pre, calls, leases>>

-----------------------------------------------------------------------------
(* Address lists *)

Has(s, ip) == \E i \in DOMAIN s : s[i].ip = ip
IndexOf(s, ip) == CHOOSE i \in DOMAIN s : s[i].ip = ip

\* The elements of s at the places in T, in their order.
PickedUpTo(s, T) ==
    LET picked[m \in 0..Len(s)] ==
            IF m = 0 THEN <<>>
            ELSE IF m \in T THEN Append(picked[m - 1], s[m]) ELSE picked[m - 1]
    IN  picked

Picked(s, T) == PickedUpTo(s, T)[Len(s)]

Without(s, ip) == Picked(s, {i \in DOMAIN s : s[i].ip # ip})

\* The prefixes of the adapter's networks that have the address.
Networks(s, a) == {b.pfx : b \in {c \in ToSet(s) : c.pfx # Host /\ <<c, a.ip>> \in OnLink}}

\* ipAdapterAddresses: the mask is that of the first network of the adapter, in whichever
\* order Windows shows them, that has the address, its own or another's; networks of one
\* address do not count; without any it is left out.
Listed(s) ==
    LET found == Picked(s, {i \in DOMAIN s : Networks(s, s[i]) # {}})
    IN  [i \in DOMAIN found |->
            [found[i] EXCEPT !.pfx = CHOOSE p \in Networks(s, found[i]) : TRUE]]

ListedAll(as) == [f \in Fam |-> Listed(as[f])]

\* The address gets the prefix asked for where it is, and a new one goes last.
With(s, a) == IF Has(s, a.ip) THEN [s EXCEPT ![IndexOf(s, a.ip)] = a] ELSE Append(s, a)

\* reorderPrimaryAddress: the caller's own IPNet goes to the front.
Reordered(s, a) == <<a>> \o Without(s, a.ip)

-----------------------------------------------------------------------------
(* winipcfg *)

\* SetIPAddresses flushes the adapter and adds one address after the other.
SetIPAddresses(as) == addrs' = as /\ UNCHANGED <<gw, dhcp>>

SetIPAddressesFails(as) ==
    /\ \/ addrs' = addrs
       \/ \E m, n \in 0..2 :
             addrs' = [f \in Fam |-> SubSeq(as[f], 1,
                          LET k == IF f = "v4" THEN m ELSE n
                          IN  IF k > Len(as[f]) THEN Len(as[f]) ELSE k)]
    /\ UNCHANGED <<gw, dhcp>>

\* The default route of a family is added, changed, or, with Nil, deleted.
SetRoute(f, g) == gw' = [gw EXCEPT ![f] = g] /\ UNCHANGED <<addrs, dhcp>>

-----------------------------------------------------------------------------
(* Calls *)

Requests ==
    [op : {"AddAddress"}, addr : Addr, gw : Gw \cup {Nil, Zero}]
    \cup [op : {"SetPrimaryAddress", "RemoveAddress"}, addr : Addr]
    \cup [op : {"SetDHCP"}, v4 : BOOLEAN, v6 : BOOLEAN]

F == FamOf(req.addr.ip)

\* orig and list are what ipAdapterAddresses has read and what is to be set, gws the
\* default gateways for cloud-init, rest the addresses netsh has to add.
L0 == [orig |-> [f \in Fam |-> <<>>], list |-> [f \in Fam |-> <<>>],
       gws |-> [f \in Fam |-> Nil], origGw |-> Nil, added |-> FALSE,
       rest |-> <<>>, failed |-> FALSE]

Goto(label) == pc' = label
Frame == UNCHANGED <<disk, settings, req, pre, calls, leases>>
Run == Frame /\ UNCHANGED ret
Return(r) == ret' = r /\ pc' = "idle" /\ l' = L0 /\ Frame

\* A call fails that changes nothing when it does.
Fails == Return("error") /\ UNCHANGED adapter

Begin(op) ==
    /\ pc = "idle" /\ calls < MaxCalls
    /\ req' \in {r \in Requests : r.op = op}
    /\ pre' = [addrs |-> addrs, gw |-> gw, dhcp |-> dhcp, disk |-> disk, leases |-> leases]
    /\ calls' = calls + 1
    /\ UNCHANGED <<adapter, disk, settings, leases>>

\* A guard says no, or reading the routes or the adapters fails.
Refuse == pc' = "idle" /\ l' = L0 /\ ret' = "refused"

Proceed(label, list) ==
    /\ pc' = label /\ ret' = "running"
    /\ l' = [L0 EXCEPT !.orig = ListedAll(addrs), !.list = list, !.gws = gw]

-----------------------------------------------------------------------------
(* AddAddress *)

AddAddress ==
    /\ Begin("AddAddress")
    /\ LET f == FamOf(req'.addr.ip)
           s == Listed(addrs[f])
       IN  /\ req'.gw \in GwOf(f) \cup {Nil, Zero}
           /\ \/ Refuse
              \/ /\ req'.gw \in Gw => <<req'.addr, req'.gw>> \in OnLink
                                      \/ req'.gw \in LinkLocalGw
                 /\ Proceed("set", [ListedAll(addrs) EXCEPT ![f] = With(s, req'.addr)])

\* The gateway to end with: nil keeps the one there is, the zero IP removes it.
Wanted == IF req.gw = Nil THEN gw[F] ELSE IF req.gw = Zero THEN Nil ELSE req.gw

SetAddresses ==
    /\ pc = "set"
    /\ \/ /\ SetIPAddresses(l.list)
          /\ Goto(CASE req.op = "AddAddress" -> "routes"
                    [] req.op = "SetPrimaryAddress" /\ gw[F] = Nil -> "persist"
                    [] OTHER -> IF check THEN "test" ELSE "persist")
          /\ UNCHANGED l /\ Run
       \/ SetIPAddressesFails(l.list) /\ Return("error")

\* The adapter's default route is kept, deleted or repointed.
ScanRoutes ==
    /\ pc = "routes"
    /\ \/ /\ SetRoute(F, IF gw[F] = Nil THEN Nil ELSE Wanted)
          /\ l' = [l EXCEPT !.origGw = gw[F],
                            !.gws[F] = IF gw[F] = Nil THEN Nil ELSE Wanted]
          /\ Goto(IF Wanted = Nil THEN "persist" ELSE "gateway") /\ Run
       \/ gw[F] # Nil /\ req.gw # Nil /\ Fails

\* ... or one is added where there was none, and then the internet is tested.
AddGateway ==
    /\ pc = "gateway"
    /\ \/ l.gws[F] # Nil /\ UNCHANGED <<adapter, l>>
       \/ /\ l.gws[F] = Nil /\ SetRoute(F, req.gw)
          /\ l' = [l EXCEPT !.added = TRUE, !.gws[F] = req.gw]
    /\ Goto(IF check THEN "test" ELSE "persist") /\ Run

AddGatewayFails == pc = "gateway" /\ l.gws[F] = Nil /\ Fails

\* The test of the internet, after all three calls.
Test ==
    /\ pc = "test"
    /\ Goto("persist") \/ Goto("restore")
    /\ UNCHANGED <<adapter, l>> /\ Run

\* Mutant: the rollback goes over the list in which the new address already is.
RestoredAsSet == l.list

\* The list is rebuilt with the address as it was, or without it.
Restored == l.orig

RestoreAddresses ==
    /\ pc = "restore"
    /\ \/ /\ SetIPAddresses(Restored)
          /\ IF req.op = "AddAddress" THEN Goto("restoreRoute") /\ UNCHANGED l /\ Run
             ELSE Return("aborted")
       \/ SetIPAddressesFails(Restored) /\ Return("error")

\* The old gateway comes back, or the added one goes.
RestoreRoute ==
    /\ pc = "restoreRoute"
    /\ \/ l.origGw # Nil /\ SetRoute(F, l.origGw) /\ Return("aborted")
       \/ l.origGw = Nil /\ l.added /\ SetRoute(F, Nil) /\ Return("aborted")
       \/ Fails

-----------------------------------------------------------------------------
(* SetPrimaryAddress and RemoveAddress *)

SetPrimaryAddress ==
    /\ Begin("SetPrimaryAddress")
    /\ LET f == FamOf(req'.addr.ip)
           s == Listed(addrs[f])
       IN  \/ Refuse
           \/ /\ Has(s, req'.addr.ip)
              /\ Proceed(IF s[1].ip = req'.addr.ip THEN "persist" ELSE "set",
                         [ListedAll(addrs) EXCEPT ![f] = Reordered(s, req'.addr)])

\* An address that stays, of either family, reaches the gateway.
RouteToGateway(as, g) ==
    \E f \in Fam : \E a \in ToSet(as[f]) : <<a, g>> \in OnLink \/ g \in LinkLocalGw

RemoveAddress ==
    /\ Begin("RemoveAddress")
    /\ LET ip == req'.addr.ip
           f == FamOf(ip)
           s == Listed(addrs[f])
           left == [ListedAll(addrs) EXCEPT ![f] = Without(s, ip)]
       IN  \/ Refuse
           \/ /\ s # <<>> /\ s[1].ip = ip => allowPrimary
              /\ gw[f] # Nil => RouteToGateway(left, gw[f])
              /\ Proceed("set", left)

\* applyIfaceAddresses: an error of cloud-init is logged.
Persist ==
    /\ pc = "persist"
    /\ disk' = [disk EXCEPT !.addrs = l.list, !.gw = l.gws] \/ disk' = disk
    /\ ret' = "ok" /\ pc' = "idle" /\ l' = L0
    /\ UNCHANGED <<adapter, settings, req, pre, calls, leases>>

-----------------------------------------------------------------------------
(* SetDHCP *)

\* Without elevation the call is refused before it touches anything.
SetDHCP ==
    /\ Begin("SetDHCP")
    /\ Refuse \/ Proceed("dhcpDisk", L0.list)

PersistDHCP ==
    /\ pc = "dhcpDisk"
    /\ disk' = [disk EXCEPT !.dhcp = [f \in Fam |-> IF f = "v4" THEN req.v4 ELSE req.v6]]
          \/ disk' = disk
    /\ Goto(IF req.v4 THEN "enable4" ELSE "find")
    /\ UNCHANGED <<adapter, settings, req, l, ret, pre, calls, leases>>

\* netsh fails, or an adapter cannot be found: the error is kept for the end.
Fault(next) == l' = [l EXCEPT !.failed = TRUE] /\ UNCHANGED adapter /\ Goto(next) /\ Run

\* Switching to DHCP discards the static addresses; the resolvers and the renewal
\* that follow may fail without consequence.
Enable4 ==
    /\ pc = "enable4"
    /\ \/ /\ addrs' = [addrs EXCEPT !["v4"] = <<>>] /\ gw' = [gw EXCEPT !["v4"] = Nil]
          /\ dhcp' = [dhcp EXCEPT !["v4"] = TRUE]
          /\ Goto("set6") /\ UNCHANGED l /\ Run
       \/ Fault("set6")

\* The leased addresses and gateway are read, to be asserted as static ones.
FindAdapter ==
    /\ pc = "find"
    /\ \/ /\ dhcp["v4"] /\ Listed(addrs["v4"]) # <<>>
          /\ l' = [l EXCEPT !.rest = Listed(addrs["v4"]), !.gws["v4"] = gw["v4"]]
          /\ Goto("static") /\ UNCHANGED adapter /\ Run
       \/ ~dhcp["v4"] /\ Goto("set6") /\ UNCHANGED <<adapter, l>> /\ Run
       \/ Fault("set6")

\* Mutant: "gateway=none", whether or not the adapter has one.
SetStaticGatewayless ==
    /\ pc = "static"
    /\ \/ /\ addrs' = [addrs EXCEPT !["v4"] = <<Head(l.rest)>>]
          /\ gw' = [gw EXCEPT !["v4"] = Nil]
          /\ dhcp' = [dhcp EXCEPT !["v4"] = FALSE]
          /\ l' = [l EXCEPT !.rest = Tail(@)]
          /\ Goto("secondaries") /\ Run
       \/ Fault("set6")

\* "set address" replaces all of the adapter's IPv4 configuration.
SetStatic ==
    /\ pc = "static"
    /\ \/ /\ addrs' = [addrs EXCEPT !["v4"] = <<Head(l.rest)>>]
          /\ gw' = [gw EXCEPT !["v4"] = l.gws["v4"]]
          /\ dhcp' = [dhcp EXCEPT !["v4"] = FALSE]
          /\ l' = [l EXCEPT !.rest = Tail(@)]
          /\ Goto("secondaries") /\ Run
       \/ Fault("set6")

\* Each secondary address is added, or its error kept.
AddSecondary ==
    /\ pc = "secondaries" /\ l.rest # <<>>
    /\ \/ /\ addrs' = [addrs EXCEPT !["v4"] = Append(@, Head(l.rest))]
          /\ l' = [l EXCEPT !.rest = Tail(@)] /\ UNCHANGED <<gw, dhcp>>
       \/ l' = [l EXCEPT !.rest = Tail(@), !.failed = TRUE] /\ UNCHANGED adapter
    /\ UNCHANGED pc /\ Run

SecondariesAdded ==
    /\ pc = "secondaries" /\ l.rest = <<>>
    /\ Goto("set6") /\ UNCHANGED <<adapter, l>> /\ Run

\* IPv6 is switched whatever became of IPv4.
SetDHCP6 ==
    /\ pc = "set6"
    /\ \/ /\ dhcp' = [dhcp EXCEPT !["v6"] = req.v6] /\ UNCHANGED <<addrs, gw>>
          /\ Return(IF l.failed THEN "error" ELSE "ok")
       \/ Fails

-----------------------------------------------------------------------------

\* A lease is granted, changes or runs out.
LeaseChanges ==
    /\ pc \in {"dhcpDisk", "find", "static", "secondaries", "set6"}
    /\ dhcp["v4"] /\ leases < MaxLeases
    /\ \E s \in Adapters : s.dhcp["v4"]
          /\ addrs' = [addrs EXCEPT !["v4"] = s.addrs["v4"]]
          /\ gw' = [gw EXCEPT !["v4"] = s.gw["v4"]]
    /\ leases' = leases + 1
    /\ UNCHANGED <<dhcp, disk, settings, pc, req, l, ret, pre, calls>>

Crash ==
    /\ pc # "idle"
    /\ pc' = "idle" /\ l' = L0 /\ ret' = "crashed"
    /\ UNCHANGED adapter /\ Frame

Init ==
    /\ \E s \in Adapters : addrs = s.addrs /\ gw = s.gw /\ dhcp = s.dhcp
    /\ disk = [addrs |-> addrs, gw |-> gw, dhcp |-> dhcp]
    /\ check \in BOOLEAN /\ allowPrimary \in BOOLEAN
    /\ pc = "idle" /\ l = L0 /\ ret = "none" /\ calls = 0 /\ leases = 0
    /\ req = [op |-> "none"]
    /\ pre = [addrs |-> addrs, gw |-> gw, dhcp |-> dhcp, disk |-> disk, leases |-> 0]

Next ==
    \/ AddAddress \/ SetPrimaryAddress \/ RemoveAddress \/ SetDHCP
    \/ SetAddresses \/ ScanRoutes \/ AddGateway \/ AddGatewayFails \/ Test
    \/ RestoreAddresses \/ RestoreRoute \/ Persist
    \/ PersistDHCP \/ Enable4 \/ FindAdapter \/ SetStatic \/ AddSecondary
    \/ SecondariesAdded \/ SetDHCP6
    \/ LeaseChanges \/ Crash

Spec == Init /\ [][Next]_vars

-----------------------------------------------------------------------------
(* Properties *)

Returned(r) == pc = "idle" /\ ret = r
OnAddresses == req.op \in {"AddAddress", "SetPrimaryAddress", "RemoveAddress"}

IPOrder(s) == [i \in DOMAIN s |-> s[i].ip]

\* What a call asks for is what the list it read is to become, in its family.
Asked ==
    LET s == Listed(pre.addrs[F])
        a == req.addr
        others == Without(s, a.ip)
    IN  CASE req.op = "AddAddress" ->
                IF others = s THEN Append(s, a)
                ELSE [i \in DOMAIN s |-> IF s[i].ip = a.ip THEN a ELSE s[i]]
          [] req.op = "RemoveAddress" -> others
          [] req.op = "SetPrimaryAddress" ->
                IF s[1].ip = a.ip THEN pre.addrs[F] ELSE <<a>> \o others

\* The three calls do all or nothing: the adapter has what was asked for, the other
\* family and its gateway as they were, and cloud-init the same; or, where the test
\* of the internet failed, addresses, order and gateway are as they were, and
\* cloud-init knows nothing of it.  (But for the addresses that Listed leaves out, the
\* prefixes it takes from another network, and the prefix of an address that already is
\* the primary: the adapter keeps its own and cloud-init is given the caller's.)
AllOrNothing ==
    pc = "idle" /\ OnAddresses =>
        /\ ret = "ok" =>
              /\ addrs[F] = Asked
              /\ gw[F] = IF req.op # "AddAddress" \/ req.gw = Nil THEN pre.gw[F]
                         ELSE IF req.gw = Zero THEN Nil ELSE req.gw
              /\ \A f \in Fam \ {F} : gw[f] = pre.gw[f]
                     /\ addrs[f] \in {pre.addrs[f], Listed(pre.addrs[f])}
              /\ disk # pre.disk =>
                     /\ disk.gw = gw /\ disk.dhcp = pre.disk.dhcp
                     /\ \A f \in Fam : IPOrder(disk.addrs[f])
                                        \in {IPOrder(addrs[f]), IPOrder(Listed(addrs[f]))}
        /\ ret = "aborted" => gw = pre.gw /\ addrs = ListedAll(pre.addrs)
        /\ ret \in {"refused", "error", "aborted"} => disk = pre.disk

\* Turning DHCPv4 off keeps the adapter on "the address it is reachable on": unless
\* the lease changes meanwhile, at every moment of the call, whatever fails and
\* wherever the process dies, the first leased address is there, with its gateway;
\* a call that succeeds has kept them all and turned both clients as asked.  (The
\* addresses are those that Listed reports, with the prefixes it gives them.)
LeaseIsKept ==
    req.op = "SetDHCP" /\ leases = pre.leases =>
        /\ ~req.v4 /\ pre.dhcp["v4"] /\ Listed(pre.addrs["v4"]) # <<>> =>
              /\ gw["v4"] = pre.gw["v4"]
              /\ \/ addrs["v4"] = pre.addrs["v4"]
                 \/ addrs["v4"] # <<>> /\ addrs["v4"][1] = Listed(pre.addrs["v4"])[1]
              /\ Returned("ok") => addrs["v4"] = Listed(pre.addrs["v4"])
        /\ Returned("ok") => dhcp = [f \in Fam |-> IF f = "v4" THEN req.v4 ELSE req.v6]
=============================================================================
