---------------------------- MODULE NetworkManager ----------------------------
(****************************************************************************)
(* networkManager.go: the profiles the daemon keeps, the calls that change  *)
(* them one nmcli command at a time, and what its devices run meanwhile;    *)
(* with SetDHCP and SetDNS of configurator_linux.go around it.              *)
(*                                                                          *)
(* The daemon is modelled from how it is used: `connection modify` stores a *)
(* setting, `device reapply` has the device run its profile as stored, and  *)
(* devices are activated and lost without being asked.  Any command may     *)
(* fail, and nothing else writes profiles during a call.                    *)
(****************************************************************************)
EXTENDS Integers, Sequences

CONSTANTS
    Iface,
    Profiles,       \* saved connections, with distinct ids
    Mac,            \* the hardware address of each interface
    BoundTo,        \* connection.interface-name of each profile, or Nil
    Pinned,         \* its mac-address, or Nil
    Suits,          \* the interfaces the daemon may activate it on
    Addr, Gateways, Routes, Servers,
    AddressArgs,    \* what the calls may ask for, family by family
    RouteArgs, ServerArgs,
    Nil,
    Hosts,          \* the profiles and devices a history may start from
    MaxCalls,       \* bound on the calls in a history
    MaxChanges      \* bound on what the daemon does unasked

Families == {"ipv4", "ipv6"}
Methods == {"auto", "dhcp", "manual", "disabled", "link-local", "ignore"}
Ops == {"SetIfaceAddresses", "SetIfaceDHCP", "SetIfaceRoutes", "SetIfaceDNS"}

Settings ==
    [method : Methods, addrs : Seq(Addr), gateway : Gateways \cup {Nil},
     routes : Routes, dns : Servers, ignoreAuto : BOOLEAN]

Profile == [Families -> Settings]

Arguments(op) ==
    CASE op = "SetIfaceAddresses" -> AddressArgs
      [] op = "SetIfaceDHCP" -> [Families -> BOOLEAN]
      [] op = "SetIfaceRoutes" -> RouteArgs
      [] op = "SetIfaceDNS" -> ServerArgs

\* dhcpState: both "auto" and "dhcp" run a client.
Client(f, method) == method = "auto" \/ (f = "ipv6" /\ method = "dhcp")

\* What the daemon accepts as a profile: it serves the addresses there are, a gateway
\* needs addresses, and there is no DHCPv4 but "auto".
Served(f, s) ==
    /\ s.addrs # <<>> => s.method = "manual" \/ Client(f, s.method)
    /\ s.method = "manual" \/ s.gateway # Nil => s.addrs # <<>>
    /\ f = "ipv4" => s.method # "dhcp"

ASSUME NMAssumption ==
    /\ Nil \notin Iface /\ Nil \notin Profiles /\ Nil \notin Gateways
    /\ Mac \in [Iface -> {Mac[i] : i \in Iface}] /\ \A i \in Iface : Mac[i] # Nil
    /\ Suits \in [Profiles -> SUBSET Iface]
    /\ \A p \in Profiles : \A i \in Suits[p] :
          BoundTo[p] \in {Nil, i} /\ Pinned[p] \in {Nil, Mac[i]}
    /\ AddressArgs \subseteq [Families -> [addrs : Seq(Addr), gateway : Gateways \cup {Nil}]]
    /\ RouteArgs \subseteq [Families -> Routes] /\ ServerArgs \subseteq [Families -> Servers]
    /\ Iface # {} /\ MaxCalls \in Nat /\ MaxChanges \in Nat
    /\ \A h \in Hosts :
          /\ h.profile \in [Profiles -> Profile]
          /\ \A p \in Profiles, f \in Families : Served(f, h.profile[p][f])
          /\ h.con \in [Iface -> Profiles \cup {Nil}]
          /\ h.activated \in SUBSET {i \in Iface : h.con[i] # Nil}
          /\ \A i \in Iface : h.con[i] # Nil => i \in Suits[h.con[i]]
          /\ \A i, j \in Iface : h.con[i] = h.con[j] /\ h.con[i] # Nil => i = j

VARIABLES
    profile,        \* what is stored
    con, activated, \* the profile active on each device; the devices fully activated
    runs,           \* the settings each device runs, or Nil
    pc, req,        \* the call in progress: its next step and its arguments
    targets, todo,  \* connectionsFor, and the targets still to be modified
    cur, errs,      \* the target in hand; whether a command has failed
    heard, ret,     \* what the backend and the configurator answered
    pre,            \* profiles and devices when the call began
    calls, changes

device == <<con, activated, runs>>
vars == <<profile, con, activated, runs, pc, req, targets, todo, cur, errs, heard, ret,
          pre, calls, changes>>

iface == req.iface

-----------------------------------------------------------------------------
(* What a call makes of the settings of one family *)

StaticMethod(f, held) ==
    IF held # <<>> THEN "manual" ELSE IF f = "ipv4" THEN "disabled" ELSE "link-local"

\* Mutant: the gateway is stored whether the family has addresses or not.
WithAddressesAnyGateway(f, s) ==
    LET new == req.what[f]
    IN  [s EXCEPT !.method = IF Client(f, @) THEN @ ELSE StaticMethod(f, new.addrs),
                  !.addrs = new.addrs, !.gateway = new.gateway]

\* A family that leases keeps its client.
WithAddresses(f, s) ==
    LET new == req.what[f]
    IN  [s EXCEPT !.method = IF Client(f, @) THEN @ ELSE StaticMethod(f, new.addrs),
                  !.addrs = new.addrs,
                  !.gateway = IF new.addrs = <<>> THEN Nil ELSE new.gateway]

\* "dhcp" stays "dhcp" while a DHCPv6 client is asked for.
WithDHCP(f, s) ==
    [s EXCEPT !.method =
        IF ~req.what[f] THEN StaticMethod(f, s.addrs)
        ELSE IF f = "ipv6" /\ s.method = "dhcp" THEN "dhcp" ELSE "auto"]

WithRoutes(f, s) == [s EXCEPT !.routes = req.what[f]]
WithDNS(f, s) == [s EXCEPT !.dns = req.what[f], !.ignoreAuto = TRUE]

Modified(f, s) ==
    CASE req.op = "SetIfaceAddresses" -> WithAddresses(f, s)
      [] req.op = "SetIfaceDHCP" -> WithDHCP(f, s)
      [] req.op = "SetIfaceRoutes" -> WithRoutes(f, s)
      [] req.op = "SetIfaceDNS" -> WithDNS(f, s)

-----------------------------------------------------------------------------
(* Calls *)

matchByIfaceName(i) == {p \in Profiles : BoundTo[p] = i}

\* Mutant: an unknown hardware address matches the profiles pinned to none.
matchByDeviceUnknown(active, mac) ==
    {p \in Profiles : BoundTo[p] = Nil /\ (p = active \/ Pinned[p] = mac)}

\* The profile the device runs and those pinned to its hardware address; either may be
\* unknown (Nil), which matches nothing.
matchByDevice(active, mac) ==
    {p \in Profiles : BoundTo[p] = Nil /\ (p = active \/ (mac # Nil /\ Pinned[p] = mac))}

\* The profiles connectionsFor may return, as its two lookups succeed or not.
connectionsFor(i) ==
    IF matchByIfaceName(i) # {} THEN {matchByIfaceName(i)}
    ELSE {matchByDevice(active, mac) : active \in {con[i], Nil}, mac \in {Mac[i], Nil}}

Call(op) ==
    /\ pc = "idle" /\ calls < MaxCalls
    /\ req' \in [op : {op}, iface : Iface, what : Arguments(op)]
    /\ \/ \* the profiles cannot be read
          targets' = {} /\ errs' = TRUE
       \/ targets' \in connectionsFor(req'.iface) /\ errs' = FALSE
    /\ todo' = targets' /\ pc' = IF targets' = {} THEN "return" ELSE "ipv4"
    /\ heard' = "running" /\ ret' = "running" /\ calls' = calls + 1
    /\ pre' = [profile |-> profile, con |-> con, activated |-> activated, runs |-> runs,
               changes |-> changes]
    /\ UNCHANGED <<profile, device, cur, changes>>

SetIfaceAddresses == Call("SetIfaceAddresses")
SetIfaceDHCP == Call("SetIfaceDHCP")
SetIfaceRoutes == Call("SetIfaceRoutes")
SetIfaceDNS == Call("SetIfaceDNS")

\* Mutant: the outcome of the last command is the outcome of the call.
ModifyForgetting(p, f) ==
    \/ /\ profile' = [profile EXCEPT ![p][f] = Modified(f, @)]
       /\ errs' = FALSE
    \/ UNCHANGED profile /\ errs' = TRUE

\* nmcli connection modify p f...: a failure is collected and the loop goes on.
Modify(p, f) ==
    \/ /\ profile' = [profile EXCEPT ![p][f] = Modified(f, @)]
       /\ UNCHANGED errs
    \/ UNCHANGED profile /\ errs' = TRUE

ModifyIPv4 ==
    /\ pc = "ipv4"
    /\ \E p \in todo : Modify(p, "ipv4") /\ cur' = p
    /\ pc' = "ipv6"
    /\ UNCHANGED <<device, req, targets, todo, heard, ret, pre, calls, changes>>

\* Where the loop ends.
AfterLoop ==
    CASE req.op = "SetIfaceDNS" -> "reapply"
      [] req.op = "SetIfaceDHCP" /\ (\E f \in Families : ~req.what[f]) -> "look"
      [] OTHER -> "return"

ModifyIPv6 ==
    /\ pc = "ipv6"
    /\ Modify(cur, "ipv6")
    /\ todo' = todo \ {cur} /\ cur' = Nil
    /\ pc' = IF todo \ {cur} = {} THEN AfterLoop ELSE "ipv4"
    /\ UNCHANGED <<device, req, targets, heard, ret, pre, calls, changes>>

\* Mutant: the device is put on its new profile whatever its state.
LookAway == pc = "look" /\ pc' = "reapply"

\* nmDeviceActivated: a device it cannot be asked about reads as activated.
Look ==
    /\ pc = "look"
    /\ \/ pc' = "return"
       \/ iface \notin activated /\ pc' = "reapply"

DeviceActivated ==
    /\ Look
    /\ UNCHANGED <<profile, device, req, targets, todo, cur, errs, heard, ret, pre, calls,
                   changes>>

\* nmcli device reapply: its failure is logged only.
reapplyDevice ==
    /\ \/ con[iface] # Nil /\ runs' = [runs EXCEPT ![iface] = profile[con[iface]]]
       \/ UNCHANGED runs
    /\ UNCHANGED <<con, activated>>

Reapply ==
    /\ pc = "reapply"
    /\ reapplyDevice
    /\ pc' = "return"
    /\ UNCHANGED <<profile, req, targets, todo, cur, errs, heard, ret, pre, calls, changes>>

\* Back in the configurator: only SetDHCP looks at the answer, and needs one backend,
\* this one or another, to accept the change; it renews only to start a client.
Return ==
    /\ pc = "return"
    /\ heard' = IF errs THEN "error" ELSE "ok"
    /\ \/ req.op # "SetIfaceDHCP" /\ ret' = "ok" /\ pc' = "idle"
       \/ /\ req.op = "SetIfaceDHCP"
          /\ \/ errs /\ ret' = "refused" /\ pc' = "idle"
             \/ /\ ret' = "ok"
                /\ pc' = IF \E f \in Families : req.what[f] THEN "renew" ELSE "idle"
    /\ UNCHANGED <<profile, device, req, targets, todo, cur, errs, pre, calls, changes>>

renewDHCP ==
    /\ pc = "renew"
    /\ reapplyDevice
    /\ pc' = "idle"
    /\ UNCHANGED <<profile, req, targets, todo, cur, errs, heard, ret, pre, calls, changes>>

\* The process ends; profiles and devices are the daemon's.
Exit ==
    /\ pc # "idle"
    /\ pc' = "idle" /\ heard' = "crashed" /\ ret' = "crashed"
    /\ todo' = {} /\ cur' = Nil /\ errs' = FALSE
    /\ UNCHANGED <<profile, device, req, targets, pre, calls, changes>>

-----------------------------------------------------------------------------
(* The daemon *)

Unasked ==
    /\ changes < MaxChanges /\ changes' = changes + 1
    /\ UNCHANGED <<profile, pc, req, targets, todo, cur, errs, heard, ret, pre, calls>>

\* A profile is active on one device at most.
Activate ==
    /\ \E p \in Profiles : \E i \in Suits[p] :
          /\ con[i] = Nil /\ \A j \in Iface : con[j] # p
          /\ con' = [con EXCEPT ![i] = p]
          /\ runs' = [runs EXCEPT ![i] = profile[p]]
    /\ UNCHANGED activated /\ Unasked

Activated ==
    /\ \E i \in Iface \ activated : con[i] # Nil /\ activated' = activated \cup {i}
    /\ UNCHANGED <<con, runs>> /\ Unasked

\* An activation fails or the device goes away: it is deconfigured.
Deactivate ==
    /\ \E i \in Iface :
          /\ con[i] # Nil
          /\ con' = [con EXCEPT ![i] = Nil]
          /\ runs' = [runs EXCEPT ![i] = Nil]
          /\ activated' = activated \ {i}
    /\ Unasked

-----------------------------------------------------------------------------

Init ==
    /\ \E h \in Hosts :
          /\ profile = h.profile /\ con = h.con /\ activated = h.activated
          /\ runs = [i \in Iface |-> IF h.con[i] = Nil THEN Nil ELSE h.profile[h.con[i]]]
    /\ pc = "idle" /\ targets = {} /\ todo = {} /\ cur = Nil /\ errs = FALSE
    /\ req = [op |-> "SetIfaceDHCP", iface |-> CHOOSE i \in Iface : TRUE,
              what |-> [f \in Families |-> FALSE]]
    /\ heard = "none" /\ ret = "none" /\ calls = 0 /\ changes = 0
    /\ pre = [profile |-> profile, con |-> con, activated |-> activated, runs |-> runs,
              changes |-> changes]

Next ==
    \/ SetIfaceAddresses \/ SetIfaceDHCP \/ SetIfaceRoutes \/ SetIfaceDNS
    \/ ModifyIPv4 \/ ModifyIPv6 \/ DeviceActivated \/ Reapply \/ Return \/ renewDHCP
    \/ Exit \/ Activate \/ Activated \/ Deactivate

Spec == Init /\ [][Next]_vars

-----------------------------------------------------------------------------
(* Properties *)

ProfilesOK == profile \in [Profiles -> Profile]

DevicesOK ==
    /\ con \in [Iface -> Profiles \cup {Nil}] /\ activated \in SUBSET Iface
    /\ runs \in [Iface -> Profile \cup {Nil}]

CallOK ==
    /\ pc \in {"idle", "ipv4", "ipv6", "look", "reapply", "return", "renew"}
    /\ req \in UNION {[op : {op}, iface : Iface, what : Arguments(op)] : op \in Ops}
    /\ targets \in SUBSET Profiles /\ todo \in SUBSET targets
    /\ cur \in Profiles \cup {Nil} /\ errs \in BOOLEAN
    /\ pc = "ipv4" => todo # {}
    /\ pc = "ipv6" => cur \in todo
    /\ heard \in {"none", "running", "ok", "error", "crashed"}
    /\ ret \in {"none", "running", "ok", "refused", "crashed"}
    /\ pre \in [profile : [Profiles -> Profile], con : [Iface -> Profiles \cup {Nil}],
                activated : SUBSET Iface, runs : [Iface -> Profile \cup {Nil}],
                changes : Nat]
    /\ calls \in Nat /\ changes \in Nat

\* Every variable has its type.
TypeOK == ProfilesOK /\ DevicesOK /\ CallOK

\* Whatever calls are made, fail or stop halfway, no stored profile holds addresses under
\* a method that does not serve them, "manual" without an address, or a gateway without.
AddressesAreServed == \A p \in Profiles, f \in Families : Served(f, profile[p][f])

\* What the settings of a family are once the call has done its part on them: what was
\* asked for, with the client it had unless the call is about the client.
Done(call, f, old, new) ==
    LET asked == call.what[f]
    IN  CASE call.op = "SetIfaceAddresses" ->
                /\ new.addrs = asked.addrs
                /\ new.gateway = asked.gateway \/ asked.addrs = <<>>
                /\ Client(f, new.method) = Client(f, old.method)
                /\ Client(f, old.method) => new.method = old.method
                /\ new = [old EXCEPT !.method = new.method, !.addrs = new.addrs,
                                     !.gateway = new.gateway]
          [] call.op = "SetIfaceDHCP" ->
                /\ Client(f, new.method) = asked
                /\ asked /\ Client(f, old.method) => new.method = old.method
                /\ new = [old EXCEPT !.method = new.method]
          [] call.op = "SetIfaceRoutes" -> new = [old EXCEPT !.routes = asked]
          [] call.op = "SetIfaceDNS" -> new = [old EXCEPT !.dns = asked, !.ignoreAuto = TRUE]

\* However a call ends, each family of each profile is as it was or as asked; all of the
\* targets are as asked when the backend reports no error, and others are never touched.
PartsDoneOrReported ==
    LET done(p, f) == Done(req, f, pre.profile[p][f], profile[p][f])
    IN  pc = "idle" /\ heard # "none" =>
            /\ \A p \in Profiles, f \in Families :
                  profile[p][f] # pre.profile[p][f] => p \in targets /\ done(p, f)
            /\ heard = "ok" => \A p \in targets, f \in Families : done(p, f)

\* A call for an interface changes no profile that names another or that another was
\* running, unless the two share a hardware address and the profile is pinned to it.
OnlyItsOwnProfiles ==
    \A p \in Profiles : profile[p] # pre.profile[p] =>
        /\ BoundTo[p] \in {iface, Nil}
        /\ \A j \in Iface \ {iface} : pre.con[j] = p =>
              Mac[j] = Mac[iface] /\ Pinned[p] = Mac[j]

\* A call that turns every client off leaves what an activated device runs alone, so a
\* caller connected over the lease is not cut off.
LeaseIsLeft ==
    (/\ req.op = "SetIfaceDHCP" /\ (\A f \in Families : ~req.what[f])
     /\ iface \in pre.activated /\ changes = pre.changes)
        => runs = pre.runs
=============================================================================
