-------------------------- MODULE ConfiguratorRoutes --------------------------
(****************************************************************************)
(* AddRoute, RemoveRoute and SetDNS of the configurators of both systems    *)
(* (configurator_linux.go, dns_linux.go, configurator_windows.go,           *)
(* dns_windows.go) on one interface: what the kernel routes, what each      *)
(* backend has persisted, and what the resolver asks.  Every call to the    *)
(* kernel, a backend or a command is a step, may fail, and the process may  *)
(* die before it.  Addresses come and go by themselves: leases, router      *)
(* advertisements, other tools.                                             *)
(****************************************************************************)
EXTENDS Integers, Sequences, FiniteSets

CONSTANTS
    Destinations, Default,  \* networks; 0.0.0.0/0 or ::/0 is Default
    Hops, NoHop,    \* gateways; NoHop is none
    Metrics,
    Addresses,
    NetOf,          \* the network of each address
    Within,         \* the addresses in each network
    Reach,          \* the gateways in the network of each address
    Backends,       \* a sequence
    ServerSets,     \* servers a caller may set
    Servers4,       \* those of them that are IPv4
    Starts,         \* interfaces a history may start from
    MaxBegun, MaxShifts     \* bounds on calls and on changes nobody asked for

Route == [dst : Destinations, gw : Hops \cup {NoHop}, metric : Metrics]

BackendSet == {Backends[m] : m \in DOMAIN Backends}

\* The route the kernel keeps for an address.
Connected(a) == [dst |-> NetOf[a], gw |-> NoHop, metric |-> 0]

ASSUME RoutesAssumption ==
    /\ Default \in Destinations /\ 0 \in Metrics
    /\ NetOf \in [Addresses -> Destinations \ {Default}]
    /\ Within \in [Destinations -> SUBSET Addresses] /\ Within[Default] = Addresses
    /\ \A a \in Addresses : a \in Within[NetOf[a]]
    /\ Reach \in [Addresses -> SUBSET Hops]
    /\ Backends \in Seq(BackendSet)
    /\ \A i, j \in DOMAIN Backends : Backends[i] = Backends[j] => i = j
    /\ \A s \in Starts : s.addrs \subseteq Addresses /\ s.routes \subseteq Route
    /\ MaxBegun \in Nat /\ MaxShifts \in Nat

VARIABLES
    os,             \* "linux" or "windows"
    addrs, routes,  \* the kernel's
    disk,           \* the routes each backend has persisted
    resolved, linked,       \* resolvectl is there; resolv.conf is a symlink
    link, resolv,   \* the servers systemd-resolved or the adapter has, and resolv.conf's
    at, call,       \* the step of a call; its name and arguments
    own,            \* addrs as AddRoute or RemoveRoute has read them
    doomed, static, \* matching routes still to be deleted, routes to be persisted
    n,              \* the backend that is next
    live,           \* resolvectl has not failed
    result, begun, shifts,
    \* ghosts: the world when the call began; backends and live steps that failed in it
    began, missed

kernel == <<addrs, routes>>
resolver == <<resolved, linked, link, resolv>>
locals == <<own, doomed, static, n, live>>
routesVars == <<os, kernel, disk, resolver, at, call, locals, result, begun, shifts, began, missed>>

-----------------------------------------------------------------------------
(* Routes *)

NetsOf(as) == {NetOf[a] : a \in as}

\* Mutant: the routes of the interface's own networks are persisted too.
StaticWithOwn(rs, as) == {r \in rs : r.dst # Default}

\* What is persisted of a listing: no default route, no route to an own network.
Static(rs, as) == {r \in rs : r.dst # Default /\ r.dst \notin NetsOf(as)}

\* Windows keeps many routes of its own, without a gateway; none like that is persisted.
StaticWindows(rs, as) == {r \in Static(rs, as) : r.gw # NoHop}

Persistent(rs, as) == IF os = "windows" THEN StaticWindows(rs, as) ELSE Static(rs, as)

Asked(r) == r.dst = call.dst /\ r.gw = call.gw

Begin(c, label) ==
    /\ at = "idle" /\ begun < MaxBegun
    /\ begun' = begun + 1 /\ call' = c /\ at' = label /\ result' = "running"
    /\ began' = [disk |-> disk, shifts |-> shifts, resolv |-> resolv]
    /\ missed' = {} /\ own' = addrs /\ doomed' = {} /\ static' = {} /\ n' = 1 /\ live' = TRUE
    /\ UNCHANGED <<os, kernel, disk, resolver, shifts>>

Still == UNCHANGED <<os, call, begun, shifts, began>>

\* The call returns.
Reply(answer) ==
    /\ at' = "idle" /\ result' = answer
    /\ UNCHANGED <<disk, resolver, locals, missed>> /\ Still

AddRoute ==
    \E d \in Destinations, g \in Hops \cup {NoHop}, m \in Metrics :
        Begin([op |-> "add", dst |-> d, gw |-> g, metric |-> m], "check")

RemoveRoute ==
    \E d \in Destinations, g \in Hops \cup {NoHop} :
        Begin([op |-> "remove", dst |-> d, gw |-> g], "check")

\* A network that holds an address of the interface is refused, the default route is not.
Refused == call.dst # Default /\ Within[call.dst] \cap own # {}

\* The addresses were read in Begin; that read or one before it may have failed.
Refuse == at = "check" /\ Reply("error") /\ UNCHANGED kernel

Reachable(gw) == gw = NoHop \/ \E a \in addrs : gw \in Reach[a]

Added ==
    /\ routes' = routes \cup {[dst |-> call.dst, gw |-> call.gw, metric |-> call.metric]}
    /\ at' = "list"
    /\ UNCHANGED <<addrs, disk, resolver, locals, result, missed>> /\ Still

\* Linux has one route per destination and metric, and wants to reach the gateway.
RouteAdd ==
    /\ at = "check" /\ call.op = "add" /\ os = "linux" /\ ~Refused
    /\ \A r \in routes : r.dst # call.dst \/ r.metric # call.metric
    /\ Reachable(call.gw)
    /\ Added

\* Windows has one route per destination and gateway.
RouteAddWindows ==
    /\ at = "check" /\ call.op = "add" /\ os = "windows" /\ ~Refused
    /\ ~\E r \in routes : Asked(r)
    /\ Added

\* On Windows the route goes first, by destination and gateway, and be it the default.
DeleteRoute ==
    /\ at = "check" /\ call.op = "remove" /\ os = "windows" /\ ~Refused
    /\ \E r \in routes : Asked(r) /\ routes' = routes \ {r}
    /\ at' = "list"
    /\ UNCHANGED <<addrs, disk, resolver, locals, result, missed>> /\ Still

\* On Linux RemoveRoute lists before it deletes.
RouteList ==
    /\ \/ at = "list"
       \/ at = "check" /\ call.op = "remove" /\ os = "linux" /\ ~Refused
    /\ LET listed == Persistent(routes, own)
           matching == IF at = "list" THEN {} ELSE {r \in listed : Asked(r)}
       IN  doomed' = matching /\ static' = listed \ matching
    /\ at' = "delete"
    /\ UNCHANGED <<kernel, disk, resolver, own, n, live, result, missed>> /\ Still

ListFails == at = "list" /\ Reply("error") /\ UNCHANGED kernel

\* One after the other, in the order of the listing; a route that is gone is an error.
RouteDel ==
    /\ at = "delete"
    /\ \E r \in doomed :
          \/ /\ r \in routes
             /\ routes' = routes \ {r} /\ doomed' = doomed \ {r}
             /\ UNCHANGED <<addrs, disk, resolver, at, own, static, n, live, result, missed>>
             /\ Still
          \/ Reply("error") /\ UNCHANGED kernel

Deleted ==
    /\ at = "delete" /\ doomed = {}
    /\ at' = "persist"
    /\ UNCHANGED <<kernel, disk, resolver, locals, result, missed>> /\ Still

\* applyIfaceRoutes: the error of one backend is logged, and the next is tried.
Persist ==
    /\ at = "persist" /\ n <= Len(Backends)
    /\ \/ disk' = [disk EXCEPT ![Backends[n]] = static] /\ UNCHANGED missed
       \/ missed' = missed \cup {Backends[n]} /\ UNCHANGED disk
    /\ n' = n + 1
    /\ UNCHANGED <<kernel, resolver, at, own, doomed, static, live, result>> /\ Still

Persisted == at = "persist" /\ n > Len(Backends) /\ Reply("ok") /\ UNCHANGED kernel

-----------------------------------------------------------------------------
(* SetDNS: what the backends do with it is their modules' subject *)

SetDNS ==
    \E servers \in ServerSets, domains \in BOOLEAN :
        Begin([op |-> "dns", servers |-> servers, domains |-> domains],
              IF os = "windows" THEN "adapter4"
              ELSE IF resolved THEN "resolvectl" ELSE "fallback")

Live(servers) == link' = servers /\ UNCHANGED <<resolved, linked, resolv>>

\* resolvectl dns, or revert where there is nothing to set.
Resolvectl ==
    /\ at = "resolvectl"
    /\ \/ Live(call.servers) /\ UNCHANGED <<live, missed>>
       \/ live' = FALSE /\ missed' = missed \cup {"resolvectl"} /\ UNCHANGED resolver
    /\ at' = IF call.servers = {} /\ ~call.domains THEN "resolved" ELSE "domain"
    /\ UNCHANGED <<kernel, disk, own, doomed, static, n, result>> /\ Still

\* resolvectl domain runs whether or not the servers were set.
ResolvectlDomain ==
    /\ at = "domain"
    /\ \/ UNCHANGED <<live, missed>>
       \/ live' = FALSE /\ missed' = missed \cup {"resolvectl"}
    /\ at' = "resolved"
    /\ UNCHANGED <<kernel, disk, resolver, own, doomed, static, n, result>> /\ Still

Resolved == at = "resolved" /\ live /\ Reply("ok") /\ UNCHANGED kernel

\* Mutant: clearing the servers of one interface clears them for the host.
NothingToWriteLinked == linked

\* A symlink is the manager's file, and no servers would be none for the whole host.
NothingToWrite == linked \/ call.servers = {}

\* The fallback rewrites the file and renames it into place, or leaves it.
WriteResolvConf ==
    /\ at = "fallback" \/ (at = "resolved" /\ ~live)
    /\ \/ ~NothingToWrite /\ resolv' = call.servers /\ UNCHANGED <<resolved, linked, link, missed>>
       \/ NothingToWrite /\ UNCHANGED <<resolver, missed>>
       \/ ~NothingToWrite /\ missed' = missed \cup {"resolv.conf"} /\ UNCHANGED resolver
    /\ at' = "idle" /\ result' = "ok"
    /\ UNCHANGED <<kernel, disk, locals>> /\ Still

\* The servers of the family that the step sets.
OfFamily(servers, step) == IF step = "adapter4" THEN servers \cap Servers4
                           ELSE servers \ Servers4

\* Windows: the adapter's servers, one family after the other; errors are logged.
AdapterDNS ==
    /\ at \in {"adapter4", "adapter6"}
    /\ \/ Live((link \ OfFamily(link, at)) \cup OfFamily(call.servers, at)) /\ UNCHANGED missed
       \/ missed' = missed \cup {at} /\ UNCHANGED resolver
    /\ IF at = "adapter4" THEN at' = "adapter6" /\ UNCHANGED result
       ELSE at' = "idle" /\ result' = "ok"
    /\ UNCHANGED <<kernel, disk, locals>> /\ Still

\* The adapters cannot be listed, or none has the name.
NoAdapter ==
    /\ at = "adapter4"
    /\ at' = "idle" /\ result' = "ok" /\ missed' = {"adapter4", "adapter6"}
    /\ UNCHANGED <<kernel, disk, resolver, locals>> /\ Still

-----------------------------------------------------------------------------
(* The rest of the world *)

Shift ==
    /\ shifts < MaxShifts /\ shifts' = shifts + 1
    /\ UNCHANGED <<os, disk, resolver, at, call, locals, result, begun, began, missed>>

\* An address arrives with the route to its network.
AddressArrives ==
    /\ \E a \in Addresses \ addrs :
          addrs' = addrs \cup {a} /\ routes' = routes \cup {Connected(a)}
    /\ Shift

\* An address leaves, and with it the routes nothing reaches any more, except that
\* Windows keeps those by a gateway.
AddressLeaves ==
    /\ \E a \in addrs :
          LET left == addrs \ {a}
          IN  /\ addrs' = left
              /\ routes' = {r \in routes :
                    \/ r.gw # NoHop /\ (os = "windows" \/ \E b \in left : r.gw \in Reach[b])
                    \/ r.gw = NoHop /\ (r # Connected(a) \/ \E b \in left : r = Connected(b))}
    /\ Shift

\* The process ends, in the middle of a call or not; it keeps nothing between calls.
Die ==
    /\ at # "idle"
    /\ at' = "idle" /\ result' = "crashed"
    /\ UNCHANGED <<os, kernel, disk, resolver, call, locals, begun, shifts, began, missed>>

RoutesStart ==
    /\ os \in {"linux", "windows"}
    /\ \E s \in Starts :
          /\ addrs = s.addrs
          /\ routes = s.routes \cup {Connected(a) : a \in s.addrs}
    /\ disk = [b \in BackendSet |-> Persistent(routes, addrs)]
    /\ resolved \in BOOLEAN /\ linked \in BOOLEAN
    /\ os = "windows" => ~resolved /\ ~linked
    /\ link = {} /\ \E servers \in ServerSets : servers # {} /\ resolv = servers
    /\ at = "idle" /\ call = [op |-> "none"] /\ result = "none" /\ begun = 0 /\ shifts = 0
    /\ own = {} /\ doomed = {} /\ static = {} /\ n = 1 /\ live = TRUE
    /\ began = [disk |-> disk, shifts |-> 0, resolv |-> resolv] /\ missed = {}

RoutesNext ==
    \/ AddRoute \/ RemoveRoute \/ SetDNS
    \/ Refuse \/ RouteAdd \/ RouteAddWindows \/ DeleteRoute \/ RouteList \/ ListFails
    \/ RouteDel \/ Deleted \/ Persist \/ Persisted
    \/ Resolvectl \/ ResolvectlDomain \/ Resolved \/ WriteResolvConf \/ AdapterDNS \/ NoAdapter
    \/ AddressArrives \/ AddressLeaves \/ Die

RoutesSpec == RoutesStart /\ [][RoutesNext]_routesVars

-----------------------------------------------------------------------------
(* Properties *)

Ended(ops, answers) == at = "idle" /\ call.op \in ops /\ result \in answers

\* The routes nobody else sets again: not the gateways', not those of an address, nor,
\* on Windows, which has many of its own, those without a gateway.
Lasting ==
    {r \in routes : r.dst # Default /\ (\A a \in addrs : r.dst # NetOf[a])
                       /\ (os = "windows" => r.gw # NoHop)}

\* AddRoute and RemoveRoute write the same routes to every backend, and go on past
\* one that fails: unless an address came or went meanwhile, each backend then has
\* exactly the kernel's static routes, or failed and has what it had.  A call that
\* returns an error, even after RemoveRoute has deleted some of several matching
\* routes, or the route, has written nothing.
RoutesPersisted ==
    /\ Ended({"add", "remove"}, {"ok"}) /\ shifts = began.shifts =>
          \A b \in DOMAIN disk :
              disk[b] = IF b \in missed THEN began.disk[b] ELSE Lasting
    /\ Ended({"add", "remove"}, {"error"}) => disk = began.disk

\* SetDNS is about one interface: /etc/resolv.conf, which is the host's, is only
\* rewritten where it is a file, with servers, and because resolvectl could not be
\* used.  And it takes effect now: a call that returns has set the servers in one
\* of the two, unless what it tried failed or the file is another manager's.  On
\* Windows each family of the adapter whose setting did not fail is as asked.
ResolverKept ==
    /\ call.op = "dns" /\ resolv # began.resolv =>
          /\ ~linked /\ resolv = call.servers /\ resolv # {}
          /\ resolved => "resolvectl" \in missed
    /\ Ended({"dns"}, {"ok"}) /\ os = "windows" =>
          \A f \in {"adapter4", "adapter6"} \ missed :
              OfFamily(link, f) = OfFamily(call.servers, f)
    /\ Ended({"dns"}, {"ok"}) /\ os = "linux" =>
          /\ link = call.servers \/ resolv = call.servers \/ missed # {}
                \/ linked \/ call.servers = {}
          /\ "resolvectl" \in missed /\ call.servers # {} /\ ~linked =>
                resolv = call.servers \/ "resolv.conf" \in missed
=============================================================================
