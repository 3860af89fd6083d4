------------------------------ MODULE CloudInit ------------------------------
(****************************************************************************)
(* The cloud-init backend (cloudinit.go).  A base file and the drop-ins of  *)
(* cloud.cfg.d may each have a network section; they are merged into one    *)
(* network in memory.  Save writes all of it to one of those files, the     *)
(* main one, and deletes the section from the others, file after file in    *)
(* reading order.  Any system call of Save may fail and the process may die *)
(* between two of them; a new process reads what is on disk.                *)
(*                                                                          *)
(* A network has two halves.  v1 maps an interface to its list of subnets,  *)
(* where a DHCP client is a subnet of its own type; v2 maps a key to one    *)
(* stanza.  Lists of servers and of routes are sets: their order says       *)
(* nothing.                                                                 *)
(****************************************************************************)
EXTENDS ConfigFiles

CONSTANTS
    BaseFiles,      \* cloud.cfg and cloudbase-init's network.json, as tried
    DropIns,        \* the names of cloud.cfg.d, sorted
    Encapsulated,   \* files that are a network section, not a file with one
    Key,            \* keys of v2 stanzas
    Iface,
    NameOf,         \* the interface a v2 stanza configures: set-name, or its key
    Gateways, FamilyOf,     \* gateways, 4 or 6 for each
    Routes, Hop,            \* static routes and their gateways
    Reach,          \* the gateways in the network of each address
    Servers,
    AddrLists, GatewaySets, RouteSets, ServerSets,  \* arguments calls may have
    Unset,          \* the key is not there
    Dirs,           \* directories a history may start from
    MaxCalls        \* bound on the number of Set* calls in a history

Families == {4, 6}
Addresses == DOMAIN Reach

Subnet ==
    [type : {"static", "dhcp", "dhcp4", "dhcp6"}, address : Addresses \cup {Absent},
     gateways : SUBSET Gateways, routes : SUBSET Routes, servers : SUBSET Servers]
Stanza ==
    [addresses : Seq(Addresses), gateways : SUBSET Gateways,
     dhcp : [Families -> {"on", "off", Unset}],
     routes : SUBSET Routes, servers : SUBSET Servers]
V1(S) == [S -> Seq(Subnet)]
V2(K) == [K -> Stanza]
Network == [v1 : UNION {V1(S) : S \in SUBSET Iface}, v2 : UNION {V2(K) : K \in SUBSET Key}]

\* A file: its network section, and whether it has anything else.
Text == [net : Network \cup {Absent}, other : BOOLEAN]

Order == BaseFiles \o DropIns

ASSUME CloudInitAssumption ==
    /\ BaseFiles \in Seq(Files) /\ DropIns \in Seq(Files)
    /\ \A m, n \in DOMAIN Order : Order[m] = Order[n] => m = n
    /\ Absent \notin Text \cup Network /\ Unset \notin {"on", "off"}
    /\ \A d \in Dirs : d = [f \in Files |-> d[f]]
    /\ \A d \in Dirs, f \in Files : d[f] # Absent =>
          LET n == d[f].net
          IN  /\ d[f] = [net |-> n, other |-> d[f].other] /\ d[f].other \in BOOLEAN
              /\ n # Absent =>
                    /\ n = [v1 |-> n.v1, v2 |-> n.v2]
                    /\ DOMAIN n.v1 \subseteq Iface /\ n.v1 \in V1(DOMAIN n.v1)
                    /\ DOMAIN n.v2 \subseteq Key /\ n.v2 \in V2(DOMAIN n.v2)
    /\ NameOf \in [Key -> Iface]
    /\ FamilyOf \in [Gateways -> Families]
    /\ Hop \in [Routes -> Gateways]
    /\ Reach \in [Addresses -> SUBSET Gateways]
    /\ AddrLists \subseteq Seq(Addresses)
    /\ RouteSets \subseteq SUBSET Routes /\ ServerSets \subseteq SUBSET Servers
    /\ \A G \in GatewaySets : G \subseteq Gateways /\
          \A g, h \in G : FamilyOf[g] = FamilyOf[h] => g = h
    /\ Encapsulated \subseteq Files
    /\ MaxCalls \in Nat

VARIABLES
    net,            \* ci.Network
    configFiles,    \* ci.configFiles: the files that had a network section
    pc, i,          \* the step of Save and the file it is at
    call, ret,      \* the last call and its result
    calls,
    \* ghosts: the world when the call began; what the first directory configured;
    \* Saves of this process that failed
    pre, origin, failed

vars == <<disk, tmp, bak, net, configFiles, pc, i, call, ret, calls, pre, origin, failed>>

-----------------------------------------------------------------------------
(* Reading the files *)

NoNetwork == [v1 |-> <<>>, v2 |-> <<>>]

\* mergo.Merge fills what is empty in dst, and false is empty.
Filled(dst, src) ==
    [addresses |-> IF dst.addresses = <<>> THEN src.addresses ELSE dst.addresses,
     gateways  |-> dst.gateways \cup
                   {g \in src.gateways : \A h \in dst.gateways : FamilyOf[h] # FamilyOf[g]},
     dhcp      |-> [f \in Families |->
                       IF dst.dhcp[f] = "on" \/ src.dhcp[f] = Unset THEN dst.dhcp[f]
                       ELSE src.dhcp[f]],
     routes    |-> IF dst.routes = {} THEN src.routes ELSE dst.routes,
     servers   |-> IF dst.servers = {} THEN src.servers ELSE dst.servers]

\* A list is kept whole, a map is merged key by key.
Merge(dst, src) ==
    [v1 |-> IF DOMAIN dst.v1 = {} THEN src.v1 ELSE dst.v1,
     v2 |-> [k \in DOMAIN dst.v2 \cup DOMAIN src.v2 |->
                IF k \notin DOMAIN src.v2 THEN dst.v2[k]
                ELSE IF k \notin DOMAIN dst.v2 THEN src.v2[k]
                ELSE Filled(dst.v2[k], src.v2[k])]]

HasSection(d, f) == d[f] # Absent /\ d[f].net # Absent

\* Of the base files only the first there is is read, and what has a network is used.
Used(d, k) ==
    /\ HasSection(d, Order[k])
    /\ k <= Len(BaseFiles) => \A m \in 1..k - 1 : d[Order[m]] = Absent

\* The first k files merged, and which of them have a network.
EffectiveUpTo(d) ==
    LET merged[k \in 0..Len(Order)] ==
            IF k = 0 THEN NoNetwork
            ELSE IF Used(d, k) THEN Merge(merged[k - 1], d[Order[k]].net)
            ELSE merged[k - 1]
    IN  merged

FilesUpTo(d) ==
    LET found[k \in 0..Len(Order)] ==
            IF k = 0 THEN <<>>
            ELSE IF Used(d, k)
            THEN Append(found[k - 1], [path |-> Order[k], onlyNetwork |-> ~d[Order[k]].other])
            ELSE found[k - 1]
    IN  found

Effective(d) == EffectiveUpTo(d)[Len(Order)]
ReadFiles(d) == FilesUpTo(d)[Len(Order)]

\* newCloudInit fails without a base file, and without anything to configure.
Readable(d) == (\E n \in DOMAIN BaseFiles : d[BaseFiles[n]] # Absent) /\ Effective(d) # NoNetwork

-----------------------------------------------------------------------------
(* What a network says of an interface, as GetInterfaces reports it *)

SubnetFamily(type) == IF type = "dhcp6" THEN 6 ELSE 4

\* The static ones among the first k subnets.
StaticUpTo(subnets) ==
    LET static[k \in 0..Len(subnets)] ==
            IF k = 0 THEN <<>>
            ELSE IF subnets[k].type = "static" THEN Append(static[k - 1], subnets[k])
            ELSE static[k - 1]
    IN  static

Static(subnets) == StaticUpTo(subnets)[Len(subnets)]
UnionOf(subnets, Field(_)) == UNION {Field(subnets[n]) : n \in DOMAIN subnets}
RoutesOf(subnets) == UnionOf(subnets, LAMBDA s : s.routes)
ServersOf(subnets) == UnionOf(subnets, LAMBDA s : s.servers)

ViewV1(subnets) ==
    [addresses |-> [n \in DOMAIN Static(subnets) |-> Static(subnets)[n].address],
     gateways  |-> UnionOf(Static(subnets), LAMBDA s : s.gateways),
     dhcp      |-> {SubnetFamily(subnets[n].type) :
                       n \in {m \in DOMAIN subnets : subnets[m].type # "static"}},
     routes    |-> RoutesOf(subnets),
     servers   |-> ServersOf(subnets)]

ViewV2(stanza) == [stanza EXCEPT !.dhcp = {f \in Families : @[f] = "on"}]

-----------------------------------------------------------------------------
(* The Set* calls *)

\* Mutant: routes that no address reaches are forgotten.
RebuiltWithoutStrays(subnets, addrs, gateways) ==
    [n \in DOMAIN addrs |->
        [type |-> "static", address |-> addrs[n],
         gateways |-> gateways \cap Reach[addrs[n]],
         servers |-> ServersOf(subnets),
         routes |-> {r \in RoutesOf(subnets) : Hop[r] \in Reach[addrs[n]]}]]

\* One static subnet per address.  A route goes with the first address that reaches its
\* gateway, or else with the first; with no address there is nowhere to keep one.
Rebuilt(subnets, addrs, gateways) ==
    LET Reaching(r) == {n \in DOMAIN addrs : Hop[r] \in Reach[addrs[n]]}
        Place(r) == IF Reaching(r) = {} THEN 1
                    ELSE CHOOSE n \in Reaching(r) : \A m \in Reaching(r) : n <= m
    IN  [n \in DOMAIN addrs |->
            [type |-> "static", address |-> addrs[n],
             gateways |-> gateways \cap Reach[addrs[n]],
             servers |-> ServersOf(subnets),
             routes |-> {r \in RoutesOf(subnets) : Place(r) = n}]]

Client(type) == <<[type |-> type, address |-> Absent, gateways |-> {},
                   servers |-> {}, routes |-> {}]>>

\* Mutant: a client spelt another way stays beside the new one.
WithClientsRespelt(subnets, on) ==
    (IF 4 \in on THEN Client("dhcp4") ELSE <<>>) \o (IF 6 \in on THEN Client("dhcp6") ELSE <<>>)
        \o SelectSeq(subnets, LAMBDA s : s.type \notin {"dhcp4", "dhcp6"})

\* DHCP subnets of either family and any spelling go, those asked for are put in front.
WithClients(subnets, on) ==
    (IF 4 \in on THEN Client("dhcp4") ELSE <<>>) \o (IF 6 \in on THEN Client("dhcp6") ELSE <<>>)
        \o Static(subnets)

\* setDHCP: a client that was never mentioned is not mentioned as off.
SetDHCP(dhcp, on) ==
    [f \in Families |-> IF f \in on THEN "on" ELSE IF dhcp[f] = Unset THEN Unset ELSE "off"]

\* A route may go to any static subnet that has its gateway (a map is searched), to the
\* first subnet if none has.
Places(subnets, routes) ==
    {place \in [routes -> DOMAIN subnets] :
        \A r \in routes :
            LET having == {n \in DOMAIN subnets :
                             subnets[n].type = "static" /\ Hop[r] \in Reach[subnets[n].address]}
            IN  place[r] \in (IF having = {} THEN {1} ELSE having)}

WithRoutes(subnets, place) ==
    [n \in DOMAIN subnets |-> [subnets[n] EXCEPT !.routes = {r \in DOMAIN place : place[r] = n}]]

\* An interface with a network of both halves has both changed.
Change(iface, First(_), Second(_)) ==
    [v1 |-> [n \in DOMAIN net.v1 |-> IF n = iface THEN First(net.v1[n]) ELSE net.v1[n]],
     v2 |-> [k \in DOMAIN net.v2 |-> IF NameOf[k] = iface THEN Second(net.v2[k]) ELSE net.v2[k]]]

Begin(op, iface, asked) ==
    /\ pc = "idle" /\ calls < MaxCalls
    /\ calls' = calls + 1
    /\ call' = [op |-> op, iface |-> iface, asked |-> asked]
    /\ pre' = [disk |-> disk, net |-> net]
    /\ UNCHANGED <<disk, tmp, bak, configFiles, origin, failed>>

Save == pc' = "save" /\ i' = 1 /\ ret' = "running"

SetIfaceAddresses ==
    \E iface \in Iface, addrs \in AddrLists, G \in GatewaySets :
        /\ Begin("addresses", iface, [addresses |-> addrs, gateways |-> G])
        /\ net' = Change(iface, LAMBDA subnets : Rebuilt(subnets, addrs, G),
                         LAMBDA s : [s EXCEPT !.addresses = addrs, !.gateways = G])
        /\ Save

SetIfaceDHCP ==
    \E iface \in Iface, on \in SUBSET Families :
        /\ Begin("dhcp", iface, on)
        /\ net' = Change(iface, LAMBDA subnets : WithClients(subnets, on),
                         LAMBDA s : [s EXCEPT !.dhcp = SetDHCP(@, on)])
        /\ Save

\* There is no place for a route on a v1 interface without a subnet.
SetIfaceRoutes ==
    \E iface \in Iface, R \in RouteSets :
        /\ Begin("routes", iface, R)
        /\ IF iface \in DOMAIN net.v1
           THEN IF net.v1[iface] = <<>>
                THEN ret' = "error" /\ UNCHANGED <<net, pc, i>>
                ELSE \E place \in Places(net.v1[iface], R) :
                        /\ net' = Change(iface, LAMBDA subnets : WithRoutes(subnets, place),
                                         LAMBDA s : [s EXCEPT !.routes = R])
                        /\ Save
           ELSE /\ net' = Change(iface, LAMBDA subnets : subnets,
                                 LAMBDA s : [s EXCEPT !.routes = R])
                /\ Save

SetIfaceDNS ==
    \E iface \in Iface, S \in ServerSets :
        /\ Begin("dns", iface, S)
        /\ net' = Change(iface,
                         LAMBDA subnets : [n \in DOMAIN subnets |-> [subnets[n] EXCEPT !.servers = S]],
                         LAMBDA s : [s EXCEPT !.servers = S])
        /\ Save

-----------------------------------------------------------------------------
(* Save *)

\* Mutant: the last of the network-only files.
LastMain == IF \A n \in DOMAIN configFiles : ~configFiles[n].onlyNetwork THEN 1
            ELSE CHOOSE n \in DOMAIN configFiles : configFiles[n].onlyNetwork /\
                    \A m \in DOMAIN configFiles : configFiles[m].onlyNetwork => m <= n

\* The first file that has nothing but a network, or else the first file.
Main == IF \A n \in DOMAIN configFiles : ~configFiles[n].onlyNetwork THEN 1
        ELSE CHOOSE n \in DOMAIN configFiles : configFiles[n].onlyNetwork /\
                \A m \in DOMAIN configFiles : configFiles[m].onlyNetwork => n <= m

file == configFiles[i].path

\* Mutant: the other files keep their sections.
NewNetOthersKept(f) == IF f = configFiles[Main].path THEN net ELSE disk[f].net

\* The section file f gets: all of it for the main file, of which an encapsulated one
\* takes only the v1 list, and none for any other.
NewNet(f) ==
    IF f # configFiles[Main].path THEN Absent
    ELSE IF f \in Encapsulated THEN [net EXCEPT !.v2 = <<>>] ELSE net

Rest == UNCHANGED <<net, configFiles, call, calls, pre, origin>>

Go(label) == pc' = label /\ UNCHANGED <<i, ret, failed>> /\ Rest

\* Save returns an error.
Fault ==
    /\ ret' = "error" /\ pc' = "idle" /\ i' = 1 /\ failed' = failed + 1
    /\ UNCHANGED files /\ Rest

\* The file is read again, so what else it has is what it has now.  It may be gone:
\* an earlier Save moved it away and did not get any further.
WriteConfig ==
    /\ pc = "save" /\ i <= Len(configFiles)
    /\ \/ /\ disk[file] # Absent
          /\ WriteTmp(file, [disk[file] EXCEPT !.net = NewNet(file)])
          /\ Go("backup")
       \/ Fault

Backup ==
    /\ pc = "backup"
    /\ \/ MoveToBackup(file) /\ Go("install")
       \/ Fault

Install ==
    /\ pc = "install"
    /\ \/ MoveInPlace(file) /\ Go("prune")
       \/ Fault

PruneBackups ==
    /\ pc = "prune" /\ Prune(file)
    /\ pc' = "save" /\ i' = i + 1
    /\ UNCHANGED <<ret, failed>> /\ Rest

Saved ==
    /\ pc = "save" /\ i > Len(configFiles)
    /\ pc' = "idle" /\ i' = 1 /\ ret' = "ok"
    /\ UNCHANGED <<files, failed>> /\ Rest

-----------------------------------------------------------------------------
(* Processes *)

\* The process ends, in the middle of a call or not.
Exit ==
    /\ pc # "down"
    /\ pc' = "down" /\ i' = 1 /\ net' = NoNetwork /\ configFiles' = <<>>
    /\ ret' = IF pc = "idle" THEN ret ELSE "crashed"
    /\ UNCHANGED <<files, call, calls, pre, origin, failed>>

newCloudInit ==
    /\ pc = "down" /\ Readable(disk)
    /\ net' = Effective(disk) /\ configFiles' = ReadFiles(disk)
    /\ pc' = "idle" /\ i' = 1 /\ ret' = "none"
    /\ pre' = [disk |-> disk, net |-> net']
    /\ failed' = IF Retention # 0 /\ failed >= Retention THEN failed ELSE 0
    /\ UNCHANGED <<files, call, calls, origin>>

Init ==
    /\ disk \in Dirs /\ Readable(disk)
    /\ tmp = [f \in Files |-> Absent] /\ bak = [f \in Files |-> <<>>]
    /\ net = Effective(disk) /\ configFiles = ReadFiles(disk)
    /\ pc = "idle" /\ i = 1 /\ ret = "none" /\ calls = 0 /\ failed = 0
    /\ call = [op |-> "none", iface |-> CHOOSE n \in Iface : TRUE, asked |-> {}]
    /\ pre = [disk |-> disk, net |-> net] /\ origin = net

Next ==
    \/ SetIfaceAddresses \/ SetIfaceDHCP \/ SetIfaceRoutes \/ SetIfaceDNS
    \/ WriteConfig \/ Backup \/ Install \/ PruneBackups \/ Saved
    \/ Exit \/ newCloudInit

Spec == Init /\ [][Next]_vars
-----------------------------------------------------------------------------
(* Properties *)

\* After a call that returned without error, a process started now has the network this
\* one holds: the sections of all other files are gone and revive nothing.  A main file
\* that is encapsulated holds the v1 list only,
\* and nothing to start from where there is none.
SavedIsRead ==
    pc = "idle" /\ ret = "ok" =>
        LET whole == configFiles[Main].path \notin Encapsulated
        IN  /\ whole \/ DOMAIN net.v1 # {} => Readable(disk)
            /\ Effective(disk).v1 = net.v1
            /\ whole => Effective(disk).v2 = net.v2

V1Entries(n) == {<<"v1", x>> : x \in DOMAIN n.v1}
V2Entries(n) == {<<"v2", k>> : k \in DOMAIN n.v2}
Entries(n) == V1Entries(n) \cup V2Entries(n)

Live == {disk[f] : f \in Files} \ {Absent}
Backups == UNION {{bak[f][n] : n \in DOMAIN bak[f]} : f \in Files}
Within(texts) == UNION {Entries(t.net) : t \in {u \in texts : u.net # Absent}}

InUse(f) == disk[f] # Absent \/ bak[f] # <<>>

\* An encapsulated file in use, which has no place for v2 stanzas.
Encased == \E f \in Encapsulated : InUse(f)

\* With two base files, the death of a process that has moved the first away brings the
\* second to light, and its v1 list hides those of the drop-ins.
OneBase == \A f, g \in ToSet(BaseFiles) : InUse(f) /\ InUse(g) => f = g

\* What the first directory configured and should not get lost.
Kept == (IF OneBase THEN V1Entries(origin) ELSE {})
            \cup (IF Encased THEN {} ELSE V2Entries(origin))

\* However many calls, failures, deaths and restarts, each interface the files configured
\* is still in a file or a backup, unless one process had as many failed Saves as backups
\* are kept.  Where the first file holds nothing but a network, it is written first: the
\* stanzas of the later files are at no time off the disk.
SectionsSurvive ==
    /\ Retention = 0 \/ failed < Retention => Kept \subseteq Within(Live \cup Backups)
    /\ pc \notin {"idle", "down"} /\ configFiles[1].onlyNetwork /\ ~Encased =>
           \A n \in 2 .. Len(configFiles) :
               LET before == pre.disk[configFiles[n].path]
               IN  before # Absent /\ before.net # Absent =>
                       Entries(before.net) \cap Entries(net) \subseteq Within(Live)

\* The clients an interface had are lost when its addresses are set.
V1Part(c, subnets, now) ==
    LET b == ViewV1(subnets)  a == ViewV1(now)
    IN  CASE c.op = "addresses" ->
                /\ a.addresses = c.asked.addresses /\ a.dhcp = {}
                /\ a.gateways = c.asked.gateways \cap UNION {Reach[x] : x \in ToSet(a.addresses)}
                /\ a.addresses # <<>> => a.routes = b.routes /\ a.servers = b.servers
          [] c.op = "dhcp" -> a = [ViewV1(Static(subnets)) EXCEPT !.dhcp = c.asked]
          [] c.op = "routes" -> a = [b EXCEPT !.routes = c.asked]
          [] c.op = "dns" -> subnets # <<>> => a = [b EXCEPT !.servers = c.asked]

V2Part(c, b, a) ==
    CASE c.op = "addresses" -> a = [b EXCEPT !.addresses = c.asked.addresses,
                                             !.gateways = c.asked.gateways]
      [] c.op = "dhcp" -> a = [b EXCEPT !.dhcp = c.asked]
      [] c.op = "routes" -> a = [b EXCEPT !.routes = c.asked]
      [] c.op = "dns" -> a = [b EXCEPT !.servers = c.asked]

CallDone ==
    /\ Entries(net) = Entries(pre.net)
    /\ \A n \in DOMAIN net.v1 :
           IF n = call.iface THEN V1Part(call, pre.net.v1[n], net.v1[n])
           ELSE net.v1[n] = pre.net.v1[n]
    /\ \A k \in DOMAIN net.v2 :
           IF NameOf[k] = call.iface THEN V2Part(call, ViewV2(pre.net.v2[k]), ViewV2(net.v2[k]))
           ELSE net.v2[k] = pre.net.v2[k]

\* A call that returned without error did what it was asked for its interface and left
\* every other interface as it was, and what else GetInterfaces reports of its own, but for
\* what v1 keeps on subnets.  There a change of clients keeps the routes and servers of the
\* static subnets only; and a change of addresses keeps routes and servers while there is
\* an address, but turns every client off, although AddAddress "never changes DHCP state"
\* (README.md:129).
CallDoesItsPart == pc = "idle" /\ ret = "ok" => CallDone
=============================================================================
