---------------------------- MODULE NetworkScripts ----------------------------
(****************************************************************************)
(* The network-scripts backend (networkScripts.go): ifcfg files of keys and *)
(* values, several of which may be of one interface (aliases), and a route  *)
(* file per family.  A Set* call merges the files of its interface into     *)
(* ifcfg-<name>: the new text is written beside it, all of the old files    *)
(* are renamed to backups, the new one is renamed into place.  Any of these *)
(* steps may fail and the process may die between two of them.              *)
(*                                                                          *)
(* A text is a function from keys to values.  IPADDR<n> stands for its      *)
(* prefix, netmask and broadcast too, MTU for keys no call touches; search  *)
(* domains follow the servers and are left out.                             *)
(****************************************************************************)
EXTENDS ConfigFiles, FiniteSets

CONSTANTS
    Iface,
    FileOrder,      \* the ifcfg files, sorted by name
    OwnerOf,        \* the interface a file configures: DEVICE, or its name, up to a colon
    Main,           \* ifcfg-<name> of each interface
    RouteFile,      \* route-<name> and route6-<name> of each interface
    AddressKey,     \* the keys of IPv4 addresses as they are read: IPADDR, IPADDR0, ...
    ServerKey,      \* those of name servers: DNS1, DNS2, ...
    Addresses,      \* IP addresses, with a prefix or without
    AddressArgs, ServerArgs, RouteArgs,     \* arguments calls may have
    Nil,            \* the nil net.IP
    Dirs,           \* directories a history may start from
    MaxCalls        \* bound on the number of Set* calls in a history

Family == <<4, 6>>
IfFiles == ToSet(FileOrder)

\* A route file says which routes, though it may be none.
RoutesSaid(d, n) ==
    \A f \in {4, 6} : d[RouteFile[n][f]] # Absent => d[RouteFile[n][f]].routes # Absent

\* A list in one value, split at its blanks.
Secondaries(config) ==
    IF "IPV6ADDR_SECONDARIES" \in DOMAIN config THEN config["IPV6ADDR_SECONDARIES"] ELSE <<>>

ASSUME ScriptsAssumption ==
    /\ FileOrder \in Seq(Files)
    /\ \A m, n \in DOMAIN FileOrder : FileOrder[m] = FileOrder[n] => m = n
    /\ OwnerOf \in [IfFiles -> Iface] /\ Main \in [Iface -> IfFiles]
    /\ \A n \in Iface : OwnerOf[Main[n]] = n
    /\ RouteFile \in [Iface -> [{4, 6} -> Files \ IfFiles]]
    /\ \A m, n \in Iface, f, g \in {4, 6} :
          RouteFile[m][f] = RouteFile[n][g] => m = n /\ f = g
    /\ \A d \in Dirs : d = [f \in Files |-> d[f]] /\ \A n \in Iface : RoutesSaid(d, n)
    /\ MaxCalls \in Nat

SingleKeys == {"IPV6ADDR", "IPV6ADDR_SECONDARIES", "GATEWAY", "IPV6_DEFAULTGW",
               "BOOTPROTO", "DHCPV6C", "IPV6INIT", "PEERDNS", "MTU"}

ASSUME KeysAssumption ==
    /\ \A keys \in {AddressKey, ServerKey} :
          /\ keys \in Seq(STRING) /\ ToSet(keys) \cap SingleKeys = {}
          /\ \A m, n \in DOMAIN keys : keys[m] = keys[n] => m = n
    /\ ToSet(AddressKey) \cap ToSet(ServerKey) = {}

\* Arguments fit the keys there are for them: IPADDR255 is the last that is read.
ASSUME ArgumentsAssumption ==
    /\ \A d \in Dirs, f \in IfFiles : d[f] # Absent => Secondaries(d[f]) \in Seq(Addresses)
    /\ \A arg \in AddressArgs :
          /\ arg = [v4 |-> arg.v4, v6 |-> arg.v6, gateway4 |-> arg.gateway4, gateway6 |-> arg.gateway6]
          /\ arg.v4 \in Seq(Addresses) /\ Len(arg.v4) < Len(AddressKey)
          /\ arg.v6 \in Seq(Addresses)
    /\ \A arg \in ServerArgs : arg \in Seq(Addresses) /\ Len(arg) <= Len(ServerKey)
    /\ \A arg \in RouteArgs : arg = [f \in {4, 6} |-> arg[f]] /\ Absent \notin {arg[4], arg[6]}

VARIABLES
    ifFiles,        \* per interface its ifcfg files: name and configuration
    routeFiles,     \* per interface and family the routes of its file, Absent if it has none
    pc, j,          \* the step of a call and the file or family it is at
    new,            \* what the call is about to save
    call, ret,      \* the last call and its result
    calls,
    \* ghosts: the world when the call began; a system call failed since the read
    pre, faulted

mem == <<ifFiles, routeFiles>>
vars == <<disk, tmp, bak, ifFiles, routeFiles, pc, j, new, call, ret, calls, pre, faulted>>

-----------------------------------------------------------------------------
(* Reading the directory *)

NoKeys == <<>>

IfFile(d, f) == [name |-> f, config |-> d[f]]

\* The ifcfg files of an interface among the first m of a directory.
IfFilesUpTo(d, n) ==
    LET read[m \in 0..Len(FileOrder)] ==
            IF m = 0 THEN <<>>
            ELSE LET f == FileOrder[m]
                 IN  IF d[f] # Absent /\ OwnerOf[f] = n
                     THEN Append(read[m - 1], IfFile(d, f)) ELSE read[m - 1]
    IN  read

ReadIfFiles(d) == [n \in Iface |-> IfFilesUpTo(d, n)[Len(FileOrder)]]

ReadRouteFiles(d) ==
    [n \in Iface |-> [f \in {4, 6} |->
        IF d[RouteFile[n][f]] = Absent THEN Absent ELSE d[RouteFile[n][f]].routes]]

-----------------------------------------------------------------------------
(* What the files of an interface say, as GetInterfaces reports it *)

Key(config, key) == IF key \in DOMAIN config THEN <<config[key]>> ELSE <<>>

\* The values of a list of keys: none that comes after a missing one, from the first on.
Numbered(config, keys, first) ==
    FlattenSeq([n \in DOMAIN keys |->
        IF \A m \in first .. n : keys[m] \in DOMAIN config THEN Key(config, keys[n]) ELSE <<>>])

\* IPADDR, IPADDR0 and IPADDR1 may be missing, IPADDR2, the fourth, ends the list.
Addresses4(config) == Numbered(config, AddressKey, 4)

Addresses6(config) == Key(config, "IPV6ADDR") \o Secondaries(config)

Servers(config) == Numbered(config, ServerKey, 1)

\* nsDHCPState
Clients(config) ==
    {f \in {4, 6} : \/ f = 4 /\ "BOOTPROTO" \in DOMAIN config /\ config["BOOTPROTO"] = "dhcp"
                    \/ f = 6 /\ "DHCPV6C" \in DOMAIN config /\ config["DHCPV6C"] = "yes"}

\* The value of a key in the last file that has it.
LastOf(ifs, key) ==
    LET having == {n \in DOMAIN ifs : key \in DOMAIN ifs[n].config}
    IN  IF having = {} THEN Nil
        ELSE ifs[CHOOSE n \in having : \A m \in having : m <= n].config[key]

\* Addresses and servers of all files, one after the other; any file may start a client.
View(ifs, routes) ==
    [addresses |-> [v4 |-> FlattenSeq([n \in DOMAIN ifs |-> Addresses4(ifs[n].config)]),
                    v6 |-> FlattenSeq([n \in DOMAIN ifs |-> Addresses6(ifs[n].config)]),
                    gateway4 |-> LastOf(ifs, "GATEWAY"),
                    gateway6 |-> LastOf(ifs, "IPV6_DEFAULTGW")],
     dhcp |-> UNION {Clients(ifs[n].config) : n \in DOMAIN ifs},
     servers |-> FlattenSeq([n \in DOMAIN ifs |-> Servers(ifs[n].config)]),
     other |-> LastOf(ifs, "MTU"),
     routes |-> [f \in {4, 6} |-> IF routes[f] = Absent THEN {} ELSE routes[f]]]

-----------------------------------------------------------------------------
(* The Set* calls *)

Without(config, keys) == [k \in DOMAIN config \ keys |-> config[k]]

\* mergo.Merge over the files: the first value of a key is kept.
Merged(ifs) ==
    [k \in UNION {DOMAIN ifs[n].config : n \in DOMAIN ifs} |->
        LET having == {n \in DOMAIN ifs : k \in DOMAIN ifs[n].config}
        IN  ifs[CHOOSE n \in having : \A m \in having : n <= m].config[k]]

\* The later function wins.
With(config, added) == [k \in DOMAIN config \cup DOMAIN added |->
                            IF k \in DOMAIN added THEN added[k] ELSE config[k]]

Put(config, key, value, given) == IF given THEN With(config, [k \in {key} |-> value]) ELSE config

\* Mutant: a second IPv6 address is not cleared.
AddressKeysButSecondaries == ToSet(AddressKey) \cup {"IPV6ADDR", "GATEWAY", "IPV6_DEFAULTGW"}

AddressKeys == ToSet(AddressKey) \cup {"IPV6ADDR", "IPV6ADDR_SECONDARIES", "GATEWAY", "IPV6_DEFAULTGW"}

\* IPv4 addresses are numbered from 0; the first IPv6 address has a key of its own.
AddressConfig(config, arg) ==
    LET v4 == [k \in {AddressKey[n + 1] : n \in DOMAIN arg.v4} |->
                  arg.v4[CHOOSE n \in DOMAIN arg.v4 : AddressKey[n + 1] = k]]
        c1 == With(Without(config, AddressKeys), v4)
        c2 == Put(c1, "IPV6ADDR", arg.v6[1], arg.v6 # <<>>)
        c3 == Put(c2, "IPV6ADDR_SECONDARIES", Tail(arg.v6), Len(arg.v6) > 1)
        c4 == Put(c3, "GATEWAY", arg.gateway4, arg.gateway4 # Nil)
    IN  Put(c4, "IPV6_DEFAULTGW", arg.gateway6, arg.gateway6 # Nil)

\* nsSetDHCP
DHCPConfig(config, on) ==
    LET c1 == Put(Without(config, {"DHCPV6C"}), "BOOTPROTO", IF 4 \in on THEN "dhcp" ELSE "none", TRUE)
    IN  Put(Put(c1, "IPV6INIT", "yes", 6 \in on), "DHCPV6C", "yes", 6 \in on)

\* Servers set by hand are kept from being replaced by those of a lease.
DNSConfig(config, arg) ==
    LET servers == [k \in {ServerKey[n] : n \in DOMAIN arg} |->
                       arg[CHOOSE n \in DOMAIN arg : ServerKey[n] = k]]
        c1 == With(Without(config, ToSet(ServerKey) \cup {"PEERDNS"}), servers)
    IN  Put(c1, "PEERDNS", "no", arg # <<>>)

Begin(op, iface, asked, label, what) ==
    /\ pc = "idle" /\ calls < MaxCalls
    /\ calls' = calls + 1
    /\ call' = [op |-> op, iface |-> iface, asked |-> asked]
    /\ new' = what
    /\ pre' = [disk |-> disk, ifFiles |-> ifFiles, routeFiles |-> routeFiles, faulted |-> faulted]
    /\ pc' = label /\ j' = 1 /\ ret' = "running"
    /\ UNCHANGED <<files, mem, faulted>>

SetIfaceAddresses ==
    \E iface \in Iface, arg \in AddressArgs :
        Begin("addresses", iface, arg, "write", AddressConfig(Merged(ifFiles[iface]), arg))

SetIfaceDHCP ==
    \E iface \in Iface, on \in SUBSET {4, 6} :
        Begin("dhcp", iface, on, "write", DHCPConfig(Merged(ifFiles[iface]), on))

SetIfaceDNS ==
    \E iface \in Iface, arg \in ServerArgs :
        Begin("dns", iface, arg, "write", DNSConfig(Merged(ifFiles[iface]), arg))

SetIfaceRoutes ==
    \E iface \in Iface, arg \in RouteArgs :
        Begin("routes", iface, arg, "writeRoutes", arg)

-----------------------------------------------------------------------------
(* Save *)

name == call.iface
Rest == UNCHANGED <<new, call, calls, pre>>

Go(label, n) == pc' = label /\ j' = n /\ UNCHANGED <<ret, faulted>> /\ Rest
Done == ret' = "ok" /\ pc' = "idle" /\ j' = 1 /\ UNCHANGED faulted /\ Rest

\* A system call fails and the error is returned.
Fault ==
    /\ ret' = "error" /\ pc' = "idle" /\ j' = 1 /\ faulted' = TRUE
    /\ UNCHANGED <<files, mem>> /\ Rest

\* The file an earlier call moved away is missed.
Missing(f) ==
    /\ disk[f] = Absent
    /\ ret' = "error" /\ pc' = "idle" /\ j' = 1
    /\ UNCHANGED <<files, mem, faulted>> /\ Rest

\* Errors of Fprintf are ignored: the text may come out short, at worst empty.
WriteConfig ==
    /\ pc = "write"
    /\ \/ WriteTmp(Main[name], new) /\ Go("backup", 1) /\ UNCHANGED mem
       \/ /\ WriteTmp(Main[name], NoKeys) /\ faulted' = TRUE
          /\ pc' = "backup" /\ j' = 1 /\ UNCHANGED <<mem, ret>> /\ Rest
       \/ Fault

Backup ==
    /\ pc = "backup" /\ j <= Len(ifFiles[name])
    /\ LET f == ifFiles[name][j].name
       IN  \/ MoveToBackup(f) /\ Go("backup", j + 1) /\ UNCHANGED mem
           \/ Missing(f)
           \/ Fault

\* Mutant: the list of files is not replaced.
OldFiles(config) == ifFiles[name]

SavedFiles(config) == <<[name |-> Main[name], config |-> config]>>

Install ==
    /\ pc = "backup" /\ j > Len(ifFiles[name])
    /\ \/ /\ MoveInPlace(Main[name]) /\ Go("prune", 1)
          /\ ifFiles' = [ifFiles EXCEPT ![name] = SavedFiles(new)]
          /\ UNCHANGED routeFiles
       \/ Fault

PruneBackups == pc = "prune" /\ Prune(Main[name]) /\ Done /\ UNCHANGED mem

-----------------------------------------------------------------------------
(* SaveRouteFiles: each step is taken for IPv4, then for IPv6 *)

routeFile == RouteFile[name][Family[j]]
routes == new[Family[j]]

Advance(label) == Go(IF j = 1 THEN pc ELSE label, IF j = 1 THEN 2 ELSE 1)

\* No file is written for a family without routes.
WriteRoutes ==
    /\ pc = "writeRoutes"
    /\ \/ routes = {} /\ Advance("backupRoutes") /\ UNCHANGED <<files, mem>>
       \/ /\ routes # {} /\ WriteTmp(routeFile, [routes |-> routes])
          /\ Advance("backupRoutes") /\ UNCHANGED mem
       \/ routes # {} /\ Fault

HasFile(f) == routeFiles[name][f] # Absent

BackupRoutes ==
    /\ pc = "backupRoutes"
    /\ \/ ~HasFile(Family[j]) /\ Advance("installRoutes") /\ UNCHANGED <<files, mem>>
       \/ HasFile(Family[j]) /\ MoveToBackup(routeFile) /\ Advance("installRoutes") /\ UNCHANGED mem
       \/ HasFile(Family[j]) /\ Missing(routeFile)
       \/ HasFile(Family[j]) /\ Fault

\* A family without routes has no file.
SavedRouteFiles == [f \in {4, 6} |-> IF new[f] = {} THEN Absent ELSE new[f]]

\* Both files are in place before the names are recorded.
InstallRoutes ==
    /\ pc = "installRoutes"
    /\ \/ /\ IF routes = {} THEN UNCHANGED files ELSE MoveInPlace(routeFile)
          /\ Advance("pruneRoutes")
          /\ routeFiles' = IF j = 1 THEN routeFiles
                           ELSE [routeFiles EXCEPT ![name] = SavedRouteFiles]
          /\ UNCHANGED ifFiles
       \/ routes # {} /\ Fault

PruneRoutes ==
    /\ pc = "pruneRoutes"
    /\ IF routes = {} THEN UNCHANGED files ELSE Prune(routeFile)
    /\ IF j = 1 THEN Go(pc, 2) ELSE Done
    /\ UNCHANGED mem

-----------------------------------------------------------------------------
(* Processes *)

\* The process ends, in the middle of a call or not.
Exit ==
    /\ pc # "down"
    /\ pc' = "down" /\ j' = 1
    /\ ifFiles' = [n \in Iface |-> <<>>]
    /\ routeFiles' = [n \in Iface |-> [f \in {4, 6} |-> Absent]]
    /\ ret' = IF pc = "idle" THEN ret ELSE "crashed"
    /\ UNCHANGED <<files, faulted>> /\ Rest

newNetworkScripts ==
    /\ pc = "down"
    /\ ifFiles' = ReadIfFiles(disk) /\ routeFiles' = ReadRouteFiles(disk)
    /\ pc' = "idle" /\ j' = 1 /\ ret' = "none" /\ faulted' = FALSE
    /\ pre' = [disk |-> disk, ifFiles |-> ifFiles', routeFiles |-> routeFiles', faulted |-> FALSE]
    /\ UNCHANGED <<files, new, call, calls>>

Init ==
    /\ disk \in Dirs
    /\ tmp = [f \in Files |-> Absent] /\ bak = [f \in Files |-> <<>>]
    /\ ifFiles = ReadIfFiles(disk) /\ routeFiles = ReadRouteFiles(disk)
    /\ pc = "idle" /\ j = 1 /\ ret = "none" /\ calls = 0 /\ faulted = FALSE
    /\ new = NoKeys
    /\ call = [op |-> "none", iface |-> CHOOSE n \in Iface : TRUE, asked |-> {}]
    /\ pre = [disk |-> disk, ifFiles |-> ifFiles, routeFiles |-> routeFiles, faulted |-> FALSE]

Next ==
    \/ SetIfaceAddresses \/ SetIfaceDHCP \/ SetIfaceDNS \/ SetIfaceRoutes
    \/ WriteConfig \/ Backup \/ Install \/ PruneBackups
    \/ WriteRoutes \/ BackupRoutes \/ InstallRoutes \/ PruneRoutes
    \/ Exit \/ newNetworkScripts

Spec == Init /\ [][Next]_vars

-----------------------------------------------------------------------------
(* Properties *)

\* At every step of a call and however it ends, the text of a file it changed or took away
\* is the newest backup of that file, unless an earlier call of this process had failed: a
\* route file that call put in place, but did not record, is overwritten.
NothingIsLost ==
    \A f \in Files :
        \/ disk[f] = pre.disk[f]
        \/ pre.disk[f] = Absent
        \/ pre.faulted
        \/ bak[f] # <<>> /\ bak[f][1] = pre.disk[f]

\* A call reports an error only when a system call has failed since the directory was
\* read: it never trips over files an earlier success merged away or removed.
NoSpuriousError == pc = "idle" /\ ret = "error" => faulted

SharedKeys(ifs) ==
    UNION {UNION {DOMAIN ifs[m].config \cap DOMAIN ifs[n].config : n \in DOMAIN ifs \ {m}} :
              m \in DOMAIN ifs}

\* Some file has a key that it does not read, for want of another that other files have.
FillsGap(ifs, keys, first) ==
    \E n \in DOMAIN ifs, h \in DOMAIN keys :
        /\ keys[h] \in DOMAIN ifs[n].config
        /\ ~ \A m \in first .. h : keys[m] \in DOMAIN ifs[n].config
        /\ \A m \in first .. h : \E q \in DOMAIN ifs : keys[m] \in DOMAIN ifs[q].config

\* Addresses are numbered up over the files: merging the files reorders no list and
\* fills no gap.
InOrder(ifs) ==
    /\ \A keys \in {AddressKey, <<"IPV6ADDR", "IPV6ADDR_SECONDARIES">>} :
          \A m, n \in DOMAIN ifs, g, h \in DOMAIN keys :
              m < n /\ keys[g] \in DOMAIN ifs[m].config /\ keys[h] \in DOMAIN ifs[n].config
              => g <= h
    /\ ~FillsGap(ifs, AddressKey, 4) /\ ~FillsGap(ifs, ServerKey, 1)

Asked(view) ==
    CASE call.op = "addresses" -> [view EXCEPT !.addresses = call.asked]
      [] call.op = "dhcp" -> [view EXCEPT !.dhcp = call.asked]
      [] call.op = "dns" -> [view EXCEPT !.servers = call.asked]
      [] call.op = "routes" -> [view EXCEPT !.routes = call.asked]

\* After a call that returned without error, and with no failure before it, a process
\* started now reports what the call asked for and the rest as this one reported it,
\* aliases included.  Not so for files of one interface that both set a key, which are
\* merged into the first value of it, nor for an alias file sorted before a file of lower
\* numbers, whose addresses change places, nor for one that continues the numbers of another
\* file, which is not read before they are merged.
ReadsBackAsAsked ==
    pc = "idle" /\ ret = "ok" /\ ~faulted =>
        \A n \in Iface :
            LET before == View(pre.ifFiles[n], pre.routeFiles[n])
                after  == View(ReadIfFiles(disk)[n], ReadRouteFiles(disk)[n])
            IN  IF n # name THEN after = before
                ELSE /\ SharedKeys(pre.ifFiles[n]) = {}
                     /\ InOrder(pre.ifFiles[n])
                     => after = Asked(before)
=============================================================================
