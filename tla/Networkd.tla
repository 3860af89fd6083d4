------------------------------ MODULE Networkd ------------------------------
(****************************************************************************)
(* The systemd-networkd backend (networkd.go): each .network file is read   *)
(* with the drop-ins of its .d directory into one list of sections, which   *)
(* the Set* calls edit and write back as one file.                          *)
(*                                                                          *)
(* The networks of an interface are edited and saved one after the other,   *)
(* so a Save that fails leaves the later ones as they were.  The directory  *)
(* holds no .conf file of its own; the two IP families of a gateway and of  *)
(* the DHCP client are one, and search domains go with the servers.         *)
(****************************************************************************)
EXTENDS ConfigFiles, FiniteSets

CONSTANTS
    FileOrder,      \* the file names, sorted
    Iface,
    NameOf,         \* the interface a file's [Match] names, or Nil
    Addresses, Gateways, Servers, Routes,
    AddressLists, ServerLists, RouteLists,  \* the arguments of the calls
    Nil,            \* no such thing, or the nil net.IP
    Dirs,           \* the directories a history may start from
    MaxCalls        \* bound on the number of Set* calls in a history

\* DHCP= is a key of [Network].
Section ==
    [kind : {"Network"}, addrs : Seq(Addresses), gws : Seq(Gateways), dns : Seq(Servers),
     dhcp : {"on", "off", Nil}]
    \cup [kind : {"Address"}, addrs : Seq(Addresses), gws : Seq(Gateways),
          dns : Seq(Servers), dhcp : {Nil}]
    \cup [kind : {"Route"}, route : Routes]
Text == Seq(Section)

ASSUME NetworkdAssumption ==
    /\ NameOf \in [Files -> Iface \cup {Nil}]
    /\ FileOrder \in Seq(Files)
    /\ \A m, n \in DOMAIN FileOrder : FileOrder[m] = FileOrder[n] => m = n
    /\ \A f \in Files : \E n \in DOMAIN FileOrder : FileOrder[n] = f
    /\ Absent \notin Text
    /\ Nil \notin {"on", "off"} /\ Nil \notin [text : Text, subs : Nat]
    /\ AddressLists \subseteq Seq(Addresses)
    /\ ServerLists \subseteq Seq(Servers)
    /\ RouteLists \subseteq Seq(Routes)
    /\ \A d \in Dirs : /\ d.main \in [Files -> Text \cup {Absent}]
                       /\ d.dropins \in [Files -> Seq(Text)]
    /\ MaxCalls \in Nat

VARIABLES
    dropins,        \* the texts in each file's .d directory
    networks,       \* nd.Networks: sections and number of SubFiles, or Nil
    pc, i,          \* the step of the call and the file it is at
    req, ret,       \* the call and its result
    calls,
    \* ghosts: the world when the call began; a system call failed since the read
    pre, faulted

vars == <<disk, tmp, bak, dropins, networks, pc, i, req, ret, calls, pre, faulted>>

-----------------------------------------------------------------------------
(* Reading *)

\* LoadSources keeps sections of the same name apart and in order.
Parsed(f) == disk[f] \o FlattenSeq(dropins[f])

Networks(text) == {n \in DOMAIN text : text[n].kind = "Network"}
FirstNetwork(text) == CHOOSE n \in Networks(text) : \A m \in Networks(text) : n <= m

\* Files that name no interface are skipped.
readNetworkdConfigDirectory ==
    [f \in Files |-> IF disk[f] = Absent \/ NameOf[f] = Nil THEN Nil
                     ELSE [text |-> Parsed(f), subs |-> Len(dropins[f])]]

\* One file without a [Network] section and the whole directory is refused.
Readable ==
    /\ \E f \in Files : disk[f] # Absent /\ NameOf[f] # Nil
    /\ \A f \in Files : disk[f] # Absent => Networks(Parsed(f)) # {}

-----------------------------------------------------------------------------
(* Editing *)

\* The values a section has for a key.
Values(section, key) ==
    IF section.kind = "Route" THEN IF key = "route" THEN <<section.route>> ELSE <<>>
    ELSE CASE key = "addrs" -> section.addrs
           [] key = "gws" -> section.gws
           [] key = "dns" -> section.dns
           [] key = "dhcp" -> IF section.dhcp = Nil THEN <<>> ELSE <<section.dhcp>>
           [] OTHER -> <<>>

\* The values the sections have for it together.
Said(text, key) == FlattenSeq([n \in DOMAIN text |-> Values(text[n], key)])

Without(text, kind) ==
    FlattenSeq([n \in DOMAIN text |-> IF text[n].kind = kind THEN <<>> ELSE <<text[n]>>])

\* Mutant: only the servers of the [Network] section are carried over.
AddressesDroppingServers(text, addrs, gateway) ==
    LET kept == Without(text, "Address")
    IN  [kept EXCEPT ![FirstNetwork(kept)] =
            [@ EXCEPT !.addrs = addrs, !.gws = IF gateway = Nil THEN <<>> ELSE <<gateway>>]]

\* The [Address] sections go, and the first [Network] section gets the addresses, the
\* gateway, and the servers of all of them.
WithAddresses(text, addrs, gateway) ==
    LET kept == Without(text, "Address")
    IN  [kept EXCEPT ![FirstNetwork(kept)] =
            [@ EXCEPT !.addrs = addrs, !.gws = IF gateway = Nil THEN <<>> ELSE <<gateway>>,
                      !.dns = Said(text, "dns")]]

\* setNetworkdDHCP: the key goes rather than being written as "no".
WithDHCP(text, on) ==
    [text EXCEPT ![FirstNetwork(text)].dhcp = IF on THEN "on" ELSE Nil]

WithRoutes(text, routes) ==
    Without(text, "Route") \o [n \in DOMAIN routes |-> [kind |-> "Route", route |-> routes[n]]]

WithServers(text, servers) ==
    [n \in DOMAIN text |->
        IF text[n].kind = "Route" THEN text[n]
        ELSE [text[n] EXCEPT !.dns = IF n = FirstNetwork(text) THEN servers ELSE <<>>]]

Edited(text) ==
    CASE req.op = "SetIfaceAddresses" -> WithAddresses(text, req.addrs, req.gateway)
      [] req.op = "SetIfaceDHCP" -> WithDHCP(text, req.on)
      [] req.op = "SetIfaceRoutes" -> WithRoutes(text, req.routes)
      [] req.op = "SetIfaceDNS" -> WithServers(text, req.servers)

-----------------------------------------------------------------------------
(* The calls *)

Requests ==
    [op : {"SetIfaceAddresses"}, iface : Iface, addrs : AddressLists,
     gateway : Gateways \cup {Nil}]
    \cup [op : {"SetIfaceDHCP"}, iface : Iface, on : BOOLEAN]
    \cup [op : {"SetIfaceRoutes"}, iface : Iface, routes : RouteLists]
    \cup [op : {"SetIfaceDNS"}, iface : Iface, servers : ServerLists]

file == FileOrder[i]
network == networks[file]
Mine(f) == networks[f] # Nil /\ NameOf[f] = req.iface

Call(op) ==
    /\ pc = "idle" /\ calls < MaxCalls
    /\ req' \in {r \in Requests : r.op = op}
    /\ pre' = [disk |-> disk, networks |-> networks]
    /\ calls' = calls + 1
    /\ pc' = "loop" /\ i' = 1 /\ ret' = "running"
    /\ UNCHANGED <<files, dropins, networks, faulted>>

SetIfaceAddresses == Call("SetIfaceAddresses")
SetIfaceDHCP == Call("SetIfaceDHCP")
SetIfaceRoutes == Call("SetIfaceRoutes")
SetIfaceDNS == Call("SetIfaceDNS")

Frame == UNCHANGED <<dropins, req, calls, pre>>
\* Mutant: the error is logged and the next network's turn comes.
FaultLogged ==
    /\ pc' = "loop" /\ i' = i + 1 /\ faulted' = TRUE
    /\ UNCHANGED <<files, networks, ret>> /\ Frame

Go(label) == pc' = label /\ UNCHANGED <<i, networks, ret, faulted>> /\ Frame
Fails == pc' = "idle" /\ ret' = "error" /\ UNCHANGED <<files, i, networks>> /\ Frame

\* A system call fails, and Save returns its error.
Fault == Fails /\ faulted' = TRUE

SkipNetwork ==
    /\ pc = "loop" /\ i <= Len(FileOrder) /\ ~Mine(file)
    /\ i' = i + 1
    /\ UNCHANGED <<files, networks, pc, ret, faulted>> /\ Frame

EditNetwork ==
    /\ pc = "loop" /\ i <= Len(FileOrder) /\ Mine(file)
    /\ networks' = [networks EXCEPT ![file].text = Edited(@)]
    /\ pc' = "write"
    /\ UNCHANGED <<files, i, ret, faulted>> /\ Frame

WriteConfig ==
    /\ pc = "write"
    /\ \/ WriteTmp(file, network.text) /\ Go("backup")
       \/ Fault

\* Save looks for the drop-ins in the directory itself: ENOENT.
BackupDropIn ==
    /\ pc = "backup" /\ network.subs > 0
    /\ Fails /\ UNCHANGED faulted

Backup ==
    /\ pc = "backup" /\ network.subs = 0
    /\ \/ MoveToBackup(file) /\ Go("install")
       \/ Fault

\* ENOENT: an earlier Save moved the file away and did not get any further.
BackupMissing ==
    /\ pc = "backup" /\ network.subs = 0 /\ disk[file] = Absent
    /\ Fails /\ UNCHANGED faulted

Install ==
    /\ pc = "install"
    /\ \/ MoveInPlace(file) /\ Go("prune")
       \/ Fault

PruneBackups ==
    /\ pc = "prune"
    /\ Prune(file)
    /\ networks' = [networks EXCEPT ![file].subs = 0]
    /\ i' = i + 1 /\ pc' = "loop"
    /\ UNCHANGED <<ret, faulted>> /\ Frame

Return ==
    /\ pc = "loop" /\ i > Len(FileOrder)
    /\ pc' = "idle" /\ ret' = "ok"
    /\ UNCHANGED <<files, i, networks, faulted>> /\ Frame

\* The process ends, in the middle of a call or not.
Exit ==
    /\ pc # "down"
    /\ pc' = "down" /\ networks' = [f \in Files |-> Nil] /\ i' = 1
    /\ ret' = IF pc = "idle" THEN ret ELSE "crashed"
    /\ UNCHANGED <<files, faulted>> /\ Frame

newNetworkd ==
    /\ pc = "down" /\ Readable
    /\ networks' = readNetworkdConfigDirectory
    /\ pc' = "idle" /\ i' = 1 /\ ret' = "none" /\ faulted' = FALSE
    /\ pre' = [disk |-> disk, networks |-> networks']
    /\ UNCHANGED <<files, dropins, req, calls>>

Init ==
    /\ \E d \in Dirs : disk = d.main /\ dropins = d.dropins
    /\ Readable
    /\ tmp = [f \in Files |-> Absent] /\ bak = [f \in Files |-> <<>>]
    /\ networks = readNetworkdConfigDirectory
    /\ pc = "idle" /\ i = 1 /\ ret = "none" /\ calls = 0 /\ faulted = FALSE
    /\ req \in {CHOOSE r \in Requests : r.op = "SetIfaceDHCP"}
    /\ pre = [disk |-> disk, networks |-> networks]

Next ==
    \/ SetIfaceAddresses \/ SetIfaceDHCP \/ SetIfaceRoutes \/ SetIfaceDNS
    \/ SkipNetwork \/ EditNetwork \/ WriteConfig \/ BackupDropIn \/ Backup
    \/ BackupMissing \/ Install \/ PruneBackups \/ Return \/ Exit \/ newNetworkd

Spec == Init /\ [][Next]_vars

-----------------------------------------------------------------------------
(* Properties *)

\* What the sections of a file say together, repeated ones included.
Configured(text) ==
    LET dhcp == Said(text, "dhcp")
    IN  [addrs |-> Said(text, "addrs"), gws |-> Said(text, "gws"), dns |-> Said(text, "dns"),
         dhcp |-> dhcp # <<>> /\ Last(dhcp) = "on", routes |-> Said(text, "route")]

\* The same with what the call asks for put in its place.
Asked(old) ==
    CASE req.op = "SetIfaceAddresses" ->
            [old EXCEPT !.addrs = req.addrs,
                        !.gws = IF req.gateway = Nil THEN <<>> ELSE <<req.gateway>>]
      [] req.op = "SetIfaceDHCP" -> [old EXCEPT !.dhcp = req.on]
      [] req.op = "SetIfaceRoutes" -> [old EXCEPT !.routes = req.routes]
      [] req.op = "SetIfaceDNS" -> [old EXCEPT !.dns = req.servers]

WrittenAsAsked(f) == Configured(disk[f]) = Asked(Configured(pre.networks[f].text))

\* Once a call returns without error, the files of its interface say what was asked and
\* keep everything else they said, servers of [Address] sections included; for files
\* with one [Network] section, as the settings of a second one are never edited.
CallDoesItsPart ==
    pc = "idle" /\ ret = "ok" =>
        \A f \in Files :
            Mine(f) /\ Cardinality(Networks(pre.networks[f].text)) = 1 => WrittenAsAsked(f)

Gone == {f \in Files : pre.disk[f] # Absent /\ disk[f] = Absent}

\* However a call ends, at most one file is away, and its text is its newest backup.
OneFileAtRisk ==
    /\ \A f \in Gone : bak[f] # <<>> /\ bak[f][1] = pre.disk[f]
    /\ \A f, g \in Gone : f = g
=============================================================================
