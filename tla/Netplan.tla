------------------------------- MODULE Netplan -------------------------------
(****************************************************************************)
(* The netplan backend (netplan.go): the directory is read once, when the   *)
(* configurator is made, and held in memory; each Set* call changes it      *)
(* there and then Save rewrites the files whose configuration is dirty, one *)
(* after the other.  Any system call of Save may fail and the process may   *)
(* die between two of them; a new process reads what is on disk.            *)
(*                                                                          *)
(* A stanza is one key of "ethernets", "wifis", "bridges", "bonds" or       *)
(* "vlans" with the settings a Set* call writes; sections npConfig does not *)
(* know are one flag of a text, since a rewrite drops them.                 *)
(****************************************************************************)
EXTENDS ConfigFiles

CONSTANTS
    FileOrder,      \* the file names, sorted
    Key,            \* stanza keys
    Iface,
    NameOf,         \* the interface a stanza configures: set-name, or its key
    Addresses, Gateways, Routes, Servers,   \* values the settings may have
    Unset,          \* the setting is not there
    Nil,            \* the nil net.IP
    Dirs,           \* directories a history may start from
    MaxCalls        \* bound on the number of Set* calls in a history

Stanza == [addresses : Addresses \cup {Unset}, gateway : Gateways \cup {Unset},
           dhcp : {"on", "off", Unset}, routes : Routes \cup {Unset},
           nameservers : Servers \cup {Unset}]

Stanzas == UNION {[ks -> Stanza] : ks \in SUBSET Key}
Text == [net : Stanzas, unknown : BOOLEAN]

ASSUME NetplanAssumption ==
    /\ NameOf \in [Key -> Iface]
    /\ FileOrder \in Seq(Files) /\ Files = {FileOrder[m] : m \in DOMAIN FileOrder}
    /\ \A m, n \in DOMAIN FileOrder : FileOrder[m] = FileOrder[n] => m = n
    /\ Dirs \subseteq [Files -> Text \cup {Absent}]
    /\ MaxCalls \in Nat

VARIABLES
    configs,        \* np.configs: file, net, dirty, empty
    pc, i,          \* the step of Save and the configuration it is at
    target, ret,    \* the interface of the last call and its result
    calls,
    \* ghosts: the world when the call began; a system call failed since the read
    pre, faulted

vars == <<disk, tmp, bak, configs, pc, i, target, ret, calls, pre, faulted>>

-----------------------------------------------------------------------------
(* Reading the directory *)

Empty == {Unset, "off"}

\* mergo.Merge fills what is empty in dst, and false is empty.
Filled(dst, src) == [s \in DOMAIN dst |-> IF dst[s] \in Empty /\ src[s] # Unset
                                          THEN src[s] ELSE dst[s]]

\* Mutant: only the later of two files with the same key is marked.
AbsorbUnmarked(c, net) ==
    [c EXCEPT !.net = [k \in DOMAIN @ |->
                        IF k \in DOMAIN net THEN Filled(@[k], net[k]) ELSE @[k]]]

\* A configuration read earlier takes over the keys it shares with this file.
Absorb(c, net) ==
    IF DOMAIN c.net \cap DOMAIN net = {} THEN c
    ELSE [c EXCEPT !.dirty = TRUE,
                   !.net = [k \in DOMAIN @ |->
                        IF k \in DOMAIN net THEN Filled(@[k], net[k]) ELSE @[k]]]

KeysOf(cs) == UNION {DOMAIN cs[n].net : n \in DOMAIN cs}

\* Mutant: the file the keys were taken from is not marked.
ReadFileUnmarked(cs, f, net) ==
    LET own == DOMAIN net \ KeysOf(cs)
    IN  Append([n \in DOMAIN cs |-> Absorb(cs[n], net)],
               [file |-> f, net |-> [k \in own |-> net[k]],
                empty |-> own = {}, dirty |-> FALSE])

\* What is left to a file after the merge; a file with nothing left is empty.
ReadFile(cs, f, net) ==
    LET own == DOMAIN net \ KeysOf(cs)
    IN  Append([n \in DOMAIN cs |-> Absorb(cs[n], net)],
               [file |-> f, net |-> [k \in own |-> net[k]],
                empty |-> own = {}, dirty |-> own # DOMAIN net])

\* What the first m names in order have given.
ReadUpTo(d) ==
    LET read[m \in 0 .. Len(FileOrder)] ==
            IF m = 0 THEN <<>>
            ELSE IF d[FileOrder[m]] = Absent THEN read[m - 1]
            ELSE ReadFile(read[m - 1], FileOrder[m], d[FileOrder[m]].net)
    IN  read

readNetplanConfigDirectory(d) == ReadUpTo(d)[Len(FileOrder)]

\* The stanzas of a list of configurations, whose keys are disjoint.
Merged(cs) ==
    [k \in KeysOf(cs) |-> cs[CHOOSE n \in DOMAIN cs : k \in DOMAIN cs[n].net].net[k]]

\* What a new process would make of the directory.
Effective(d) == Merged(readNetplanConfigDirectory(d))

-----------------------------------------------------------------------------
(* The Set* calls *)

Unchanged == UNCHANGED <<target, calls, pre>>

\* A nil gateway leaves the setting out.
TextOf(gateway) == IF gateway = Nil THEN Unset ELSE gateway

\* setDHCP: switching off a client that was never mentioned leaves it unmentioned.
SetDHCP(old, on) == IF on THEN "on" ELSE IF old = Unset THEN Unset ELSE "off"

\* Every stanza of the interface in a configuration that is not empty is changed, and
\* the configuration marked.
Changed(cs, iface, Change(_)) ==
    [n \in DOMAIN cs |->
        IF \A k \in DOMAIN cs[n].net : NameOf[k] # iface THEN cs[n]
        ELSE [cs[n] EXCEPT !.dirty = TRUE,
                           !.net = [k \in DOMAIN @ |->
                              IF NameOf[k] = iface THEN Change(@[k]) ELSE @[k]]]]

Set(iface, Change(_)) ==
    /\ pc = "idle" /\ calls < MaxCalls
    /\ configs' = Changed(configs, iface, Change)
    /\ pre' = [disk |-> disk, configs |-> configs]
    /\ target' = iface /\ calls' = calls + 1
    /\ pc' = "save" /\ i' = 1 /\ ret' = "running"
    /\ UNCHANGED <<files, faulted>>

SetIfaceAddresses ==
    \E iface \in Iface, a \in Addresses \cup {Unset}, g \in Gateways \cup {Nil} :
        Set(iface, LAMBDA s : [s EXCEPT !.addresses = a, !.gateway = TextOf(g)])

SetIfaceDHCP ==
    \E iface \in Iface, on \in BOOLEAN :
        Set(iface, LAMBDA s : [s EXCEPT !.dhcp = SetDHCP(@, on)])

SetIfaceRoutes ==
    \E iface \in Iface, r \in Routes \cup {Unset} :
        Set(iface, LAMBDA s : [s EXCEPT !.routes = r])

SetIfaceDNS ==
    \E iface \in Iface, d \in Servers \cup {Unset} :
        Set(iface, LAMBDA s : [s EXCEPT !.nameservers = d])

-----------------------------------------------------------------------------
(* Save *)

config == configs[i]

\* A system call fails and Save returns its error.
Fault == ret' = "error" /\ pc' = "idle" /\ faulted' = TRUE
         /\ UNCHANGED <<files, configs, i>> /\ Unchanged

Go(label) == pc' = label /\ UNCHANGED <<configs, i, ret, faulted>> /\ Unchanged

\* Mutant: every configuration is saved, touched or not.
NeedsSaveAlways(c) == TRUE

NeedsSave(c) == c.dirty

SkipClean ==
    /\ pc = "save" /\ i <= Len(configs) /\ ~NeedsSave(config)
    /\ i' = i + 1
    /\ UNCHANGED <<files, configs, pc, ret, faulted>> /\ Unchanged

WriteConfig ==
    /\ pc = "save" /\ i <= Len(configs) /\ NeedsSave(config)
    /\ \/ config.empty /\ Go("backup") /\ UNCHANGED files
       \/ ~config.empty /\ WriteTmp(config.file, [net |-> config.net, unknown |-> FALSE]) /\ Go("backup")
       \/ ~config.empty /\ Fault

Backup ==
    /\ pc = "backup"
    /\ \/ MoveToBackup(config.file) /\ Go(IF config.empty THEN "prune" ELSE "install")
       \/ Fault

\* ENOENT: an earlier Save moved the file away and did not get any further.
BackupMissing ==
    /\ pc = "backup" /\ disk[config.file] = Absent
    /\ ret' = "error" /\ pc' = "idle"
    /\ UNCHANGED <<files, configs, i, faulted>> /\ Unchanged

Install ==
    /\ pc = "install"
    /\ \/ MoveInPlace(config.file) /\ Go("prune")
       \/ Fault

PruneBackups ==
    /\ pc = "prune"
    /\ Prune(config.file)
    /\ configs' = [configs EXCEPT ![i].dirty = @ /\ config.empty]
    /\ i' = i + 1 /\ pc' = "save"
    /\ UNCHANGED <<ret, faulted>> /\ Unchanged

\* Those of the first m configurations that are not left to be forgotten.
KeptUpTo(cs) ==
    LET kept[m \in 0 .. Len(cs)] ==
            IF m = 0 THEN <<>>
            ELSE IF cs[m].dirty /\ cs[m].empty THEN kept[m - 1]
            ELSE Append(kept[m - 1], cs[m])
    IN  kept

\* Mutant: a configuration whose file was removed stays in the list.
KeptAll(cs) == cs

Kept(cs) == KeptUpTo(cs)[Len(cs)]

Cleanup ==
    /\ pc = "save" /\ i > Len(configs)
    /\ configs' = Kept(configs)
    /\ pc' = "idle" /\ ret' = "ok" /\ i' = 1
    /\ UNCHANGED <<files, faulted>> /\ Unchanged

-----------------------------------------------------------------------------
(* Processes *)

\* The process ends, in the middle of a call or not.
Exit ==
    /\ pc # "down"
    /\ pc' = "down" /\ configs' = <<>> /\ i' = 1
    /\ ret' = IF pc = "idle" THEN ret ELSE "crashed"
    /\ UNCHANGED <<files, faulted>> /\ Unchanged

\* newNetplan fails when the directory has no configuration.
newNetplan ==
    /\ pc = "down" /\ \E f \in Files : disk[f] # Absent
    /\ configs' = readNetplanConfigDirectory(disk)
    /\ pc' = "idle" /\ i' = 1 /\ faulted' = FALSE /\ ret' = "none"
    /\ pre' = [disk |-> disk, configs |-> configs']
    /\ UNCHANGED <<files, target, calls>>

Init ==
    /\ disk \in Dirs
    /\ tmp = [f \in Files |-> Absent] /\ bak = [f \in Files |-> <<>>]
    /\ configs = readNetplanConfigDirectory(disk)
    /\ pc = "idle" /\ i = 1 /\ ret = "none" /\ calls = 0 /\ faulted = FALSE
    /\ target \in {CHOOSE n \in Iface : TRUE}
    /\ pre = [disk |-> disk, configs |-> configs]

Next ==
    \/ SetIfaceAddresses \/ SetIfaceDHCP \/ SetIfaceRoutes \/ SetIfaceDNS
    \/ SkipClean \/ WriteConfig \/ Backup \/ BackupMissing \/ Install
    \/ PruneBackups \/ Cleanup \/ Exit \/ newNetplan

Spec == Init /\ [][Next]_vars

-----------------------------------------------------------------------------
(* Properties *)

AtRest == pc \in {"idle", "down"}

\* Once a Set* call returns without error, a process started now reads back what this
\* one holds: nothing merged away during parsing, and nothing an earlier call failed to
\* write, is left to differ.
SavedIsRead == pc = "idle" /\ ret = "ok" => Effective(disk) = Merged(configs)

Removed == {f \in Files : pre.disk[f] # Absent /\ disk[f] = Absent}

\* However a call ends, the text of a file it took away is the newest backup of that
\* file, and at most one of the files was not removed on purpose (its keys merged away).
OneFileAtRisk ==
    /\ \A f \in Removed : bak[f] # <<>> /\ bak[f][1] = pre.disk[f]
    /\ \A f, g \in {x \in Removed : \E n \in DOMAIN pre.configs :
                      pre.configs[n].file = x /\ ~pre.configs[n].empty} : f = g

\* However a call for one interface ends, the stanza of any other interface on which disk
\* and process agreed reads as it did, unless it was in the one file at risk.
OthersKept ==
    AtRest => \A k \in DOMAIN Effective(pre.disk) :
        \/ NameOf[k] = target
        \/ Effective(pre.disk)[k] # Merged(pre.configs)[k]
        \/ \E n \in DOMAIN pre.configs :
               pre.configs[n].file \in Removed /\ k \in DOMAIN pre.configs[n].net
        \/ k \in DOMAIN Effective(disk) /\ Effective(disk)[k] = Effective(pre.disk)[k]

\* A file with no stanza of the interface that shares no key with another file is left
\* alone, empty fragments and sections this library does not know included.
UntouchedFilesKept ==
    AtRest /\ ~faulted =>
        \A f \in Files :
            (/\ pre.disk[f] # Absent
             /\ \A k \in DOMAIN pre.disk[f].net :
                   /\ NameOf[k] # target
                   /\ \A g \in Files \ {f} :
                         pre.disk[g] # Absent => k \notin DOMAIN pre.disk[g].net)
            => disk[f] = pre.disk[f]

\* A Set* call reports an error only when a system call has failed since the directory
\* was read: Save never trips over the outcome of its own earlier work.
NoSpuriousError == pc = "idle" /\ ret = "error" => faulted
=============================================================================
