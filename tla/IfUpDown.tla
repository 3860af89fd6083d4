------------------------------ MODULE IfUpDown ------------------------------
(****************************************************************************)
(* The ifupdown backend (ifupdown.go): /etc/network/interfaces and the      *)
(* files it sources are read once; all stanzas of an interface become one   *)
(* in memory, and Save copies each file of the interface line by line,      *)
(* leaving its stanzas out and putting the one in their place.              *)
(*                                                                          *)
(* A file is a sequence of stanzas, "auto" lines and "source" lines; only   *)
(* the main file sources others, and no two files have the same base name.  *)
(* The two gateways are one setting, and search domains go with the         *)
(* servers.  Static stands for every method without a rule of its own.      *)
(****************************************************************************)
EXTENDS ConfigFiles

CONSTANTS
    Base,           \* /etc/network/interfaces
    Iface,
    Addr4, Addr6, Gateways, Servers, Routes,
    AddressLists, ServerLists, RouteLists,  \* the arguments of the calls
    Nil,            \* no such thing, or the nil net.IP
    Dirs,           \* the files a history may start from
    MaxCalls        \* bound on the number of Set* calls in a history

Addresses == Addr4 \cup Addr6
Families == {"inet", "inet6"}
Mode == [fam : Families, method : {"static", "dhcp", "ppp", "loopback"}]

Stanza ==
    [kind : {"iface"}, iface : Iface, mode : Mode \cup {Nil},
     addrs : Seq(Addresses),    \* its "address" lines
     extra : Seq(Addresses),    \* its "up ip addr add" lines
     gateway : Gateways \cup {Nil}, dns : Seq(Servers), routes : Seq(Routes)]
Line == Stanza \cup [kind : {"auto"}, names : SUBSET Iface]
               \cup [kind : {"source"}, file : Files \ {Base}]
Text == Seq(Line)

\* ifInterface, as the files of it are read.
Interface ==
    [mode : Mode \cup {Nil}, dhcp : BOOLEAN, ppp : BOOLEAN, files : Seq(Files),
     addrs : Seq(Addresses), gateway : Gateways \cup {Nil}, dns : Seq(Servers),
     routes : Seq(Routes)]

ASSUME IfUpDownAssumption ==
    /\ Base \in Files /\ Addr4 \cap Addr6 = {}
    /\ Absent \notin Text /\ Nil \notin Mode \cup Interface
    /\ Iface # {}
    /\ AddressLists \subseteq Seq(Addresses)
    /\ ServerLists \subseteq Seq(Servers)
    /\ RouteLists \subseteq Seq(Routes)
    /\ Dirs \subseteq [Files -> Text \cup {Absent}]
    /\ MaxCalls \in Nat

VARIABLES
    ifs,            \* i.Interfaces by name, or Nil
    pc, i,          \* the step of Save and the file of the interface it is at
    req, ret,       \* the call and its result
    calls,
    \* ghosts: the files when the call began; a system call failed since the read
    pre, faulted

vars == <<disk, tmp, bak, ifs, pc, i, req, ret, calls, pre, faulted>>

-----------------------------------------------------------------------------
(* Reading *)

NewInterface ==
    [mode |-> Nil, dhcp |-> FALSE, ppp |-> FALSE, files |-> <<Base>>, addrs |-> <<>>,
     gateway |-> Nil, dns |-> <<>>, routes |-> <<>>]

\* EnsureInterface: one not seen before will be written to the main file.
Ensured(m, n) == IF m[n] = Nil THEN [m EXCEPT ![n] = NewInterface] ELSE m

\* Mutant: a file is listed once per stanza.
WithFileAgain(fs, f) == Append(fs, f)

WithFile(fs, f) == IF f \in ToSet(fs) THEN fs ELSE Append(fs, f)

\* Mutant: the address read last is not appended.
AddressesButLast(s) == IF s.addrs = <<>> THEN s.extra ELSE Front(s.addrs) \o s.extra

\* An address is appended when the next one, or the end of the stanza, is read, but one
\* of an "up" line at once: the last "address" comes after those.
AddressesOf(s) == IF s.addrs = <<>> THEN s.extra
                  ELSE Front(s.addrs) \o s.extra \o <<Last(s.addrs)>>

\* What one more stanza makes of an interface.
Extended(r, f, s) ==
    [mode |-> s.mode,
     dhcp |-> r.dhcp \/ (s.mode # Nil /\ s.mode.method = "dhcp"),
     ppp |-> r.ppp \/ (s.mode # Nil /\ s.mode.method = "ppp"),
     files |-> WithFile(r.files, f),
     addrs |-> r.addrs \o AddressesOf(s),
     gateway |-> IF s.gateway = Nil THEN r.gateway ELSE s.gateway,
     dns |-> r.dns \o s.dns,
     routes |-> r.routes \o s.routes]

ReadStanza(m, f, s) == [Ensured(m, s.iface) EXCEPT ![s.iface] = Extended(@, f, s)]

\* The interfaces when the first k lines of a sourced file are read.
ReadUpTo(m, f, text) ==
    LET read[k \in 0..Len(text)] ==
            IF k = 0 THEN m
            ELSE IF text[k].kind = "iface" THEN ReadStanza(read[k - 1], f, text[k])
            ELSE read[k - 1]
    IN  read

ReadSourced(m, f, text) == ReadUpTo(m, f, text)[Len(text)]

\* The interfaces when the first k lines of the main file are read.
ReadMainUpTo(d) ==
    LET read[k \in 0..Len(d[Base])] ==
            IF k = 0 THEN [n \in Iface |-> Nil]
            ELSE LET x == d[Base][k]
                 IN  CASE x.kind = "iface" -> ReadStanza(read[k - 1], Base, x)
                       [] x.kind = "source" -> ReadSourced(read[k - 1], x.file, d[x.file])
                       [] x.kind = "auto" -> read[k - 1]
    IN  read

ReadFile(d) == ReadMainUpTo(d)[Len(d[Base])]

\* A file that cannot be opened fails the whole backend.
Readable(d) ==
    /\ d[Base] # Absent
    /\ \A n \in DOMAIN d[Base] :
          d[Base][n].kind = "source" => d[d[Base][n].file] # Absent

-----------------------------------------------------------------------------
(* Writing *)

FamilyOf(a) == IF a \in Addr4 THEN "inet" ELSE "inet6"

IsFirst(s, k) == \A m \in 1..k - 1 : FamilyOf(s[m]) # FamilyOf(s[k])

\* Among the first k addresses of a list, those that are the first of their family, which
\* get an "address" line, and the others, which get an "up" line.
PartedUpTo(s) ==
    LET part[k \in 0..Len(s)] ==
            IF k = 0 THEN [addrs |-> <<>>, extra |-> <<>>]
            ELSE IF IsFirst(s, k) THEN [part[k - 1] EXCEPT !.addrs = Append(@, s[k])]
            ELSE [part[k - 1] EXCEPT !.extra = Append(@, s[k])]
    IN  part

Parted(s) == PartedUpTo(s)[Len(s)]

Write(n) ==
    LET r == ifs[n]
    IN  [kind |-> "iface", iface |-> n, mode |-> r.mode,
         addrs |-> Parted(r.addrs).addrs, extra |-> Parted(r.addrs).extra,
         gateway |-> r.gateway, dns |-> r.dns, routes |-> r.routes]

IsOwn(x, n) == x.kind = "iface" /\ x.iface = n

\* The lines that end the interface's stanzas, if they have not been written yet.
Ends(x, n) ==
    \/ x.kind = "auto" /\ n \in x.names
    \/ x.kind = "iface" /\ ~IsOwn(x, n)

Closes(a, x, n) == a.found /\ ~a.wrote /\ Ends(x, n)

\* Mutant: the flag is not reset when the stanza has been written.
CopyLineStillFound(a, x, n, first) ==
    LET b == IF Closes(a, x, n)
             THEN [a EXCEPT !.out = IF first THEN Append(@, Write(n)) ELSE @, !.wrote = TRUE]
             ELSE [a EXCEPT !.found = @ \/ IsOwn(x, n)]
    IN  IF b.found /\ x.kind # "auto" THEN b ELSE [b EXCEPT !.out = Append(@, x)]

CopyLine(a, x, n, first) ==
    LET b == IF Closes(a, x, n)
             THEN [out |-> IF first THEN Append(a.out, Write(n)) ELSE a.out,
                   found |-> FALSE, wrote |-> TRUE]
             ELSE [a EXCEPT !.found = @ \/ IsOwn(x, n)]
    IN  IF b.found /\ x.kind # "auto" THEN b ELSE [b EXCEPT !.out = Append(@, x)]

\* The copy of the first k lines of a text.
CopiedUpTo(text, n, first) ==
    LET copy[k \in 0..Len(text)] ==
            IF k = 0 THEN [out |-> <<>>, found |-> FALSE, wrote |-> FALSE]
            ELSE CopyLine(copy[k - 1], text[k], n, first)
    IN  copy

Copied(text, n, first) ==
    LET done == CopiedUpTo(text, n, first)[Len(text)]
    IN  IF done.wrote THEN done.out ELSE Append(done.out, Write(n))

\* A file that is there is copied; one that is not is begun anew.
NewText(f, n, first) ==
    IF disk[f] # Absent THEN Copied(disk[f], n, first)
    ELSE IF first THEN <<[kind |-> "auto", names |-> {n}], Write(n)>> ELSE <<>>

-----------------------------------------------------------------------------
(* The calls *)

Begin(op, n, on) ==
    /\ pc = "idle" /\ calls < MaxCalls
    /\ req' = [op |-> op, iface |-> n, on |-> on]
    /\ pre' = disk /\ calls' = calls + 1 /\ i' = 1
    /\ UNCHANGED <<files, faulted>>

SaveWith(m) == ifs' = m /\ pc' = "write" /\ ret' = "running"
Refuse(m) == ifs' = m /\ ret' = "refused" /\ UNCHANGED pc

Leased(r) == r.dhcp \/ r.ppp

\* An interface without a stanza is no error.
SetIfaceAddresses ==
    \E n \in Iface, addrs \in AddressLists, g \in Gateways \cup {Nil} :
        /\ Begin("SetIfaceAddresses", n, {})
        /\ \/ ifs[n] = Nil /\ ret' = "ok" /\ UNCHANGED <<ifs, pc>>
           \/ ifs[n] # Nil /\ Leased(ifs[n]) /\ Refuse(ifs)
           \/ /\ ifs[n] # Nil /\ ~Leased(ifs[n])
              /\ SaveWith([ifs EXCEPT ![n].addrs = addrs, ![n].gateway = g])

SetIfaceRoutes ==
    \E n \in Iface, routes \in RouteLists :
        /\ Begin("SetIfaceRoutes", n, {})
        /\ \/ ifs[n] = Nil /\ ret' = "ok" /\ UNCHANGED <<ifs, pc>>
           \/ ifs[n] # Nil /\ Leased(ifs[n]) /\ Refuse(ifs)
           \/ /\ ifs[n] # Nil /\ ~Leased(ifs[n])
              /\ SaveWith([ifs EXCEPT ![n].routes = routes])

SetIfaceDNS ==
    \E n \in Iface, servers \in ServerLists :
        LET m == Ensured(ifs, n)
        IN  /\ Begin("SetIfaceDNS", n, {})
            /\ \/ Leased(m[n]) /\ Refuse(m)
               \/ ~Leased(m[n]) /\ SaveWith([m EXCEPT ![n].dns = servers])

\* Mutant: the other family is not looked at.
RefusesOwnOnly(r, on) ==
    \/ r.ppp
    \/ r.mode = Nil /\ on = Families
    \/ r.mode # Nil /\ r.mode.method \in {"loopback", "ppp"}

\* setDHCP: a stanza has one family, and some methods are not to be switched.
Refuses(r, on) ==
    \/ r.ppp
    \/ r.mode = Nil /\ on = Families
    \/ r.mode # Nil /\ (on \ {r.mode.fam} # {} \/ r.mode.method \in {"loopback", "ppp"})

Switched(r, on) ==
    CASE r.mode = Nil ->
            [r EXCEPT !.mode = IF on = {} THEN [fam |-> "inet", method |-> "static"]
                               ELSE [fam |-> CHOOSE f \in on : TRUE, method |-> "dhcp"],
                      !.dhcp = on # {}]
      [] r.mode # Nil /\ on # {} /\ r.mode.method # "dhcp" ->
            [r EXCEPT !.mode.method = "dhcp", !.dhcp = TRUE]
      [] r.mode # Nil /\ on = {} /\ r.mode.method = "dhcp" ->
            [r EXCEPT !.mode.method = "static", !.dhcp = FALSE]
      [] OTHER -> r

\* The lease brings addresses and gateways; those of the stanza go.
SetIfaceDHCP ==
    \E n \in Iface, on \in SUBSET Families :
        LET m == Ensured(ifs, n)
            r == Switched(m[n], on)
        IN  /\ Begin("SetIfaceDHCP", n, on)
            /\ \/ Refuses(m[n], on) /\ Refuse(m)
               \/ /\ ~Refuses(m[n], on)
                  /\ SaveWith([m EXCEPT ![n] = IF on = {} THEN r
                        ELSE [r EXCEPT !.addrs = <<>>, !.gateway = Nil]])

-----------------------------------------------------------------------------
(* Save *)

fileList == ifs[req.iface].files
file == fileList[i]
Frame == UNCHANGED <<ifs, req, calls, pre>>
Go(label) == pc' = label /\ UNCHANGED <<i, ret>> /\ Frame

\* Mutant: the error is logged and the next file's turn comes.
FaultLogged ==
    /\ pc' = "write" /\ i' = i + 1 /\ faulted' = TRUE
    /\ UNCHANGED <<files, ret>> /\ Frame

\* A system call fails, and Save returns its error.
Fault ==
    /\ pc' = "idle" /\ ret' = "error" /\ faulted' = TRUE
    /\ UNCHANGED <<files, i>> /\ Frame

\* The lines are written without a look at the errors: a disk that fills up leaves a
\* shorter text, and Save goes on.
WriteConfig ==
    /\ pc = "write" /\ i <= Len(fileList)
    /\ LET text == NewText(file, req.iface, i = 1)
           next == IF disk[file] = Absent THEN "install" ELSE "backup"
       IN  \/ WriteTmp(file, text) /\ Go(next) /\ UNCHANGED faulted
           \/ /\ \E k \in 0..Len(text) - 1 : WriteTmp(file, SubSeq(text, 1, k))
              /\ Go(next) /\ faulted' = TRUE
           \/ Fault

Backup ==
    /\ pc = "backup"
    /\ \/ MoveToBackup(file) /\ Go("install") /\ UNCHANGED faulted
       \/ Fault

Install ==
    /\ pc = "install"
    /\ \/ MoveInPlace(file) /\ Go("prune") /\ UNCHANGED faulted
       \/ Fault

PruneBackups ==
    /\ pc = "prune"
    /\ Prune(file)
    /\ i' = i + 1 /\ pc' = "write"
    /\ UNCHANGED <<ret, faulted>> /\ Frame

Return ==
    /\ pc = "write" /\ i > Len(fileList)
    /\ pc' = "idle" /\ ret' = "ok"
    /\ UNCHANGED <<files, i, faulted>> /\ Frame

\* The process ends, in the middle of a call or not.
Exit ==
    /\ pc # "down"
    /\ pc' = "down" /\ ifs' = [n \in Iface |-> Nil] /\ i' = 1
    /\ ret' = IF pc = "idle" THEN ret ELSE "crashed"
    /\ UNCHANGED <<files, req, calls, pre, faulted>>

newIfUpDown ==
    /\ pc = "down" /\ Readable(disk)
    /\ ifs' = ReadFile(disk)
    /\ pc' = "idle" /\ ret' = "none" /\ faulted' = FALSE /\ pre' = disk
    /\ UNCHANGED <<files, i, req, calls>>

Init ==
    /\ disk \in Dirs /\ Readable(disk)
    /\ tmp = [f \in Files |-> Absent] /\ bak = [f \in Files |-> <<>>]
    /\ ifs = ReadFile(disk)
    /\ pc = "idle" /\ i = 1 /\ ret = "none" /\ calls = 0 /\ faulted = FALSE
    /\ req = [op |-> "none", iface |-> CHOOSE n \in Iface : TRUE, on |-> {}]
    /\ pre = disk

Next ==
    \/ SetIfaceAddresses \/ SetIfaceRoutes \/ SetIfaceDNS \/ SetIfaceDHCP
    \/ WriteConfig \/ Backup \/ Install \/ PruneBackups \/ Return \/ Exit \/ newIfUpDown

Spec == Init /\ [][Next]_vars

-----------------------------------------------------------------------------
(* Properties *)

Succeeded == pc = "idle" /\ ret = "ok" /\ ~faulted

\* What a process started now makes of the interface of the last call.
Reread == ReadFile(disk)[req.iface]

\* Once a call for an interface that has stanzas in the main file only returns without
\* error, a new process reads back what this one holds, but for two things: the order of
\* addresses (PrimaryStays), and a lease of a stanza that was not the last.  setDHCP looks
\* at the last one's method, so turning DHCP off leaves isDHCP set and this process goes on
\* refusing addresses, routes and servers, where the next one would take them.
ReadsBackAsHeld ==
    Succeeded /\ ifs[req.iface] # Nil =>
        LET held == ifs[req.iface]
        IN  held.files = <<Base>> =>
                /\ Reread.mode = held.mode /\ Reread.gateway = held.gateway
                /\ Reread.dns = held.dns /\ Reread.routes = held.routes
                /\ ToSet(Reread.addrs) = ToSet(held.addrs)
                /\ Len(Reread.addrs) = Len(held.addrs)
                /\ (Reread.ppp <=> held.ppp) /\ (Reread.dhcp => held.dhcp)
                /\ held.dhcp => Reread.dhcp \/ (req.op = "SetIfaceDHCP" /\ req.on = {})

\* SetIfaceDHCP reports success only when the files then say what was asked of both
\* families, and never drops half of a request.
DHCPAsAsked ==
    Succeeded /\ req.op = "SetIfaceDHCP" =>
        req.on = IF Reread.mode # Nil /\ Reread.dhcp THEN {Reread.mode.fam} ELSE {}

\* The lines of a text that are not the interface's, in their order.
OthersUpTo(text, n) ==
    LET others[k \in 0..Len(text)] ==
            IF k = 0 THEN <<>>
            ELSE IF IsOwn(text[k], n) THEN others[k - 1] ELSE Append(others[k - 1], text[k])
    IN  others

Others(text, n) == OthersUpTo(text, n)[Len(text)]

\* The interface's stanzas come one after the other, without a line among them that ends
\* them, and no "source" line follows before one that does.
Together(text, n) ==
    \A a \in DOMAIN text : IsOwn(text[a], n) =>
        \A b \in a..Len(text) :
            /\ Ends(text[b], n) => \A c \in b..Len(text) : ~IsOwn(text[c], n)
            /\ text[b].kind = "source" => \E c \in a..b : Ends(text[c], n)

\* A call copies every other line of the interface's files in order, wherever its
\* stanzas are together.
OthersKept ==
    Succeeded => \A f \in Files : pre[f] # Absent /\ Together(pre[f], req.iface) =>
        disk[f] # Absent /\ Others(disk[f], req.iface) = Others(pre[f], req.iface)

\* However a call ends, a file it changed has what it said as the newest backup, and at
\* most one file is away.
NothingIsLost ==
    LET Gone == {f \in Files : pre[f] # Absent /\ disk[f] = Absent}
    IN  /\ \A f \in Files : pre[f] # Absent /\ disk[f] # pre[f] =>
              bak[f] # <<>> /\ bak[f][1] = pre[f]
        /\ \A f, g \in Gone : f = g

-----------------------------------------------------------------------------
(* What the documentation says and the code does not do *)

\* The first address of a family the files list for the interface.
Primary(d, fam) ==
    LET stanzas == SelectSeq(d[Base], LAMBDA x : IsOwn(x, req.iface))
        listed == FlattenSeq([n \in DOMAIN stanzas |-> stanzas[n].addrs \o stanzas[n].extra])
        own == SelectSeq(listed, LAMBDA a : FamilyOf(a) = fam)
    IN  IF own = <<>> THEN Nil ELSE own[1]

\* README.md:265: the first address listed is the primary, which only SetPrimaryAddress
\* changes.  Setting servers or routes leaves it alone.
PrimaryStays ==
    Succeeded /\ req.op \in {"SetIfaceDNS", "SetIfaceRoutes"} =>
        \A fam \in Families : Primary(disk, fam) = Primary(pre, fam)
=============================================================================
