-------------------------- MODULE LinuxConfigurator --------------------------
(****************************************************************************)
(* AddAddress, SetPrimaryAddress and RemoveAddress of configurator_linux.go *)
(* on one interface: every netlink call that changes the kernel is a step,  *)
(* any of them may fail, and the process may die between two of them.       *)
(*                                                                          *)
(* The kernel's lists and the lists handed to the backends are split by     *)
(* family, since only the order inside a family means anything (its first   *)
(* address is the primary).  The kernel lists a new IPv6 address before the *)
(* others and a new IPv4 one behind the first; the code appends to its own  *)
(* list in both families.  Link-local addresses never enter the lists; the  *)
(* one place they count is RemoveAddress's search for an address that still *)
(* reaches the gateway (the field ll of opts).                              *)
(****************************************************************************)
EXTENDS Integers, Sequences, SequencesExt

CONSTANTS
    IP4, IP6,       \* non-link-local addresses of each family
    Prefix,         \* prefix lengths (the Mask of a *net.IPNet)
    Gw4, Gw6,       \* gateways of each family
    LinkLocalGw,    \* the gateways that are link-local
    OnLink,         \* pairs <<address, gateway>>: the prefix contains the gateway
    Nil, Zero,      \* "no gateway", and the 0.0.0.0 or :: that asks to remove it
    NBackends,      \* ifaceBackends are numbered in registration order
    Panels,         \* registered control panels
    Options,        \* the option records NewConfigurator may have been given
    Interfaces,     \* the interface states a history may start from
    MaxCalls        \* bound on the number of API calls in a history

Fam == {"v4", "v6"}
IP == IP4 \cup IP6
Gw == Gw4 \cup Gw6
Addr == [ip : IP, pfx : Prefix]
Backends == 1..NBackends
NewestFirst == {"v6"}
FamOf(ip) == IF ip \in IP4 THEN "v4" ELSE "v6"
GwOf(f) == IF f = "v4" THEN Gw4 ELSE Gw6

ASSUME ConfiguratorAssumption ==
    /\ IP4 \cap IP6 = {} /\ IP # {} /\ Prefix # {}
    /\ LinkLocalGw \subseteq Gw
    /\ Nil \notin Gw /\ Zero \notin Gw /\ Nil # Zero
    /\ NBackends \in Nat /\ MaxCalls \in Nat
    /\ Options \subseteq [check : BOOLEAN, allowPrimary : BOOLEAN,
                          skipPanels : BOOLEAN, ll : BOOLEAN]
    /\ Interfaces \subseteq [up : BOOLEAN, addrs : [Fam -> Seq(Addr)],
                             gw : [Fam -> Gw \cup {Nil}]]

VARIABLES
    up, addrs, gw,  \* the kernel: link flag, addresses in order, default routes
    disk,           \* what each backend has persisted
    panel,          \* what each panel believes: its IPs and its main IP
    opts,           \* options of the configurator, fixed for a history
    pc, req, l,     \* the call in progress: next step, arguments, locals
    ret, pre,       \* result of the last call, and the world when it began
    calls           \* API calls so far

kernel == <<up, addrs, gw>>
vars == <<up, addrs, gw, disk, panel, opts, pc, req, l, ret, pre, calls>>

-----------------------------------------------------------------------------
(* Address lists *)

Has(s, ip) == \E i \in DOMAIN s : s[i].ip = ip
IndexOf(s, ip) == CHOOSE i \in DOMAIN s : s[i].ip = ip
IPsOf(s) == {s[i].ip : i \in DOMAIN s}
Distinct(s) == \A i, j \in DOMAIN s : s[i].ip = s[j].ip => i = j
Without(s, ip) == IF Has(s, ip) THEN RemoveAt(s, IndexOf(s, ip)) ELSE s

\* AddAddress's own list: an address it has read gets the mask in place, a new one goes last.
Extended(s, a) ==
    IF Has(s, a.ip) THEN [s EXCEPT ![IndexOf(s, a.ip)] = a] ELSE Append(s, a)

\* reorderPrimaryAddress: the caller's own IPNet goes to the front.
Reordered(s, a) == <<a>> \o Without(s, a.ip)

-----------------------------------------------------------------------------
(* The kernel, as rtnetlink shows it *)

\* Some address of the list, or the link itself, reaches the gateway.
Reaches(s, g) == g \in LinkLocalGw \/ \E i \in DOMAIN s : <<s[i], g>> \in OnLink

\* Where a new address may be listed: IPv6 first; IPv4 behind the first, and not always
\* last, since the first address of each network comes before the others.
Places(f, s) == IF f \in NewestFirst \/ s = <<>> THEN {1} ELSE 2 .. Len(s) + 1

\* The lists there may be once an address is written: one that is held gets the prefix.
Replaced(s, a) ==
    IF Has(s, a.ip) THEN {[s EXCEPT ![IndexOf(s, a.ip)] = a]}
    ELSE {InsertAt(s, i, a) : i \in Places(FamOf(a.ip), s)}

\* AddrReplace, and AddrAdd of an address the interface does not hold.
AddrReplace(a) ==
    /\ \E list \in Replaced(addrs[FamOf(a.ip)], a) :
          addrs' = [addrs EXCEPT ![FamOf(a.ip)] = list]
    /\ UNCHANGED <<up, gw>>

\* AddrDel may take the default route along, when no address left reaches its gateway.
AddrDel(ip) ==
    LET f == FamOf(ip)
        rest == Without(addrs[f], ip)
    IN  /\ Has(addrs[f], ip)
        /\ addrs' = [addrs EXCEPT ![f] = rest]
        /\ \/ gw' = gw
           \/ /\ gw[f] # Nil /\ ~Reaches(rest, gw[f])
              /\ gw' = [gw EXCEPT ![f] = Nil]
        /\ up' = up

\* RouteAdd, RouteChange and RouteReplace reject a gateway no address reaches.
RouteSet(f, g) ==
    /\ up /\ Reaches(addrs[f], g)
    /\ gw' = [gw EXCEPT ![f] = g]
    /\ UNCHANGED <<up, addrs>>

RouteDel(f) == gw' = [gw EXCEPT ![f] = Nil] /\ UNCHANGED <<up, addrs>>

LinkSetUp == up' = TRUE /\ UNCHANGED <<addrs, gw>>
LinkSetDown == up' = FALSE /\ gw' = [f \in Fam |-> Nil] /\ UNCHANGED addrs

\* What the kernel shows of an interface: addresses and gateways under their own family,
\* an address once, and no route over a link that is down.
Sound(s) ==
    /\ \A f \in Fam : Distinct(s.addrs[f])
    /\ \A f \in Fam : \A i \in DOMAIN s.addrs[f] : FamOf(s.addrs[f][i].ip) = f
    /\ \A f \in Fam : s.gw[f] \in GwOf(f) \cup {Nil}
    /\ ~s.up => \A f \in Fam : s.gw[f] = Nil

ASSUME HostAssumption ==
    /\ Gw4 \cap Gw6 = {}
    /\ \A p \in OnLink : p[2] \in GwOf(FamOf(p[1].ip))
    /\ \A s \in Interfaces : Sound(s)

-----------------------------------------------------------------------------
(* Calls *)

Requests ==
    [op : {"AddAddress"}, addr : Addr, gw : Gw \cup {Nil, Zero}]
    \cup [op : {"SetPrimaryAddress", "RemoveAddress"}, addr : Addr, gw : {Nil}]

F == FamOf(req.addr.ip)

L0 == [raised |-> FALSE, exists |-> FALSE, orig |-> <<>>,
       list |-> [f \in Fam |-> <<>>], gws |-> [f \in Fam |-> Nil],
       gateway |-> Nil, origGw |-> Nil, added |-> FALSE,
       fam |-> <<>>, order |-> <<>>, undo |-> FALSE, i |-> 1]

Goto(label) == pc' = label
Frame == UNCHANGED <<disk, panel, opts, req, pre, calls>>
Run == Frame /\ UNCHANGED ret

\* Mutant: the deferred LinkSetDown is forgotten.
ReturnLinkLeftUp(r) == ret' = r /\ pc' = "idle" /\ l' = L0 /\ Frame

\* Return without having applied: a link raised by this call is put down first.
Return(r) ==
    /\ ret' = r
    /\ IF l.raised THEN pc' = "linkDown" /\ l' = l ELSE pc' = "idle" /\ l' = L0
    /\ Frame

\* A netlink call that fails changes nothing; the caller returns its error.
Fails == Return("error") /\ UNCHANGED kernel

Begin(op) ==
    /\ pc = "idle" /\ calls < MaxCalls
    /\ req' \in {r \in Requests : r.op = op}
    /\ pre' = [up |-> up, addrs |-> addrs, gw |-> gw, disk |-> disk, panel |-> panel]
    /\ calls' = calls + 1
    /\ UNCHANGED <<up, addrs, gw, disk, panel, opts>>

\* A guard of the code says no, or one of the reads a call begins with fails.
Refuse == pc' = "idle" /\ l' = L0 /\ ret' = "refused"

Proceed(label) == pc' = label /\ ret' = "running"

\* The deferred LinkSetDown of AddAddress: its failure is only logged.
LinkDown ==
    /\ pc = "linkDown"
    /\ LinkSetDown \/ UNCHANGED kernel
    /\ pc' = "idle" /\ l' = L0
    /\ Run

-----------------------------------------------------------------------------
(* AddAddress *)

AddAddress ==
    /\ Begin("AddAddress")
    /\ req'.gw \in GwOf(FamOf(req'.addr.ip)) \cup {Nil, Zero}
    /\ \/ Refuse
       \/ /\ req'.gw \in Gw => <<req'.addr, req'.gw>> \in OnLink
                               \/ req'.gw \in LinkLocalGw
          /\ l' = L0 /\ Proceed("linkUp")

EnsureLinkUp ==
    /\ pc = "linkUp"
    /\ \/ up /\ Goto("write") /\ UNCHANGED <<l, kernel>> /\ Run
       \/ ~up /\ LinkSetUp /\ Goto("write") /\ l' = [l EXCEPT !.raised = TRUE] /\ Run
       \/ ~up /\ Fails

\* Mutant: the snapshot shares its masks with the list AddAddress rewrites in place.
SharedSnapshot ==
    LET s == [f \in Fam |-> IF Has(addrs[f], req.addr.ip)
                            THEN Extended(addrs[f], req.addr) ELSE addrs[f]]
    IN  s["v4"] \o s["v6"]

\* origAddresses: a copy of what the interface held before the change.
Snapshot == addrs["v4"] \o addrs["v6"]

\* The snapshot, then AddrReplace of an address the interface has or AddrAdd of a new one.
WriteAddress ==
    /\ pc = "write"
    /\ \/ /\ AddrReplace(req.addr)
          /\ l' = [l EXCEPT !.exists = Has(addrs[F], req.addr.ip),
                            !.orig = Snapshot,
                            !.list = [addrs EXCEPT ![F] = Extended(@, req.addr)]]
          /\ Goto("routes") /\ Run
       \/ ~Has(addrs[F], req.addr.ip) /\ Return("refused") /\ UNCHANGED kernel
       \/ Fails

\* Mutant: the zero IP is taken for a gateway.
WantedWithZero == IF req.gw = Nil THEN gw[F] ELSE req.gw

\* The gateway to end with: nil keeps the one there is, the zero IP removes it.
Wanted == IF req.gw = Nil THEN gw[F] ELSE IF req.gw = Zero THEN Nil ELSE req.gw

\* Mutant: the scan stops at the first default route, IPv4's where there is one.
CapturedUntilFirst ==
    [f \in Fam |-> IF f = "v6" /\ gw["v4"] # Nil THEN Nil ELSE gw[f]]

\* The first default route of each family.
Captured == gw

\* The scan of the default routes: the family's own is kept, removed or repointed,
\* and the gateways of both families are captured for the backends.
ScanRoutes ==
    /\ pc = "routes"
    /\ \/ (req.gw = Nil \/ gw[F] = Nil) /\ UNCHANGED kernel
       \/ req.gw = Zero /\ gw[F] # Nil /\ RouteDel(F)
       \/ req.gw \in Gw /\ gw[F] # Nil /\ RouteSet(F, req.gw)
    /\ l' = [l EXCEPT !.origGw = gw[F], !.gateway = Wanted,
                      !.gws = IF gw[F] = Nil THEN Captured
                              ELSE [Captured EXCEPT ![F] = Wanted]]
    /\ Goto(IF Wanted = Nil THEN "persist" ELSE "gateway") /\ Run

ScanFails == pc = "routes" /\ Fails

\* Add the gateway where the family had none.
AddGateway ==
    /\ pc = "gateway"
    /\ LET next == IF opts.check THEN "test" ELSE "persist"
       IN  \/ l.gws[F] # Nil /\ Goto(next) /\ UNCHANGED <<l, kernel>> /\ Run
           \/ /\ l.gws[F] = Nil
              /\ RouteSet(F, l.gateway)
              /\ l' = [l EXCEPT !.added = TRUE, !.gws[F] = l.gateway]
              /\ Goto(next) /\ Run
           \/ l.gws[F] = Nil /\ Fails

TestAdd ==
    /\ pc = "test"
    /\ \/ Goto("persist") /\ UNCHANGED l
       \/ Goto(IF l.exists THEN "restore" ELSE "undoAdd") /\ l' = [l EXCEPT !.i = 1]
    /\ UNCHANGED kernel /\ Run

UndoAdd ==
    /\ pc = "undoAdd"
    /\ \/ AddrDel(req.addr.ip) /\ Goto("restore") /\ UNCHANGED l /\ Run
       \/ Fails

RestoreAddress ==
    /\ pc = "restore"
    /\ \/ /\ l.i <= Len(l.orig)
          /\ AddrReplace(l.orig[l.i])
          /\ l' = [l EXCEPT !.i = @ + 1]
          /\ UNCHANGED pc /\ Run
       \/ l.i <= Len(l.orig) /\ Fails
       \/ l.i > Len(l.orig) /\ Goto("restoreRoute") /\ UNCHANGED <<l, kernel>> /\ Run

\* The old default route comes back, or the added one goes; ESRCH is not an error.
RestoreRoute ==
    /\ pc = "restoreRoute"
    /\ \/ l.origGw # Nil /\ RouteSet(F, l.origGw) /\ Return("aborted")
       \/ l.origGw = Nil /\ RouteDel(F) /\ Return("aborted")
       \/ Fails

-----------------------------------------------------------------------------
(* SetPrimaryAddress *)

\* Mutant: the address goes back with the prefix the caller gave, not the one it had.
PromotedAsGiven ==
    LET f == FamOf(req'.addr.ip)
        s == addrs[f]
    IN  [L0 EXCEPT !.list = [addrs EXCEPT ![f] = Reordered(s, req'.addr)],
                   !.gws = Captured, !.fam = s, !.origGw = gw[f],
                   !.order = Reordered(s, req'.addr)]

\* What SetPrimaryAddress has read and put in order before it touches the kernel.
Promoted ==
    LET f == FamOf(req'.addr.ip)
        s == addrs[f]
    IN  [L0 EXCEPT !.list = [addrs EXCEPT ![f] = Reordered(s, req'.addr)],
                   !.gws = Captured, !.fam = s, !.origGw = gw[f],
                   !.order = Reordered(s, s[IndexOf(s, req'.addr.ip)])]

SetPrimaryAddress ==
    /\ Begin("SetPrimaryAddress")
    /\ LET s == addrs[FamOf(req'.addr.ip)]
       IN  \/ Refuse
           \/ /\ Has(s, req'.addr.ip)
              /\ l' = Promoted
              /\ Proceed(IF s[1].ip = req'.addr.ip THEN "persist" ELSE "delete")

\* reapply, first loop: every address of the family goes.
DeleteNext ==
    /\ pc = "delete"
    /\ \/ /\ l.i <= Len(l.fam)
          /\ AddrDel(l.fam[l.i].ip)
          /\ l' = [l EXCEPT !.i = @ + 1]
          /\ UNCHANGED pc /\ Run
       \/ l.i <= Len(l.fam) /\ Fails
       \/ /\ l.i > Len(l.fam)
          /\ l' = [l EXCEPT !.i = 1]
          /\ Goto("insert") /\ UNCHANGED kernel /\ Run

\* reapply, second loop: they are written in the order asked for, so an IPv6 family ends
\* with the one asked to be first as its last.
InsertNext ==
    /\ pc = "insert"
    /\ \/ /\ l.i <= Len(l.order)
          /\ AddrReplace(l.order[l.i])
          /\ l' = [l EXCEPT !.i = @ + 1]
          /\ UNCHANGED pc /\ Run
       \/ l.i <= Len(l.order) /\ Fails
       \/ /\ l.i > Len(l.order)
          /\ l' = [l EXCEPT !.i = 1]
          /\ Goto("reroute") /\ UNCHANGED kernel /\ Run

\* reapply, last part: restore the family's default route if it was dropped.
Reroute ==
    /\ pc = "reroute"
    /\ \/ l.origGw # Nil /\ gw[F] # l.origGw /\ RouteSet(F, l.origGw)
       \/ (l.origGw = Nil \/ gw[F] = l.origGw) /\ UNCHANGED kernel
    /\ IF l.undo
       THEN Return("aborted")
       ELSE /\ Goto(IF opts.check /\ l.origGw # Nil THEN "testPrimary" ELSE "persist")
            /\ UNCHANGED l /\ Run

RerouteFails == pc = "reroute" /\ l.origGw # Nil /\ Fails

\* Mutant: the restored order is put to the test again, for as long as it fails.
TestPrimaryForever ==
    /\ pc = "testPrimary"
    /\ \/ Goto("persist") /\ UNCHANGED l
       \/ Goto("delete") /\ l' = [l EXCEPT !.order = l.fam, !.i = 1]
    /\ UNCHANGED kernel /\ Run

\* Failing the test runs reapply again, with the order the kernel had.
TestPrimary ==
    /\ pc = "testPrimary"
    /\ \/ Goto("persist") /\ UNCHANGED l
       \/ Goto("delete") /\ l' = [l EXCEPT !.undo = TRUE, !.order = l.fam, !.i = 1]
    /\ UNCHANGED kernel /\ Run

-----------------------------------------------------------------------------
(* RemoveAddress *)

\* Mutant: the address about to go is counted as well.
RouteToGatewayNow(ip, g) ==
    \/ \E f \in Fam : \E i \in DOMAIN addrs[f] : <<addrs[f][i], g>> \in OnLink
    \/ g \in LinkLocalGw

\* Some other address of the interface, of either family, reaches the gateway.
RouteToGateway(ip, g) ==
    LET rest == [f \in Fam |-> Without(addrs[f], ip)]
    IN  \/ \E f \in Fam : \E i \in DOMAIN rest[f] :
               <<rest[f][i], g>> \in OnLink \/ g \in LinkLocalGw
        \/ opts.ll /\ g \in LinkLocalGw

\* Mutant: one primary for the whole interface, the first address of all.
FirstOfAll(ip) ==
    LET s == addrs["v4"] \o addrs["v6"] IN s # <<>> /\ s[1].ip = ip

\* primaryOfFamily: the family's first address in kernel order.
IsPrimary(ip) ==
    LET s == addrs[FamOf(ip)] IN s # <<>> /\ s[1].ip = ip

RemoveAddress ==
    /\ Begin("RemoveAddress")
    /\ LET ip == req'.addr.ip
           f == FamOf(ip)
           s == addrs[f]
       IN  \/ Refuse
           \/ /\ IsPrimary(ip) => opts.allowPrimary
              /\ gw[f] # Nil => RouteToGateway(ip, gw[f])
              /\ l' = [L0 EXCEPT
                        !.list = [addrs EXCEPT ![f] = Without(s, ip)],
                        !.gws = Captured,
                        !.orig = IF Has(s, ip) THEN <<s[IndexOf(s, ip)]>> ELSE <<>>]
              /\ Proceed(IF Has(s, ip) THEN "remove" ELSE "release")

\* Mutant: WithSkipPanels is not consulted.
ReleasedAlways(ok) ==
    [p \in Panels |-> [panel[p] EXCEPT !.ips = IF p \in ok THEN @ \ {req.addr.ip} ELSE @]]

\* removeIPFromPanels, where the panels in ok succeed and the others are logged.
Released(ok) ==
    IF opts.skipPanels THEN panel
    ELSE [p \in Panels |->
            [panel[p] EXCEPT !.ips = IF p \in ok THEN @ \ {req.addr.ip} ELSE @]]

\* Mutant: the panels are notified as soon as the address is gone.
DeleteAndRelease ==
    /\ pc = "remove"
    /\ AddrDel(req.addr.ip)
    /\ panel' = Released(Panels)
    /\ pc' = "testRemove"
    /\ UNCHANGED <<disk, opts, req, l, ret, pre, calls>>

DeleteAddress ==
    /\ pc = "remove"
    /\ \/ /\ AddrDel(req.addr.ip)
          /\ Goto(IF opts.check THEN "testRemove" ELSE "release")
          /\ UNCHANGED l /\ Run
       \/ Fails

TestRemove ==
    /\ pc = "testRemove"
    /\ Goto("release") \/ Goto("putBack")
    /\ UNCHANGED <<l, kernel>> /\ Run

\* The address comes back as a new one.
PutBack ==
    /\ pc = "putBack"
    /\ \/ AddrReplace(l.orig[1]) /\ Return("aborted")
       \/ Fails

-----------------------------------------------------------------------------
(* Backends and panels: failures are logged and change nothing else *)

\* removeIPFromPanels comes before the backends; any subset of the panels may fail.
ReleaseOnPanels ==
    /\ pc = "release"
    /\ \E ok \in SUBSET Panels : panel' = Released(ok)
    /\ Goto("persist")
    /\ UNCHANGED <<up, addrs, gw, disk, opts, req, l, ret, pre, calls>>

Conf == [addrs |-> l.list, gw |-> l.gws]

\* applyIfaceAddresses: each backend in turn writes its own file, or fails.
PersistNext ==
    /\ pc = "persist"
    /\ l.i <= NBackends
    /\ disk' = [disk EXCEPT ![l.i] = Conf] \/ disk' = disk
    /\ l' = [l EXCEPT !.i = @ + 1]
    /\ UNCHANGED <<up, addrs, gw, panel, opts, pc, req, ret, pre, calls>>

RuntimeIPs == UNION {IPsOf(addrs[f]) : f \in Fam}

\* reloadPanels, and setMainIPOnPanels after a promotion.
Finish ==
    /\ pc = "persist" /\ l.i > NBackends
    /\ \E reloaded, main \in SUBSET Panels :
          panel' = IF opts.skipPanels \/ req.op = "RemoveAddress" THEN panel
                   ELSE [p \in Panels |->
                          [ips |-> IF p \in reloaded THEN RuntimeIPs ELSE panel[p].ips,
                           main |-> IF p \in main /\ req.op = "SetPrimaryAddress"
                                    THEN req.addr.ip ELSE panel[p].main]]
    /\ pc' = "idle" /\ l' = L0 /\ ret' = "ok"
    /\ UNCHANGED <<up, addrs, gw, disk, opts, req, pre, calls>>

\* The process dies: no deferred call runs, kernel and files stay as they are.
Crash ==
    /\ pc # "idle"
    /\ pc' = "idle" /\ l' = L0 /\ ret' = "crashed"
    /\ UNCHANGED kernel /\ Frame

-----------------------------------------------------------------------------

Live == [addrs |-> addrs, gw |-> gw]

Init ==
    /\ opts \in Options
    /\ \E s \in Interfaces : up = s.up /\ addrs = s.addrs /\ gw = s.gw
    /\ disk = [b \in Backends |-> Live]
    /\ panel = [p \in Panels |-> [ips |-> RuntimeIPs, main |-> Nil]]
    /\ pc = "idle" /\ l = L0 /\ ret = "none" /\ calls = 0
    /\ req = [op |-> "none", addr |-> CHOOSE a \in Addr : TRUE, gw |-> Nil]
    /\ pre = [up |-> up, addrs |-> addrs, gw |-> gw, disk |-> disk, panel |-> panel]

Step ==
    \/ LinkDown \/ EnsureLinkUp \/ WriteAddress \/ ScanRoutes \/ ScanFails \/ AddGateway
    \/ TestAdd \/ UndoAdd \/ RestoreAddress \/ RestoreRoute
    \/ DeleteNext \/ InsertNext \/ Reroute \/ RerouteFails \/ TestPrimary
    \/ DeleteAddress \/ TestRemove \/ PutBack
    \/ ReleaseOnPanels \/ PersistNext \/ Finish

Next == AddAddress \/ SetPrimaryAddress \/ RemoveAddress \/ Step \/ Crash

Spec == Init /\ [][Next]_vars /\ WF_vars(Step)

-----------------------------------------------------------------------------
(* Properties *)

Locals ==
    [raised : BOOLEAN, exists : BOOLEAN, orig : Seq(Addr),
     list : [Fam -> Seq(Addr)], gws : [Fam -> Gw \cup {Nil}],
     gateway : Gw \cup {Nil}, origGw : Gw \cup {Nil}, added : BOOLEAN,
     fam : Seq(Addr), order : Seq(Addr), undo : BOOLEAN, i : Nat \ {0}]

Labels ==
    {"idle", "linkUp", "write", "routes", "gateway", "test", "undoAdd", "restore",
     "restoreRoute", "delete", "insert", "reroute", "testPrimary", "remove",
     "testRemove", "putBack", "release", "persist", "linkDown"}

Results == {"none", "running", "refused", "error", "aborted", "crashed", "ok"}

Confs == [addrs : [Fam -> Seq(Addr)], gw : [Fam -> Gw \cup {Nil}]]
Beliefs == [ips : SUBSET IP, main : IP \cup {Nil}]

Pre ==
    [up : BOOLEAN, addrs : [Fam -> Seq(Addr)], gw : [Fam -> Gw \cup {Nil}],
     disk : [Backends -> Confs], panel : [Panels -> Beliefs]]

KernelOK ==
    up \in BOOLEAN /\ addrs \in [Fam -> Seq(Addr)] /\ gw \in [Fam -> Gw \cup {Nil}]

StoresOK == disk \in [Backends -> Confs] /\ panel \in [Panels -> Beliefs]

CallOK ==
    /\ opts \in Options
    /\ pc \in Labels /\ ret \in Results
    /\ req \in Requests \cup [op : {"none"}, addr : Addr, gw : {Nil}]
    /\ l \in Locals
    /\ pre \in Pre
    /\ calls \in Nat

\* Every variable has its type.
TypeOK == KernelOK /\ StoresOK /\ CallOK

Returned(r) == pc = "idle" /\ ret = r

\* Every call returns: the loops over addresses and backends end, and a rollback is
\* not itself rolled back.
CallsReturn == pc # "idle" ~> pc = "idle"

\* A call that returns any error has written to no backend and told no panel anything.
FailurePersistsNothing ==
    pc = "idle" /\ ret \in {"refused", "error", "aborted"} =>
        disk = pre.disk /\ panel = pre.panel

\* What a backend is given is what the kernel holds at that moment: both default gateways,
\* the other family as it is, and of the family of the call the same addresses with their
\* prefixes, the IPv4 primary first.  (The prefix SetPrimaryAddress writes for the promoted
\* address is the caller's, which the kernel's may differ from.  The order of IPv6 addresses
\* is the kernel's after RemoveAddress only: the other two calls hand on an order of theirs.)
PersistOnlyRuntime ==
    [][\A b \in Backends : disk'[b] # disk[b] =>
          LET given == disk'[b].addrs
          IN  /\ disk'[b].gw = gw
              /\ \A f \in Fam : f # F \/ req.op = "RemoveAddress" => given[f] = addrs[f]
              /\ Len(given[F]) = Len(addrs[F]) /\ IPsOf(given[F]) = IPsOf(addrs[F])
              /\ \A i \in DOMAIN given[F] :
                    \/ given[F][i] \in ToSet(addrs[F])
                    \/ req.op = "SetPrimaryAddress" /\ given[F][i].ip = req.addr.ip
              /\ F = "v4" /\ addrs[F] # <<>> => given[F][1].ip = addrs[F][1].ip]_vars

\* Without WithAllowPrimaryRemoval no outcome of RemoveAddress but a crash or a failed
\* netlink call changes a family's primary address, except that an IPv6 address whose
\* removal is undone is listed first when it is back, wherever it was before.
PrimaryProtected ==
    (pc = "idle" /\ req.op = "RemoveAddress" /\ ~opts.allowPrimary
         /\ ret \in {"ok", "refused", "aborted"}) =>
        \A f \in Fam : pre.addrs[f] # <<>> =>
            /\ addrs[f] # <<>>
            /\ \/ addrs[f][1] = pre.addrs[f][1]
               \/ ret = "aborted" /\ f = "v6" /\ addrs[f][1].ip = req.addr.ip

\* A call that fails on a link it had to raise ends with the link down, unless putting
\* it down is itself what failed.
LinkReturnedDown ==
    [][(pc # "idle" /\ pc' = "idle" /\ ret' \in {"refused", "error", "aborted"}
          /\ up' # pre.up) => pc = "linkDown"]_vars

\* Panels are told only of what the kernel holds: an IP they gain is on the interface,
\* one they lose is not, their new main IP is on it, and if it is an IPv4 one it is the
\* primary (an IPv6 one that was promoted is listed last); and with WithSkipPanels they
\* are told nothing.
PanelsFollowRuntime ==
    [][\A p \in Panels : panel'[p] # panel[p] =>
          /\ ~opts.skipPanels
          /\ panel'[p].ips \ panel[p].ips \subseteq RuntimeIPs
          /\ (panel[p].ips \ panel'[p].ips) \cap RuntimeIPs = {}
          /\ panel'[p].main # panel[p].main =>
                /\ panel'[p].main \in RuntimeIPs
                /\ panel'[p].main \in IP4 => panel'[p].main = addrs["v4"][1].ip]_vars

-----------------------------------------------------------------------------
(* The calls as their caller sees them *)

\* Until a call returns, the caller's world is the one it found.
Seen == IF pc = "idle" THEN [addrs |-> addrs, gw |-> gw]
        ELSE [addrs |-> pre.addrs, gw |-> pre.gw]

Book == INSTANCE AddressBook WITH
            held <- Seen.addrs, route <- Seen.gw,
            asked <- req, answer <- IF pc = "idle" THEN ret ELSE "running"

\* The steps of a call, its rollback and its deferred LinkSetDown amount to one: the
\* interface holds what was asked for beside everything it held, or what it held before,
\* the primary of each family being the one the module AddressBook says; and an error or a
\* crash tears the family of the address only.
CallsAreAtomic == Book!Spec

=============================================================================
