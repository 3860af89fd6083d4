-------------------------------- MODULE Panels --------------------------------
(****************************************************************************)
(* The hosting panels on Linux (cpanel.go, plesk_linux.go, interworx.go)    *)
(* when an address comes, goes or becomes the primary.  A panel is driven   *)
(* by commands, one a step, of which any may fail; what it does by itself   *)
(* is not modelled, and one history has one panel, which nobody else uses.  *)
(*                                                                          *)
(* "shared" holds the addresses sites are moved to first: cPanel's main     *)
(* address, Plesk's type S, InterWorx's shared ones.  "main" holds the rows *)
(* of Plesk's IP_Addresses with the main flag.                              *)
(****************************************************************************)
EXTENDS Integers, FiniteSets

CONSTANTS
    IP4, IP6,
    Private,        \* addresses for which net.IP.IsPrivate holds
    Mapped,         \* those of them the panel lists with a public address
    Sites,          \* accounts or domains
    NoIP,
    PanelHosts,     \* the panels a history may start from
    MaxNotices      \* bound on the number of calls in a history

IP == IP4 \cup IP6
Family(ip) == IF ip \in IP4 THEN IP4 ELSE IP6

ASSUME PanelsAssumption ==
    /\ IP4 \cap IP6 = {} /\ Mapped \subseteq Private /\ Private \subseteq IP
    /\ NoIP \notin IP /\ IP # {} /\ MaxNotices \in Nat
    /\ PanelHosts \subseteq [kind : {"cpanel", "plesk", "interworx"}, ips : SUBSET IP,
                             shared : SUBSET IP, sites : [Sites -> SUBSET IP]]
    /\ \A h \in PanelHosts : h.shared \subseteq h.ips

VARIABLES
    kind,
    bound,          \* the addresses of the system
    listed,         \* the addresses the panel has
    shared, main,   \* those with a mark
    conf,           \* cPanel's wwwacct.conf: ADDR and ADDR6
    sites,          \* the addresses of each site
    step, notice, l, outcome,
    notices,        \* the number of calls
    before          \* ghost: listed and sites when the call began

panel == <<kind, listed, shared, main, conf, sites>>
panelsVars ==
    <<kind, bound, listed, shared, main, conf, sites, step, notice, l, outcome, notices, before>>

addr == notice.addr
On(s) == addr \in sites[s]

-----------------------------------------------------------------------------
(* Steps of a call *)

L0 == [todo |-> {}, target |-> NoIP, check |-> FALSE, refused |-> FALSE]

Tell(op, label) ==
    /\ step = "idle" /\ notices < MaxNotices
    /\ notice' \in [op : {op}, addr : IP]
    /\ before' = [listed |-> listed, sites |-> sites]
    /\ notices' = notices + 1
    /\ step' = label /\ l' = L0 /\ outcome' = "running"
    /\ UNCHANGED panel

Frame == UNCHANGED <<kind, bound, notice, notices, before>>
Go(label) == step' = label /\ UNCHANGED <<l, outcome>> /\ Frame
Finish(r) == step' = "idle" /\ outcome' = r /\ UNCHANGED l /\ Frame

\* A command fails, and its error is returned.
Fails == Finish("error") /\ UNCHANGED panel

-----------------------------------------------------------------------------
(* removeIP *)

\* The system has lost the address when the panel is told.
RemoveIP ==
    /\ Tell("remove", "list")
    /\ notice'.addr \in bound /\ bound' = bound \ {notice'.addr}

Candidates == {ip \in listed : ip \in Family(addr) /\ ip # addr}
Public(ips) == (ips \ Private) \cup (ips \cap Mapped)
Preferred == Candidates \cap (IF kind = "interworx" THEN shared \ Private ELSE shared)

\* A shared address, else a public one, else any of the family.
Targets ==
    IF Preferred # {} THEN Preferred
    ELSE IF Public(Candidates) # {} THEN Public(Candidates) ELSE Candidates

Listed(todo, target, check) ==
    /\ l' = [L0 EXCEPT !.todo = todo, !.target = target, !.check = check]
    /\ step' = "move" /\ UNCHANGED <<outcome, panel>> /\ Frame

cpanelIPv6 == kind = "cpanel" /\ addr \in IP6

\* cPanel moves IPv4 accounts to its main address, and has the main address checked
\* if there is none but possibly the one that went.
ListOnCpanel ==
    /\ step = "list" /\ kind = "cpanel" /\ addr \in IP4
    /\ \/ \E target \in Targets :
             Listed(Sites, target, Preferred = {})
       \/ Fails

\* listaccts searches by pattern, so it may show more accounts than those affected.
\* Another IPv6 address of one of them takes over, if there is one.
ListOnCpanelIPv6 ==
    /\ step = "list" /\ cpanelIPv6
    /\ \/ \E found \in SUBSET Sites :
             LET others == (IP6 \cap UNION {sites[s] : s \in found}) \ {addr}
             IN  /\ {s \in Sites : On(s)} \subseteq found
                 /\ \E target \in IF others = {} THEN {NoIP} ELSE others :
                        Listed(found, target, FALSE)
       \/ Fails

\* Plesk moves sites only off an address it lists with sites on it.
ListOnPlesk ==
    /\ step = "list" /\ kind = "plesk"
    /\ LET hosting == addr \in listed /\ \E s \in Sites : On(s)
       IN  \/ hosting /\ \E target \in Targets : Listed(Sites, target, FALSE)
           \/ ~hosting /\ Listed({}, NoIP, FALSE)
           \/ Fails

ListOnInterworx ==
    /\ step = "list" /\ kind = "interworx"
    /\ \/ \E target \in Targets : Listed(Sites, target, FALSE)
       \/ Fails

\* Mutant: Plesk's domains lose the address whether they have another or not.
MovedOff(s) ==
    LET rest == sites[s] \ {addr}
    IN  IF l.target = NoIP \/ kind = "plesk" THEN rest ELSE rest \cup {l.target}

\* Mutant: a missing replacement is written like any other.
MovedToNil(s) ==
    LET rest == sites[s] \ {addr}
    IN  IF kind = "plesk" /\ rest \cap Family(addr) # {} THEN rest ELSE rest \cup {l.target}

\* Plesk's domains keep to their other addresses of the family if they have any.
Moved(s) ==
    LET rest == sites[s] \ {addr}
    IN  IF l.target = NoIP \/ (kind = "plesk" /\ rest \cap Family(addr) # {})
        THEN rest ELSE rest \cup {l.target}

\* Mutant: what the search shows is taken for affected.
AffectedAsListed(s) == TRUE

Affected(s) == On(s)

NextSite(s) == l' = [l EXCEPT !.todo = @ \ {s}] /\ UNCHANGED <<step, outcome>> /\ Frame

\* moveSites, moveIPv6Sites and the migrator take the sites one by one.
MoveSite ==
    /\ step = "move"
    /\ \E s \in l.todo :
          \/ ~Affected(s) /\ NextSite(s) /\ UNCHANGED panel
          \/ /\ Affected(s) /\ NextSite(s)
             /\ sites' = [sites EXCEPT ![s] = Moved(s)]
             /\ UNCHANGED <<kind, listed, shared, main, conf>>

\* Mutant: an error is logged, and the other sites are moved.
MoveFailureLogged ==
    /\ step = "move" /\ (\E s \in l.todo : Affected(s) /\ NextSite(s)) /\ UNCHANGED panel

MoveFails == step = "move" /\ (\E s \in l.todo : Affected(s)) /\ Fails

\* cPanel's answer is logged, and says that the account was not moved.
MoveRefused ==
    /\ step = "move" /\ kind = "cpanel"
    /\ \E s \in l.todo :
          Affected(s) /\ l' = [l EXCEPT !.todo = @ \ {s}, !.refused = TRUE]
    /\ UNCHANGED <<step, outcome, panel>> /\ Frame

Forget ==
    /\ listed' = listed \ {addr} /\ shared' = shared \ {addr} /\ main' = main \ {addr}
    /\ UNCHANGED <<kind, conf, sites>>

\* cPanel's delip may fail and nobody minds; the others end with the release.
Release ==
    /\ step = "move" /\ l.todo = {}
    /\ \/ kind = "cpanel" /\ Go("reload") /\ (Forget \/ UNCHANGED panel)
       \/ kind # "cpanel" /\ Forget /\ Finish("ok")
       \/ kind # "cpanel" /\ Fails

\* The panel reads the system's addresses, and may drop idle ones that are gone.
Reread ==
    /\ \E gone \in SUBSET (listed \ bound) :
          /\ \A s \in Sites : sites[s] \cap gone = {}
          /\ listed' = (listed \ gone) \cup bound
          /\ shared' = shared \ gone /\ main' = main \ gone
    /\ UNCHANGED <<kind, conf, sites>>

ReloadInRemove ==
    /\ step = "reload" /\ notice.op = "remove"
    /\ \/ Reread /\ (IF l.check THEN Go("check") ELSE Finish("ok"))
       \/ Fails

\* mainipcheck makes one of the listed addresses the main one, or leaves it.
MainIPCheck ==
    /\ step = "check"
    /\ \/ /\ \E ips \in {shared} \cup {{ip} : ip \in listed \cap IP4} : shared' = ips
          /\ UNCHANGED <<kind, listed, main, conf, sites>> /\ Finish("ok")
       \/ Fails

-----------------------------------------------------------------------------
(* reload and setMainIP *)

AddIP == Tell("add", "reload") /\ notice'.addr \notin bound
         /\ bound' = bound \cup {notice'.addr}
PromoteIP == Tell("promote", "reload") /\ notice'.addr \in bound /\ bound' = bound

\* reloadPanels logs an error and goes on.
Reload ==
    /\ step = "reload" /\ notice.op # "remove"
    /\ Reread \/ UNCHANGED panel
    /\ IF notice.op = "promote" THEN Go("setMain") ELSE Finish("ok")

\* wwwacct.conf first, then the stored main address, which only IPv4 has.
SetMainOnCpanel ==
    /\ step = "setMain" /\ kind = "cpanel"
    /\ \/ /\ conf' = [conf EXCEPT ![IF addr \in IP4 THEN "ADDR" ELSE "ADDR6"] = addr]
          /\ Go(IF addr \in IP4 THEN "store" ELSE "check")
          /\ UNCHANGED <<kind, listed, shared, main, sites>>
       \/ Fails

StoreMain ==
    /\ step = "store"
    /\ \/ /\ shared' = {addr} /\ Go("check")
          /\ UNCHANGED <<kind, listed, main, conf, sites>>
       \/ Fails

Where(ips) == listed \cap ips

\* Mutant: every other row is demoted before the address is promoted.
PromoteLast == main' = main \cap {addr}

\* UPDATE ... SET main='true' WHERE ip_address='addr'
Promote == main' = main \cup Where({addr})

PromoteRow ==
    /\ step = "setMain" /\ kind = "plesk"
    /\ \/ Promote /\ Go("demote") /\ UNCHANGED <<kind, listed, shared, conf, sites>>
       \/ Fails

\* UPDATE ... SET main='false' WHERE ip_address<>'addr'
DemoteOthers ==
    /\ step = "demote"
    /\ \/ /\ main' = main \cap {addr} /\ Finish("ok")
          /\ UNCHANGED <<kind, listed, shared, conf, sites>>
       \/ Fails

SetMainOnInterworx ==
    step = "setMain" /\ kind = "interworx" /\ Finish("ok") /\ UNCHANGED panel

-----------------------------------------------------------------------------

PanelsInit ==
    /\ \E h \in PanelHosts :
          /\ kind = h.kind /\ bound = h.ips /\ listed = h.ips
          /\ shared = h.shared /\ sites = h.sites
          /\ main = IF h.kind = "plesk" THEN h.shared ELSE {}
    /\ conf = [d \in {"ADDR", "ADDR6"} |-> NoIP]
    /\ step = "idle" /\ l = L0 /\ outcome = "none" /\ notices = 0
    /\ notice \in {CHOOSE r \in [op : {"add"}, addr : IP] : TRUE}
    /\ before = [listed |-> listed, sites |-> sites]

PanelsNext ==
    \/ RemoveIP \/ ListOnCpanel \/ ListOnCpanelIPv6 \/ ListOnPlesk \/ ListOnInterworx
    \/ MoveSite \/ MoveFails \/ MoveRefused \/ Release \/ ReloadInRemove \/ MainIPCheck
    \/ AddIP \/ PromoteIP \/ Reload \/ SetMainOnCpanel \/ StoreMain
    \/ PromoteRow \/ DemoteOthers \/ SetMainOnInterworx

PanelsSpec == PanelsInit /\ [][PanelsNext]_panelsVars

-----------------------------------------------------------------------------
(* Properties *)

\* Every variable has its type.
PanelsTypeOK ==
    /\ kind \in {"cpanel", "plesk", "interworx"}
    /\ bound \subseteq IP /\ listed \subseteq IP
    /\ shared \subseteq IP /\ main \subseteq listed
    /\ conf \in [{"ADDR", "ADDR6"} -> IP \cup {NoIP}]
    /\ sites \in [Sites -> SUBSET IP]
    /\ step \in {"idle", "list", "move", "reload", "check", "setMain", "store", "demote"}
    /\ notice \in [op : {"add", "remove", "promote"}, addr : IP]
    /\ l \in [todo : SUBSET Sites, target : IP \cup {NoIP}, check : BOOLEAN,
              refused : BOOLEAN]
    /\ outcome \in {"none", "running", "ok", "error"}
    /\ before \in [listed : SUBSET IP, sites : [Sites -> SUBSET IP]] /\ notices \in Nat

\* However a removal ends, a site that had an address of a family has one still, of that
\* family; only cPanel's IPv6 accounts may be left without, if none has another.
SitesStayReachable ==
    \A s \in Sites, f \in {IP4, IP6} :
        before.sites[s] \cap f # {} /\ sites[s] \cap f = {} =>
            /\ cpanelIPv6 /\ f = IP6
            /\ \A t \in Sites :
                  addr \in before.sites[t] => before.sites[t] \cap IP6 \subseteq {addr}

\* A removal moves only the sites on the address, and only to an address of its family
\* that the panel or a site already had.
OnlyAffectedMove ==
    \A s \in Sites : sites[s] # before.sites[s] =>
        /\ notice.op = "remove" /\ addr \in before.sites[s]
        /\ sites[s] \ before.sites[s] \subseteq
              (Family(addr) \ {addr})
                  \cap (before.listed \cup UNION {before.sites[t] : t \in Sites})

\* No panel gives an address up with a site still on it, unless cPanel declined to move
\* the site: an answer the code logs without looking at its result.
ReleasedWhenEmpty ==
    [][\A ip \in listed \ listed' :
          (\A s \in Sites : ip \notin sites[s]) \/ (ip = addr /\ l.refused)]_panelsVars

\* A promotion never leaves Plesk without a main address while it lists the new one.
AlwaysAMain ==
    [][(step \in {"setMain", "demote"} /\ kind = "plesk" /\ addr \in listed /\ main # {})
          => (main' # {})]_panelsVars
=============================================================================
