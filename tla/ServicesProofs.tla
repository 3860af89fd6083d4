---------------------------- MODULE ServicesProofs ----------------------------
(****************************************************************************)
(* Proofs about the services that are told what to do, where the other      *)
(* backends write files.                                                    *)
(*                                                                          *)
(* NetworkManager: its stored profiles, for any interfaces, calls and       *)
(* failures; and Readiness, the wait before there is such a backend.        *)
(*                                                                          *)
(* ConfiguratorRoutes: what AddRoute and RemoveRoute leave in the backends, *)
(* and what SetDNS does to the host's resolver, for any addresses, routes,  *)
(* backends and servers.                                                    *)
(*                                                                          *)
(* Panels: the types of its variables; that no removal leaves a site        *)
(* without an address, touches one it should not, or gives the address up   *)
(* too early; and that Plesk's main row is never lost.                      *)
(****************************************************************************)
EXTENDS NetworkManager, Readiness, ConfiguratorRoutes, Panels, TLAPS

-----------------------------------------------------------------------------
(* The settings a call makes *)

\* The request in hand is one of the four, with arguments of its kind.
Requested ==
    /\ req.op \in Ops /\ req.iface \in Iface
    /\ req.op = "SetIfaceAddresses" =>
          req.what \in [Families -> [addrs : Seq(Addr), gateway : Gateways \cup {Nil}]]
    /\ req.op = "SetIfaceDHCP" => req.what \in [Families -> BOOLEAN]
    /\ req.op = "SetIfaceRoutes" => req.what \in [Families -> Routes]
    /\ req.op = "SetIfaceDNS" => req.what \in [Families -> Servers]

\* Every request of the type is of one of these kinds.
LEMMA RequestKinds == CallOK => Requested
  <1> SUFFICES ASSUME CallOK PROVE Requested
    OBVIOUS
  <1>1. PICK op \in Ops : req \in [op : {op}, iface : Iface, what : Arguments(op)]
    BY DEF CallOK
  <1> QED
    BY <1>1, NMAssumption DEF Requested, Arguments, Ops

\* The method a static family is left with is a method.
LEMMA StaticMethodType ==
    \A f, held : StaticMethod(f, held) \in {"manual", "disabled", "link-local"}
  BY DEF StaticMethod

\* The settings of a family stay settings, and stay acceptable to the daemon.
LEMMA ModifiedServed ==
    ASSUME Requested, NEW f \in Families, NEW s \in Settings, Served(f, s)
    PROVE  Modified(f, s) \in Settings /\ Served(f, Modified(f, s))
  <1>1. CASE req.op = "SetIfaceAddresses"
    <2>1. Modified(f, s) = WithAddresses(f, s)
      BY <1>1 DEF Modified
    <2>2. req.what[f].addrs \in Seq(Addr) /\ req.what[f].gateway \in Gateways \cup {Nil}
      BY <1>1 DEF Requested
    <2> QED
      BY <2>1, <2>2 DEF WithAddresses, StaticMethod, Settings, Methods, Served, Client,
                        Families
  <1>2. CASE req.op = "SetIfaceDHCP"
    <2>1. Modified(f, s) = WithDHCP(f, s)
      BY <1>2 DEF Modified
    <2> QED
      BY <2>1 DEF WithDHCP, StaticMethod, Settings, Methods, Served, Client, Families
  <1>3. CASE req.op = "SetIfaceRoutes"
    <2>1. Modified(f, s) = WithRoutes(f, s) /\ req.what[f] \in Routes
      BY <1>3 DEF Modified, Requested
    <2> QED
      BY <2>1 DEF WithRoutes, Settings, Served, Client
  <1>4. CASE req.op = "SetIfaceDNS"
    <2>1. Modified(f, s) = WithDNS(f, s) /\ req.what[f] \in Servers
      BY <1>4 DEF Modified, Requested
    <2> QED
      BY <2>1 DEF WithDNS, Settings, Served, Client
  <1> QED
    BY <1>1, <1>2, <1>3, <1>4 DEF Requested, Ops

\* They are what was asked for.
LEMMA ModifiedDone ==
    ASSUME Requested, NEW f \in Families, NEW s \in Settings, Served(f, s)
    PROVE  Done(req, f, s, Modified(f, s))
  <1>1. CASE req.op = "SetIfaceAddresses"
    <2>1. Modified(f, s) = WithAddresses(f, s)
      BY <1>1 DEF Modified
    <2> QED
      BY <1>1, <2>1 DEF Done, WithAddresses, StaticMethod, Settings, Client, Families
  <1>2. CASE req.op = "SetIfaceDHCP"
    <2>1. Modified(f, s) = WithDHCP(f, s) /\ req.what[f] \in BOOLEAN
      BY <1>2 DEF Modified, Requested
    <2> QED
      BY <1>2, <2>1 DEF Done, WithDHCP, StaticMethod, Settings, Client, Families, Served
  <1>3. CASE req.op = "SetIfaceRoutes"
    BY <1>3 DEF Done, Modified, WithRoutes
  <1>4. CASE req.op = "SetIfaceDNS"
    BY <1>4 DEF Done, Modified, WithDNS
  <1> QED
    BY <1>1, <1>2, <1>3, <1>4 DEF Requested, Ops

-----------------------------------------------------------------------------
(* Type correctness, and profiles the daemon accepts *)

ServedInv == TypeOK /\ AddressesAreServed

\* Histories start well typed, from profiles the daemon has accepted.
LEMMA ServedInit == Init => ServedInv
  <1> SUFFICES ASSUME Init PROVE ServedInv
    OBVIOUS
  <1>1. PICK h \in Hosts :
          /\ profile = h.profile /\ con = h.con /\ activated = h.activated
          /\ runs = [i \in Iface |-> IF h.con[i] = Nil THEN Nil ELSE h.profile[h.con[i]]]
    BY DEF Init
  <1>2. /\ h.profile \in [Profiles -> Profile]
        /\ \A p \in Profiles, f \in Families : Served(f, h.profile[p][f])
        /\ h.con \in [Iface -> Profiles \cup {Nil}]
        /\ h.activated \in SUBSET {i \in Iface : h.con[i] # Nil}
    BY NMAssumption
  <1>3. ProfilesOK /\ AddressesAreServed
    BY <1>1, <1>2 DEF ProfilesOK, AddressesAreServed
  <1>4. DevicesOK
    BY <1>1, <1>2 DEF DevicesOK
  <1>5. req \in UNION {[op : {op}, iface : Iface, what : Arguments(op)] : op \in Ops}
    <2>1. (CHOOSE i \in Iface : TRUE) \in Iface
      BY NMAssumption
    <2>2. [f \in Families |-> FALSE] \in Arguments("SetIfaceDHCP")
      BY DEF Arguments
    <2> QED
      BY <2>1, <2>2 DEF Init, Ops
  <1>6. CallOK
    BY <1>3, <1>4, <1>5 DEF Init, CallOK, ProfilesOK, DevicesOK
  <1> QED
    BY <1>3, <1>4, <1>6 DEF ServedInv, TypeOK

\* A command on a target leaves its profile well formed, or as it was.
LEMMA ModifyServed ==
    ASSUME ServedInv, NEW p \in Profiles, NEW f \in Families, Modify(p, f)
    PROVE  ProfilesOK' /\ AddressesAreServed' /\ errs' \in BOOLEAN
  <1>1. profile[p][f] \in Settings /\ Served(f, profile[p][f]) /\ errs \in BOOLEAN
    BY DEF ServedInv, TypeOK, ProfilesOK, Profile, AddressesAreServed, CallOK
  <1>2. /\ Modified(f, profile[p][f]) \in Settings
        /\ Served(f, Modified(f, profile[p][f]))
    BY <1>1, RequestKinds, ModifiedServed DEF ServedInv, TypeOK
  <1>3. CASE profile' = [profile EXCEPT ![p][f] = Modified(f, @)] /\ UNCHANGED errs
    BY <1>1, <1>2, <1>3 DEF ServedInv, TypeOK, ProfilesOK, Profile, AddressesAreServed
  <1>4. CASE UNCHANGED profile /\ errs' = TRUE
    BY <1>4 DEF ServedInv, TypeOK, ProfilesOK, AddressesAreServed
  <1> QED
    BY <1>3, <1>4 DEF Modify

\* connectionsFor returns profiles.
LEMMA TargetsType ==
    \A i \in Iface : \A t \in connectionsFor(i) : t \in SUBSET Profiles
  BY DEF connectionsFor, matchByIfaceName, matchByDevice

\* A device put on its profile runs settings.
LEMMA ReapplyType ==
    ASSUME ServedInv, reapplyDevice
    PROVE  DevicesOK'
  <1>1. iface \in Iface
    BY RequestKinds DEF ServedInv, TypeOK, Requested, iface
  <1> QED
    BY <1>1 DEF ServedInv, TypeOK, ProfilesOK, DevicesOK, reapplyDevice

\* Every action keeps the types and the profiles acceptable.
LEMMA ServedStep == ServedInv /\ [Next]_vars => ServedInv'
  <1> SUFFICES ASSUME ServedInv, [Next]_vars PROVE ServedInv'
    OBVIOUS
  <1> USE DEF ServedInv, TypeOK
  <1>1. ASSUME NEW op \in Ops, Call(op) PROVE ServedInv'
    <2>1. PICK i \in Iface, what \in Arguments(op) :
             req' = [op |-> op, iface |-> i, what |-> what]
      BY <1>1 DEF Call
    <2>2. req' \in UNION {[op : {o}, iface : Iface, what : Arguments(o)] : o \in Ops}
      BY <2>1
    <2>3. targets' \in SUBSET Profiles /\ errs' \in BOOLEAN
      BY <1>1, <2>1, TargetsType DEF Call
    <2>4. CallOK'
      BY <1>1, <2>2, <2>3 DEF Call, CallOK, ProfilesOK, DevicesOK
    <2> QED
      BY <1>1, <2>4 DEF Call, ProfilesOK, DevicesOK, device, AddressesAreServed
  <1>2. CASE ModifyIPv4
    <2>1. PICK p \in todo : Modify(p, "ipv4") /\ cur' = p
      BY <1>2 DEF ModifyIPv4
    <2>2. p \in Profiles
      BY <2>1 DEF CallOK
    <2>3. ProfilesOK' /\ AddressesAreServed' /\ errs' \in BOOLEAN
      BY <2>1, <2>2, ModifyServed DEF Families
    <2> QED
      BY <1>2, <2>1, <2>2, <2>3 DEF ModifyIPv4, CallOK, DevicesOK, device
  <1>3. CASE ModifyIPv6
    <2>1. cur \in Profiles
      BY <1>3 DEF ModifyIPv6, CallOK
    <2>2. ProfilesOK' /\ AddressesAreServed' /\ errs' \in BOOLEAN
      BY <1>3, <2>1, ModifyServed DEF ModifyIPv6, Families
    <2>3. pc' \in {"ipv4", "look", "reapply", "return"} /\ (pc' = "ipv4" => todo' # {})
      BY <1>3 DEF ModifyIPv6, AfterLoop
    <2> QED
      BY <1>3, <2>2, <2>3 DEF ModifyIPv6, CallOK, DevicesOK, device
  <1>4. CASE DeviceActivated
    BY <1>4 DEF DeviceActivated, Look, ProfilesOK, DevicesOK, device, CallOK,
                AddressesAreServed
  <1>5. CASE Reapply
    <2>1. DevicesOK'
      BY <1>5, ReapplyType DEF Reapply
    <2> QED
      BY <1>5, <2>1 DEF Reapply, ProfilesOK, CallOK, AddressesAreServed
  <1>6. CASE Return
    BY <1>6 DEF Return, ProfilesOK, DevicesOK, device, CallOK, AddressesAreServed
  <1>7. CASE renewDHCP
    <2>1. DevicesOK'
      BY <1>7, ReapplyType DEF renewDHCP
    <2> QED
      BY <1>7, <2>1 DEF renewDHCP, ProfilesOK, CallOK, AddressesAreServed
  <1>8. CASE Exit
    BY <1>8 DEF Exit, ProfilesOK, DevicesOK, device, CallOK, AddressesAreServed
  <1>9. ASSUME Unasked, DevicesOK' PROVE ServedInv'
    BY <1>9 DEF Unasked, ProfilesOK, CallOK, AddressesAreServed
  <1>10. CASE Activate
    <2>1. PICK p \in Profiles : \E i \in Suits[p] :
             /\ con' = [con EXCEPT ![i] = p]
             /\ runs' = [runs EXCEPT ![i] = profile[p]]
      BY <1>10 DEF Activate
    <2>2. DevicesOK'
      BY <1>10, <2>1, NMAssumption DEF Activate, DevicesOK, ProfilesOK
    <2> QED
      BY <1>9, <1>10, <2>2 DEF Activate
  <1>11. CASE Activated
    BY <1>9, <1>11 DEF Activated, DevicesOK
  <1>12. CASE Deactivate
    BY <1>9, <1>12 DEF Deactivate, DevicesOK
  <1>13. CASE UNCHANGED vars
    BY <1>13 DEF vars, device, ProfilesOK, DevicesOK, CallOK, AddressesAreServed
  <1> QED
    BY <1>1, <1>2, <1>3, <1>4, <1>5, <1>6, <1>7, <1>8, <1>10, <1>11, <1>12, <1>13
    DEF Next, Ops, SetIfaceAddresses, SetIfaceDHCP, SetIfaceRoutes, SetIfaceDNS

\* Every variable keeps its type.
THEOREM TypeCorrect == Spec => []TypeOK
  <1>1. ServedInv => TypeOK
    BY DEF ServedInv
  <1> QED
    BY <1>1, ServedInit, ServedStep, PTL DEF Spec

\* No call, failed, half done or complete, leaves a profile the daemon would not serve.
THEOREM AlwaysServed == Spec => []AddressesAreServed
  <1>1. ServedInv => AddressesAreServed
    BY DEF ServedInv
  <1> QED
    BY <1>1, ServedInit, ServedStep, PTL DEF Spec

-----------------------------------------------------------------------------
(* Each part done, or reported *)

InLoop == {"ipv4", "ipv6"}

DoneAt(p, f) == Done(req, f, pre.profile[p][f], profile[p][f])

\* What has changed is a target's, and done.
ChangedIsDone ==
    \A p \in Profiles, f \in Families :
        profile[p][f] # pre.profile[p][f] => p \in targets /\ DoneAt(p, f)

\* The families still to be modified.
Ahead(p, f) == pc \in InLoop /\ p \in todo /\ (pc = "ipv4" \/ p # cur \/ f = "ipv6")

\* What is still to be modified is as it was; the rest of the targets is done unless a
\* command has failed.
LoopInv ==
    \A p \in targets, f \in Families :
        /\ Ahead(p, f) => profile[p][f] = pre.profile[p][f]
        /\ ~errs /\ pc # "idle" => DoneAt(p, f) \/ Ahead(p, f)

\* The answer says so.
AnswerInv ==
    /\ pc \notin {"idle", "renew"} => heard = "running"
    /\ heard = "ok" => ~errs
    /\ pc = "idle" /\ heard = "ok" => \A p \in targets, f \in Families : DoneAt(p, f)

PartsInv == ChangedIsDone /\ LoopInv /\ AnswerInv

\* A command on the settings of one family: they are done or reported.
LEMMA ModifyDone ==
    ASSUME ServedInv, NEW p \in Profiles, NEW f \in Families, Modify(p, f),
           profile[p][f] = pre.profile[p][f]
    PROVE  /\ profile' \in [Profiles -> Profile]
           /\ \A q \in Profiles, g \in Families :
                 q # p \/ g # f => profile'[q][g] = profile[q][g]
           /\ \/ Done(req, f, pre.profile[p][f], profile'[p][f]) /\ errs' = errs
              \/ profile'[p][f] = profile[p][f] /\ errs'
  <1>1. profile[p][f] \in Settings /\ Served(f, profile[p][f])
    BY DEF ServedInv, TypeOK, ProfilesOK, Profile, AddressesAreServed
  <1>2. Done(req, f, profile[p][f], Modified(f, profile[p][f]))
    BY <1>1, RequestKinds, ModifiedDone DEF ServedInv, TypeOK
  <1>3. profile' \in [Profiles -> Profile]
    BY ModifyServed DEF ProfilesOK
  <1>4. CASE profile' = [profile EXCEPT ![p][f] = Modified(f, @)] /\ UNCHANGED errs
    BY <1>2, <1>3, <1>4 DEF ServedInv, TypeOK, ProfilesOK, Profile
  <1>5. CASE UNCHANGED profile /\ errs' = TRUE
    BY <1>3, <1>5
  <1> QED
    BY <1>4, <1>5 DEF Modify

\* Outside the loop the profiles do not change.
LEMMA PartsAside ==
    ASSUME PartsInv, UNCHANGED <<profile, pre, req, targets>>, pc \notin InLoop,
           pc' \notin InLoop, pc' # "idle" => errs' = errs /\ pc # "idle", AnswerInv'
    PROVE  PartsInv'
  <1>1. ChangedIsDone'
    BY DEF PartsInv, ChangedIsDone, DoneAt
  <1>2. ASSUME NEW p \in targets', NEW f \in Families
        PROVE  /\ ~Ahead(p, f)'
               /\ ~errs' /\ pc' # "idle" => DoneAt(p, f)'
    <2>1. ~Ahead(p, f)' /\ ~Ahead(p, f)
      BY DEF Ahead
    <2>2. ~errs' /\ pc' # "idle" => DoneAt(p, f)
      BY <1>2, <2>1 DEF PartsInv, LoopInv
    <2> QED
      BY <2>1, <2>2 DEF DoneAt
  <1>3. LoopInv'
    BY <1>2 DEF LoopInv
  <1> QED
    BY <1>1, <1>3 DEF PartsInv

\* At the start nothing has been asked for.
LEMMA PartsInit == Init => PartsInv
  BY DEF Init, PartsInv, ChangedIsDone, LoopInv, AnswerInv, Ahead, InLoop

\* A command of the loop moves one family of one target from ahead to done or reported.
LEMMA PartsModify ==
    ASSUME ServedInv, PartsInv, NEW p \in targets, NEW f \in Families, Modify(p, f),
           UNCHANGED <<pre, req, targets, heard>>, pc \in InLoop, Ahead(p, f),
           pc' \notin {"idle", "renew"},
           \A q \in targets, g \in Families :
               Ahead(q, g)' <=> Ahead(q, g) /\ ~(q = p /\ g = f)
    PROVE  PartsInv'
  <1>1. p \in Profiles /\ profile[p][f] = pre.profile[p][f]
    BY DEF ServedInv, TypeOK, CallOK, PartsInv, LoopInv
  <1>2. /\ \A q \in Profiles, g \in Families :
              q # p \/ g # f => profile'[q][g] = profile[q][g]
        /\ \/ Done(req, f, pre.profile[p][f], profile'[p][f]) /\ errs' = errs
           \/ profile'[p][f] = profile[p][f] /\ errs'
    BY <1>1, ModifyDone
  <1>3. ChangedIsDone'
    <2> SUFFICES ASSUME NEW q \in Profiles, NEW g \in Families,
                        profile'[q][g] # pre.profile[q][g]
                 PROVE  q \in targets /\ Done(req, g, pre.profile[q][g], profile'[q][g])
      BY DEF ChangedIsDone, DoneAt
    <2>1. CASE q = p /\ g = f
      BY <1>1, <1>2, <2>1
    <2>2. CASE q # p \/ g # f
      BY <1>2, <2>2 DEF PartsInv, ChangedIsDone, DoneAt
    <2> QED
      BY <2>1, <2>2
  <1>4. ASSUME NEW q \in targets, NEW g \in Families
        PROVE  /\ Ahead(q, g)' => profile'[q][g] = pre.profile[q][g]
               /\ ~errs' => Done(req, g, pre.profile[q][g], profile'[q][g]) \/ Ahead(q, g)'
    <2>1. q \in Profiles
      BY DEF ServedInv, TypeOK, CallOK
    <2>2. CASE q = p /\ g = f
      BY <1>2, <2>2
    <2>3. CASE q # p \/ g # f
      <3>1. profile'[q][g] = profile[q][g] /\ (Ahead(q, g)' <=> Ahead(q, g))
        BY <1>2, <2>1, <2>3
      <3>2. Ahead(q, g) => profile[q][g] = pre.profile[q][g]
        BY DEF PartsInv, LoopInv
      <3>3. ~errs => DoneAt(q, g) \/ Ahead(q, g)
        BY DEF PartsInv, LoopInv, InLoop
      <3>4. ~errs' => ~errs
        BY <1>2
      <3> QED
        BY <3>1, <3>2, <3>3, <3>4 DEF DoneAt
    <2> QED
      BY <2>2, <2>3
  <1>5. LoopInv'
    BY <1>4 DEF LoopInv, DoneAt
  <1>6. AnswerInv'
    BY DEF PartsInv, AnswerInv, InLoop
  <1> QED
    BY <1>3, <1>5, <1>6 DEF PartsInv

\* Every action keeps the account of what is done.
LEMMA PartsStep == ServedInv /\ PartsInv /\ [Next]_vars => PartsInv'
  <1> SUFFICES ASSUME ServedInv, PartsInv, [Next]_vars PROVE PartsInv'
    OBVIOUS
  <1>1. ASSUME NEW op \in Ops, Call(op) PROVE PartsInv'
    BY <1>1 DEF Call, PartsInv, ChangedIsDone, LoopInv, AnswerInv, Ahead, InLoop
  <1>2. CASE ModifyIPv4
    <2>1. PICK p \in todo : Modify(p, "ipv4") /\ cur' = p
      BY <1>2 DEF ModifyIPv4
    <2>2. p \in targets
      BY <2>1 DEF ServedInv, TypeOK, CallOK
    <2>3. \A q \in targets, g \in Families :
              Ahead(q, g)' <=> Ahead(q, g) /\ ~(q = p /\ g = "ipv4")
      BY <1>2, <2>1 DEF ModifyIPv4, Ahead, InLoop, Families
    <2> QED
      BY <1>2, <2>1, <2>2, <2>3, PartsModify DEF ModifyIPv4, Ahead, InLoop, Families
  <1>3. CASE ModifyIPv6
    <2>1. cur \in todo /\ cur \in targets
      BY <1>3 DEF ModifyIPv6, ServedInv, TypeOK, CallOK
    <2>2. pc' \in {"ipv4", "look", "reapply", "return"}
          /\ (pc' = "ipv4" \/ todo' = {})
      BY <1>3 DEF ModifyIPv6, AfterLoop
    <2>3. \A q \in targets, g \in Families :
              Ahead(q, g)' <=> Ahead(q, g) /\ ~(q = cur /\ g = "ipv6")
      BY <1>3, <2>1, <2>2 DEF ModifyIPv6, Ahead, InLoop, Families
    <2> QED
      BY <1>3, <2>1, <2>2, <2>3, PartsModify DEF ModifyIPv6, Ahead, InLoop, Families
  <1>4. CASE DeviceActivated
    <2>1. AnswerInv'
      BY <1>4 DEF DeviceActivated, Look, PartsInv, AnswerInv
    <2> QED
      BY <1>4, <2>1, PartsAside DEF DeviceActivated, Look, InLoop
  <1>5. CASE Reapply
    <2>1. AnswerInv'
      BY <1>5 DEF Reapply, PartsInv, AnswerInv
    <2> QED
      BY <1>5, <2>1, PartsAside DEF Reapply, InLoop
  <1>6. ASSUME pc \in {"return", "renew"}, pc' \in {"idle", "renew"}, heard' = "ok", ~errs',
               UNCHANGED <<profile, pre, req, targets, errs>>
        PROVE  AnswerInv'
    BY <1>6 DEF PartsInv, LoopInv, AnswerInv, Ahead, InLoop, DoneAt
  <1>7. CASE Return
    <2>1. AnswerInv'
      BY <1>6, <1>7 DEF Return, AnswerInv
    <2> QED
      BY <1>7, <2>1, PartsAside DEF Return, InLoop
  <1>8. CASE renewDHCP
    <2>1. AnswerInv'
      BY <1>6, <1>8 DEF renewDHCP, AnswerInv, PartsInv
    <2> QED
      BY <1>8, <2>1, PartsAside DEF renewDHCP, InLoop
  <1>9. CASE Exit
    <2>1. ChangedIsDone' /\ AnswerInv'
      BY <1>9 DEF Exit, PartsInv, ChangedIsDone, DoneAt, AnswerInv
    <2>2. LoopInv'
      BY <1>9 DEF Exit, LoopInv, Ahead, InLoop
    <2> QED
      BY <2>1, <2>2 DEF PartsInv
  <1>10. CASE Activate \/ Activated \/ Deactivate \/ UNCHANGED vars
    <2>1. UNCHANGED <<profile, pre, req, targets, errs, pc, heard, todo, cur>>
      BY <1>10 DEF Activate, Activated, Deactivate, Unasked, vars
    <2> QED
      BY <2>1 DEF PartsInv, ChangedIsDone, LoopInv, AnswerInv, Ahead, DoneAt
  <1> QED
    BY <1>1, <1>2, <1>3, <1>4, <1>5, <1>7, <1>8, <1>9, <1>10
    DEF Next, Ops, SetIfaceAddresses, SetIfaceDHCP, SetIfaceRoutes, SetIfaceDNS

\* However a call ends, every family of every target is as it was or as asked, all of them
\* as asked unless an error is reported, and no other profile has changed.
THEOREM PartsAccounted == Spec => []PartsDoneOrReported
  <1>1. PartsInv => PartsDoneOrReported
    BY DEF PartsInv, ChangedIsDone, AnswerInv, DoneAt, PartsDoneOrReported
  <1>2. Spec => [](ServedInv /\ PartsInv)
    BY ServedInit, ServedStep, PartsInit, PartsStep, PTL DEF Spec
  <1> QED
    BY <1>1, <1>2, PTL

-----------------------------------------------------------------------------
(* Whose profiles a call changes *)

\* A device runs a profile that suits it, and no two devices the same one.
ConnectedOK(c) ==
    /\ \A i \in Iface : c[i] # Nil => c[i] \in Profiles /\ i \in Suits[c[i]]
    /\ \A i, j \in Iface : c[i] = c[j] /\ c[i] # Nil => i = j

\* Profile p may be changed by a call for interface i, when devices run c.
MayChange(i, p, c) ==
    /\ BoundTo[p] \in {i, Nil}
    /\ \A j \in Iface \ {i} : c[j] = p => Mac[j] = Mac[i] /\ Pinned[p] = Mac[j]

TargetsInv ==
    /\ ConnectedOK(con)
    /\ \A p \in targets : MayChange(iface, p, pre.con)

\* The profiles connectionsFor returns may be changed.
LEMMA OwnTargets ==
    ASSUME ConnectedOK(con), NEW i \in Iface, NEW t \in connectionsFor(i), NEW p \in t
    PROVE  MayChange(i, p, con)
  <1>1. p \in Profiles
    BY TargetsType
  <1>2. \A j \in Iface : con[j] = p => BoundTo[p] \in {Nil, j} /\ Pinned[p] \in {Nil, Mac[j]}
    BY <1>1, NMAssumption DEF ConnectedOK
  <1>3. CASE matchByIfaceName(i) # {}
    <2>1. BoundTo[p] = i /\ i # Nil
      BY <1>3, NMAssumption DEF connectionsFor, matchByIfaceName
    <2> QED
      BY <1>2, <2>1 DEF MayChange
  <1>4. CASE matchByIfaceName(i) = {}
    <2>1. PICK active \in {con[i], Nil}, mac \in {Mac[i], Nil} : t = matchByDevice(active, mac)
      BY <1>4 DEF connectionsFor
    <2>2. BoundTo[p] = Nil
      BY <2>1 DEF matchByDevice
    <2>3. CASE p = active
      <3>1. p = con[i] /\ con[i] # Nil
        BY <1>1, <2>1, <2>3, NMAssumption
      <3> QED
        BY <2>2, <3>1 DEF MayChange, ConnectedOK
    <2>4. CASE mac # Nil /\ Pinned[p] = mac
      <3>1. Pinned[p] = Mac[i] /\ Mac[i] # Nil
        BY <2>1, <2>4
      <3> QED
        BY <1>2, <2>2, <3>1 DEF MayChange
    <2> QED
      BY <2>1, <2>3, <2>4 DEF matchByDevice
  <1> QED
    BY <1>3, <1>4

\* No call has been made at the start, and the hosts are connected properly.
LEMMA TargetsInit == Init => TargetsInv
  BY NMAssumption DEF Init, TargetsInv, ConnectedOK

\* Calls choose their targets while devices are connected properly; the daemon keeps them so.
LEMMA TargetsStep == ServedInv /\ TargetsInv /\ [Next]_vars => TargetsInv'
  <1> SUFFICES ASSUME ServedInv, TargetsInv, [Next]_vars PROVE TargetsInv'
    OBVIOUS
  <1> USE DEF TargetsInv
  <1>1. ASSUME NEW op \in Ops, Call(op) PROVE TargetsInv'
    <2>1. req'.iface \in Iface /\ pre'.con = con /\ con' = con
      BY <1>1 DEF Call, device
    <2>2. targets' = {} \/ targets' \in connectionsFor(req'.iface)
      BY <1>1 DEF Call
    <2>3. \A p \in targets' : MayChange(req'.iface, p, pre'.con)
      BY <2>1, <2>2, OwnTargets
    <2> QED
      BY <2>1, <2>3 DEF iface
  <1>2. ASSUME UNCHANGED <<targets, req, pre>>, ConnectedOK(con') PROVE TargetsInv'
    BY <1>2 DEF iface
  <1>3. CASE \/ ModifyIPv4 \/ ModifyIPv6 \/ DeviceActivated \/ Reapply \/ Return
             \/ renewDHCP \/ Exit \/ UNCHANGED vars
    <2>1. UNCHANGED <<targets, req, pre, con>>
      BY <1>3 DEF ModifyIPv4, ModifyIPv6, DeviceActivated, Reapply, Return, renewDHCP, Exit,
                  reapplyDevice, device, vars
    <2> QED
      BY <1>2, <2>1
  <1>4. CASE Activate
    <2>1. PICK p \in Profiles : \E i \in Suits[p] :
             /\ \A j \in Iface : con[j] # p
             /\ con' = [con EXCEPT ![i] = p]
      BY <1>4 DEF Activate
    <2>2. PICK i \in Suits[p] : con' = [con EXCEPT ![i] = p]
      BY <2>1
    <2>3. i \in Iface /\ con \in [Iface -> Profiles \cup {Nil}]
      BY <2>2, NMAssumption DEF ServedInv, TypeOK, DevicesOK
    <2>4. ConnectedOK(con')
      BY <2>1, <2>2, <2>3 DEF ConnectedOK
    <2> QED
      BY <1>2, <1>4, <2>4 DEF Activate, Unasked
  <1>5. CASE Activated
    BY <1>2, <1>5 DEF Activated, Unasked
  <1>6. CASE Deactivate
    <2>1. ConnectedOK(con')
      BY <1>6 DEF Deactivate, ConnectedOK, ServedInv, TypeOK, DevicesOK
    <2> QED
      BY <1>2, <1>6, <2>1 DEF Deactivate, Unasked
  <1> QED
    BY <1>1, <1>3, <1>4, <1>5, <1>6
    DEF Next, Ops, SetIfaceAddresses, SetIfaceDHCP, SetIfaceRoutes, SetIfaceDNS

\* A profile that names another interface or that another was running is left alone, but
\* for one pinned to a hardware address the two share.
THEOREM OwnProfiles == Spec => []OnlyItsOwnProfiles
  <1>1. ServedInv /\ PartsInv /\ TargetsInv => OnlyItsOwnProfiles
    <2> SUFFICES ASSUME ServedInv, PartsInv, TargetsInv, NEW p \in Profiles,
                        profile[p] # pre.profile[p]
                 PROVE  MayChange(iface, p, pre.con)
      BY DEF OnlyItsOwnProfiles, MayChange
    <2>1. profile[p] \in Profile /\ pre.profile[p] \in Profile
      BY DEF ServedInv, TypeOK, ProfilesOK, CallOK
    <2>2. \E f \in Families : profile[p][f] # pre.profile[p][f]
      BY <2>1 DEF Profile
    <2>3. p \in targets
      BY <2>2 DEF PartsInv, ChangedIsDone
    <2> QED
      BY <2>3 DEF TargetsInv
  <1>2. Spec => [](ServedInv /\ PartsInv /\ TargetsInv)
    BY ServedInit, ServedStep, PartsInit, PartsStep, TargetsInit, TargetsStep, PTL DEF Spec
  <1> QED
    BY <1>1, <1>2, PTL

-----------------------------------------------------------------------------
(* The lease a caller may be connected over *)

TurnsOff == req.op = "SetIfaceDHCP" /\ \A f \in Families : ~req.what[f]

\* While the daemon does nothing unasked, a call that turns every client off neither finds
\* an activated device inactive nor renews.
LeaseInv ==
    /\ changes \in Nat /\ pre.changes \in Nat /\ pre.changes <= changes
    /\ changes = pre.changes => activated = pre.activated
    /\ TurnsOff /\ iface \in pre.activated /\ changes = pre.changes =>
          pc \notin {"reapply", "renew"} /\ runs = pre.runs

\* At the start devices run what they did.
LEMMA LeaseInit == Init => LeaseInv
  BY DEF Init, LeaseInv

\* Every action keeps the lease.
LEMMA LeaseStep == ServedInv /\ LeaseInv /\ [Next]_vars => LeaseInv'
  <1> SUFFICES ASSUME ServedInv, LeaseInv, [Next]_vars PROVE LeaseInv'
    OBVIOUS
  <1> USE DEF LeaseInv, TurnsOff, iface
  <1>1. ASSUME NEW op \in Ops, Call(op) PROVE LeaseInv'
    BY <1>1 DEF Call, device
  <1>2. CASE ModifyIPv4
    BY <1>2 DEF ModifyIPv4, device
  <1>3. CASE ModifyIPv6
    BY <1>3 DEF ModifyIPv6, AfterLoop, device
  <1>4. CASE DeviceActivated
    BY <1>4 DEF DeviceActivated, Look, device
  <1>5. CASE Reapply
    BY <1>5 DEF Reapply, reapplyDevice
  <1>6. CASE Return
    BY <1>6 DEF Return, device
  <1>7. CASE renewDHCP
    BY <1>7 DEF renewDHCP, reapplyDevice
  <1>8. CASE Exit
    BY <1>8 DEF Exit, device
  <1>9. CASE Activate \/ Activated \/ Deactivate
    <2>1. changes' = changes + 1 /\ UNCHANGED <<pre, req, pc>>
      BY <1>9 DEF Activate, Activated, Deactivate, Unasked
    <2> QED
      BY <2>1
  <1>10. CASE UNCHANGED vars
    BY <1>10 DEF vars
  <1> QED
    BY <1>1, <1>2, <1>3, <1>4, <1>5, <1>6, <1>7, <1>8, <1>9, <1>10
    DEF Next, Ops, SetIfaceAddresses, SetIfaceDHCP, SetIfaceRoutes, SetIfaceDNS

\* Turning every client off does not disturb what an activated device runs.
THEOREM LeaseKept == Spec => []LeaseIsLeft
  <1>1. LeaseInv => LeaseIsLeft
    BY DEF LeaseInv, LeaseIsLeft, TurnsOff
  <1>2. Spec => [](ServedInv /\ LeaseInv)
    BY ServedInit, ServedStep, LeaseInit, LeaseStep, PTL DEF Spec
  <1> QED
    BY <1>1, <1>2, PTL
-----------------------------------------------------------------------------
(* The wait for the daemon *)

WaitLabels == {"idle", "owned", "startup", "select", "failed", "recheck", "settings", "done"}

\* The wait has run out, or there was none; the caller had not cancelled.
RanOut == ~late /\ (elapsed \/ ~waits)

\* No wait is left to be had: why a call may be past the last probe.
Over == elapsed \/ cancelled \/ ~waits

\* Between two steps of the call the world moves on, so each promise is kept by what
\* holds while the call is on its way to it.
WaitInv ==
    /\ waits \in BOOLEAN /\ cancelled \in BOOLEAN /\ stage \in WaitLabels
    /\ bus \/ daemon = "absent"
    /\ stage = "startup" /\ daemon = "absent" => slipped
    /\ launched => slipped
    /\ stage = "failed" => Over
    /\ stage = "recheck" => RanOut /\ (daemon = "absent" => away)
    /\ stage = "settings" => sawReady \/ RanOut
    /\ BackendAsPromised

\* No wait has begun.
LEMMA InitWaitInv == WaitInit => WaitInv
BY DEF WaitInit, WaitInv, WaitLabels, BackendAsPromised

\* The bus, the daemon, the clock and the caller.
LEMMA HostKeeps ==
    ASSUME WaitInv,
           BusStarts \/ DaemonStarts \/ DaemonSettles \/ DaemonStops
               \/ Elapse \/ Tick \/ Cancel
    PROVE  WaitInv'
<1> USE DEF WaitInv, Over, RanOut, BackendAsPromised, Host, world,
            clock, ghosts
<1>1. CASE BusStarts BY <1>1 DEF BusStarts
<1>2. CASE DaemonStarts BY <1>2 DEF DaemonStarts
<1>3. CASE DaemonSettles BY <1>3 DEF DaemonSettles
<1>4. CASE DaemonStops BY <1>4 DEF DaemonStops
<1>5. CASE Elapse BY <1>5 DEF Elapse
<1>6. CASE Tick BY <1>6 DEF Tick
<1>7. CASE Cancel BY <1>7 DEF Cancel
<1> QED BY <1>1, <1>2, <1>3, <1>4, <1>5, <1>6, <1>7

\* The steps of newNetworkManager.
LEMMA StepKeeps == ASSUME WaitInv, WaitStep PROVE WaitInv'
<1> USE DEF WaitInv, WaitLabels, BackendAsPromised, Goto, Answer,
            world, clock, ghosts, Fault, NotReady
<1>1. CASE waitForServiceReady BY <1>1 DEF waitForServiceReady
<1>2. CASE Owned BY <1>2 DEF Owned, Over
<1>3. CASE Startup
  <2>1. UNCHANGED <<bus, slipped, away, late, elapsed, cancelled, waits>>
        BY <1>3 DEF Startup
  <2>2. \/ stage' = "settings" /\ sawReady'
        \/ stage' = "select"
        \/ stage' = "failed" /\ ~waits
        BY <1>3 DEF Startup
  <2>3. daemon' = daemon \/ bus BY <1>3 DEF Startup
  <2>4. launched' => launched \/ slipped
        BY <1>3 DEF Startup
  <2> QED BY <2>1, <2>2, <2>3, <2>4 DEF Over, RanOut
<1>4. CASE GiveUp BY <1>4 DEF GiveUp, Over
<1>5. CASE ProbeAgain BY <1>5 DEF ProbeAgain
<1>6. CASE WaitFailed BY <1>6 DEF WaitFailed, Over, RanOut
<1>7. CASE Recheck BY <1>7 DEF Recheck, RanOut
<1>8. CASE NewSettings BY <1>8 DEF NewSettings, RanOut
<1> QED BY <1>1, <1>2, <1>3, <1>4, <1>5, <1>6, <1>7, <1>8 DEF WaitStep

\* Every step of the wait, of the daemon or of time keeps it.
LEMMA WaitInvStep == WaitInv /\ [WaitNext]_waitVars => WaitInv'
<1> SUFFICES ASSUME WaitInv, [WaitNext]_waitVars PROVE WaitInv'
    OBVIOUS
<1>1. CASE UNCHANGED waitVars
      BY <1>1 DEF waitVars, world, clock, ghosts, WaitInv, Over, RanOut,
                  BackendAsPromised
<1>2. CASE WaitNext BY <1>2, HostKeeps, StepKeeps DEF WaitNext
<1> QED BY <1>1, <1>2

\* newNetworkManager drops the backend only for a caller that cancelled, a failure of the
\* bus or a daemon that is not there, returns one only of a daemon that is ready or after
\* all of the wait, and does not itself launch the daemon.
THEOREM ReadinessPromised == WaitSpec => []BackendAsPromised
<1>1. WaitInv => BackendAsPromised BY DEF WaitInv
<1> QED BY InitWaitInv, WaitInvStep, <1>1, PTL DEF WaitSpec

-----------------------------------------------------------------------------
(* Routes and the resolver *)

Unwritten == {"check", "list", "delete"}
RouteLabels == Unwritten \cup {"persist"}
ResolverLabels == {"resolvectl", "domain", "resolved", "fallback", "adapter4", "adapter6"}

OnBackends(f) == f = [b \in BackendSet |-> f[b]]
Undisturbed == shifts = began.shifts

\* Each backend the loop has passed has the routes or has failed; the others, each of
\* which comes once, are as they were.
Passed ==
    \A m \in DOMAIN Backends :
        LET b == Backends[m]
        IN  IF m < n THEN disk[b] = IF b \in missed THEN began.disk[b] ELSE static
                     ELSE disk[b] = began.disk[b] /\ b \notin missed

LabelInv ==
    /\ at \in RouteLabels \cup ResolverLabels \cup {"idle"}
    /\ at \in RouteLabels => call.op \in {"add", "remove"}
    /\ at \in ResolverLabels => call.op = "dns"

\* While no address comes or goes, what is to be persisted are the routes of the kernel
\* but those still to be deleted.
RoutesInv ==
    /\ LabelInv /\ os \in {"linux", "windows"}
    /\ shifts \in Nat /\ began.shifts \in Nat /\ began.shifts <= shifts
    /\ n \in Nat \ {0} /\ OnBackends(disk) /\ OnBackends(began.disk)
    /\ at \in Unwritten => disk = began.disk /\ missed = {} /\ n = 1
    /\ at \in RouteLabels /\ Undisturbed => own = addrs
    /\ at \in {"delete", "persist"} /\ Undisturbed => static = Persistent(routes, addrs) \ doomed
    /\ at = "persist" => doomed = {} /\ Passed
    /\ RoutesPersisted

\* What SetDNS has done, or failed to do, when it comes to each of its steps.
ResolverInv ==
    /\ LabelInv /\ os \in {"linux", "windows"}
    /\ at # "idle" => resolv = began.resolv
    /\ at \in {"resolvectl", "fallback", "adapter4"} => missed = {}
    /\ at \in {"resolvectl", "domain", "resolved"} => os = "linux" /\ resolved
    /\ at = "fallback" => os = "linux" /\ ~resolved
    /\ at \in {"adapter4", "adapter6"} => os = "windows"
    /\ at = "resolvectl" => live = TRUE
    /\ at \in {"domain", "resolved"} =>
          \/ live = TRUE /\ missed = {} /\ link = call.servers
          \/ live = FALSE /\ missed = {"resolvectl"}
    /\ at = "adapter6" => missed \subseteq {"adapter4"}
    /\ at = "adapter6" /\ missed = {} =>
          OfFamily(link, "adapter4") = OfFamily(call.servers, "adapter4")
    /\ ResolverKept

-----------------------------------------------------------------------------
(* Routes *)

\* What is persisted is what the property calls lasting.
LEMMA StaticIsLasting == os \in {"linux", "windows"} => Persistent(routes, addrs) = Lasting
  BY DEF Persistent, Static,
                             StaticWindows, Lasting, NetsOf

\* A route to be deleted is not one to be persisted.
LEMMA DeletedFromBoth ==
    ASSUME NEW r \in doomed
    PROVE  Persistent(routes, addrs) \ doomed = Persistent(routes \ {r}, addrs) \ (doomed \ {r})
  BY DEF Persistent, Static,
                             StaticWindows

\* One more backend has the routes, or has failed.
LEMMA OneMorePassed ==
    ASSUME Passed, n \in Nat \ {0}, n <= Len(Backends), OnBackends(disk),
           n' = n + 1, UNCHANGED <<began, static>>,
           \/ disk' = [disk EXCEPT ![Backends[n]] = static] /\ UNCHANGED missed
           \/ missed' = missed \cup {Backends[n]} /\ UNCHANGED disk
    PROVE  Passed' /\ OnBackends(disk)'
  <1>1. /\ n \in DOMAIN Backends /\ DOMAIN Backends \subseteq Nat
        /\ \A m \in DOMAIN Backends :
               Backends[m] \in BackendSet /\ (m # n => Backends[m] # Backends[n])
    BY RoutesAssumption DEF RoutesAssumption, BackendSet
  <1>2. OnBackends(disk)'
    BY DEF OnBackends
  <1>3. disk[Backends[n]] = began.disk[Backends[n]] /\ Backends[n] \notin missed
    BY <1>1 DEF Passed
  <1>4. ASSUME NEW m \in DOMAIN Backends
        PROVE  LET b == Backends[m]
               IN  IF m < n' THEN disk'[b] = IF b \in missed' THEN began.disk[b] ELSE static
                             ELSE disk'[b] = began.disk[b] /\ b \notin missed'
    <2>1. CASE m = n
      <3>1. m < n' /\ disk'[Backends[m]] = IF Backends[m] \in missed' THEN disk[Backends[m]]
                                           ELSE static
        BY <1>1, <1>3, <2>1 DEF OnBackends
      <3> QED
        BY <1>3, <2>1, <3>1
    <2>2. CASE m # n
      <3>1. disk'[Backends[m]] = disk[Backends[m]] /\ (m < n' <=> m < n)
            /\ (Backends[m] \in missed' <=> Backends[m] \in missed)
        BY <1>1, <2>2 DEF OnBackends
      <3> QED
        BY <3>1 DEF Passed
    <2> QED
      BY <2>1, <2>2
  <1> QED
    BY <1>2, <1>4 DEF Passed

\* A call that has tried every backend.
LEMMA AllPassed ==
    ASSUME Passed, n \in Nat, n > Len(Backends), OnBackends(disk)
    PROVE  \A b \in DOMAIN disk : disk[b] = IF b \in missed THEN began.disk[b] ELSE static
  <1>1. DOMAIN disk = BackendSet
    BY DEF OnBackends
  <1>2. \A m \in DOMAIN Backends : m < n
    BY RoutesAssumption DEF RoutesAssumption
  <1> QED
    BY <1>1, <1>2 DEF Passed, BackendSet

\* A history starts with no call of AddRoute or RemoveRoute in progress.
LEMMA RoutesInvStart == RoutesStart => RoutesInv
  <1> SUFFICES ASSUME RoutesStart PROVE RoutesInv
    OBVIOUS
  <1>1. OnBackends(disk) /\ OnBackends(began.disk)
    BY DEF RoutesStart, OnBackends
  <1> QED
    BY <1>1 DEF RoutesStart, RoutesInv, LabelInv, RouteLabels, Unwritten, ResolverLabels,
                RoutesPersisted, Ended

\* A call begins with the world as it is.
LEMMA RoutesBegin ==
    ASSUME RoutesInv, NEW c, NEW label, Begin(c, label),
           \/ c.op \in {"add", "remove"} /\ label = "check"
           \/ c.op = "dns" /\ label \in ResolverLabels
    PROVE  RoutesInv'
  <1>1. /\ disk' = disk /\ began'.disk = disk /\ shifts' = shifts /\ began'.shifts = shifts
        /\ own' = addrs /\ addrs' = addrs /\ n' = 1 /\ missed' = {} /\ at' = label /\ call' = c
        /\ os' = os
    BY DEF Begin, kernel
  <1>2. OnBackends(disk)' /\ OnBackends(began.disk)'
    BY <1>1 DEF RoutesInv, OnBackends
  <1> QED
    BY <1>1, <1>2 DEF RoutesInv, LabelInv, RouteLabels, Unwritten, ResolverLabels,
                      Undisturbed, RoutesPersisted, Ended

\* A call that has written nothing returns, and so does one that is dead.
LEMMA RoutesGiveUp ==
    ASSUME RoutesInv, UNCHANGED <<os, disk, call, shifts, began, missed, n>>, at' = "idle",
           result' = "crashed" \/ (result' = "error" /\ at \in Unwritten)
    PROVE  RoutesInv'
  BY DEF RoutesInv, LabelInv, OnBackends, RouteLabels, Unwritten, ResolverLabels,
         RoutesPersisted, Ended

\* SetDNS is not about routes.
LEMMA RoutesDNS ==
    ASSUME RoutesInv, UNCHANGED <<os, disk, call, shifts, began, n>>,
           at \in ResolverLabels, at' \in ResolverLabels \cup {"idle"}
    PROVE  RoutesInv'
  BY DEF RoutesInv, LabelInv, OnBackends, RouteLabels, Unwritten, ResolverLabels,
         RoutesPersisted, Ended

\* The steps of AddRoute and RemoveRoute up to the list of what is to be persisted.
LEMMA RoutesListed ==
    ASSUME RoutesInv, RouteAdd \/ RouteAddWindows \/ DeleteRoute \/ RouteList
    PROVE  RoutesInv'
  <1>1. CASE RouteAdd \/ RouteAddWindows \/ DeleteRoute
    <2>1. /\ UNCHANGED <<os, addrs, disk, own, n, missed, call, shifts, began>>
          /\ at = "check" /\ at' = "list"
      BY <1>1 DEF RouteAdd, RouteAddWindows, Added, DeleteRoute, locals, Still
    <2> QED
      BY <2>1 DEF RoutesInv, LabelInv, OnBackends, RouteLabels, Unwritten, ResolverLabels,
                  Undisturbed, RoutesPersisted, Ended
  <1>2. CASE RouteList
    <2>1. /\ UNCHANGED <<os, addrs, routes, disk, own, n, missed, call, shifts, began>>
          /\ at \in {"check", "list"} /\ at' = "delete"
      BY <1>2 DEF RouteList, kernel, Still
    <2>2. static' = Persistent(routes, own) \ doomed'
      BY <1>2 DEF RouteList
    <2>3. Undisturbed' => static' = Persistent(routes, addrs)' \ doomed'
      BY <2>1, <2>2 DEF RoutesInv, RouteLabels, Unwritten, Undisturbed, Persistent, Static,
                             StaticWindows
    <2> QED
      BY <2>1, <2>3 DEF RoutesInv, LabelInv, OnBackends, RouteLabels, Unwritten,
                        ResolverLabels, Undisturbed, RoutesPersisted, Ended
  <1> QED
    BY <1>1, <1>2

\* The deletions of RemoveRoute.
LEMMA RoutesDeleted ==
    ASSUME RoutesInv, RouteDel \/ Deleted
    PROVE  RoutesInv'
  <1>1. ASSUME NEW r \in doomed, at = "delete", routes' = routes \ {r}, doomed' = doomed \ {r},
               UNCHANGED <<addrs, disk, at, own, static, n, missed, os, call, shifts, began>>
        PROVE  RoutesInv'
    <2>1. Persistent(routes, addrs)' \ doomed' = Persistent(routes, addrs) \ doomed
      BY <1>1, DeletedFromBoth DEF Persistent, Static,
                             StaticWindows
    <2> QED
      BY <1>1, <2>1 DEF RoutesInv, LabelInv, OnBackends, RouteLabels, Unwritten,
                        ResolverLabels, Undisturbed, RoutesPersisted, Ended
  <1>2. CASE at = "delete" /\ Reply("error")
    BY <1>2, RoutesGiveUp DEF Reply, locals, Still, Unwritten
  <1>3. CASE Deleted
    <2>1. /\ UNCHANGED <<os, addrs, routes, disk, own, doomed, static, n, missed, call, shifts,
                        began>>
          /\ at = "delete" /\ doomed = {} /\ at' = "persist"
      BY <1>3 DEF Deleted, kernel, locals, Still
    <2>2. Persistent(routes, addrs)' = Persistent(routes, addrs)
      BY <2>1 DEF Persistent, Static,
                             StaticWindows
    <2>3. Passed'
      <3>1. disk = began.disk /\ missed = {} /\ n = 1
        BY <2>1 DEF RoutesInv, Unwritten
      <3>2. \A m \in DOMAIN Backends : m >= 1 /\ m \in Nat
        BY RoutesAssumption DEF RoutesAssumption
      <3> QED
        BY <2>1, <3>1, <3>2 DEF Passed
    <2> QED
      BY <2>1, <2>2, <2>3 DEF RoutesInv, LabelInv, OnBackends, RouteLabels, Unwritten,
                              ResolverLabels, Undisturbed, RoutesPersisted, Ended
  <1> QED
    BY <1>1, <1>2, <1>3 DEF RouteDel, Still

\* applyIfaceRoutes, and the return from it.
LEMMA RoutesWritten ==
    ASSUME RoutesInv, Persist \/ Persisted
    PROVE  RoutesInv'
  <1>1. CASE Persist
    <2>1. /\ UNCHANGED <<os, addrs, routes, own, doomed, static, call, shifts, began, at>>
          /\ at = "persist" /\ n <= Len(Backends) /\ n' = n + 1
          /\ \/ disk' = [disk EXCEPT ![Backends[n]] = static] /\ UNCHANGED missed
             \/ missed' = missed \cup {Backends[n]} /\ UNCHANGED disk
      BY <1>1 DEF Persist, kernel, Still
    <2>2. Passed' /\ OnBackends(disk)'
      BY <2>1, OneMorePassed DEF RoutesInv
    <2>3. Persistent(routes, addrs)' = Persistent(routes, addrs)
      BY <2>1 DEF Persistent, Static,
                             StaticWindows
    <2> QED
      BY <2>1, <2>2, <2>3 DEF RoutesInv, LabelInv, OnBackends, RouteLabels, Unwritten,
                              ResolverLabels, Undisturbed, RoutesPersisted, Ended
  <1>2. CASE Persisted
    <2>1. /\ UNCHANGED <<os, addrs, routes, disk, n, missed, call, shifts, began>>
          /\ at = "persist" /\ n > Len(Backends) /\ at' = "idle" /\ result' = "ok"
      BY <1>2 DEF Persisted, Reply, kernel, locals, Still
    <2>2. \A b \in DOMAIN disk : disk[b] = IF b \in missed THEN began.disk[b] ELSE static
      BY <2>1, AllPassed DEF RoutesInv
    <2>3. Undisturbed => static = Lasting /\ Lasting' = Lasting
      <3>1. Undisturbed => static = Persistent(routes, addrs)
        BY <2>1 DEF RoutesInv
      <3> QED
        BY <2>1, <3>1, StaticIsLasting DEF RoutesInv, Lasting
    <2>4. RoutesPersisted'
      BY <2>1, <2>2, <2>3 DEF RoutesPersisted, Ended, Undisturbed
    <2> QED
      BY <2>1, <2>4 DEF RoutesInv, LabelInv, OnBackends, RouteLabels, Unwritten,
                        ResolverLabels
  <1> QED
    BY <1>1, <1>2

\* An address that comes or goes is counted, and no promise outlives the count.
LEMMA RoutesDisturbed ==
    ASSUME RoutesInv, Shift
    PROVE  RoutesInv'
  <1>1. /\ UNCHANGED <<os, disk, at, call, static, doomed, n, result, began, missed>>
        /\ shifts' = shifts + 1
    BY DEF Shift, locals
  <1>2. ~Undisturbed'
    BY <1>1 DEF RoutesInv, Undisturbed
  <1>3. Passed <=> Passed'
    BY <1>1 DEF Passed
  <1> QED
    BY <1>1, <1>2, <1>3 DEF RoutesInv, LabelInv, OnBackends, RouteLabels, Unwritten,
                            ResolverLabels, Undisturbed, RoutesPersisted, Ended

\* Every step keeps what is said of the routes.
LEMMA RoutesStep == RoutesInv /\ [RoutesNext]_routesVars => RoutesInv'
  <1> SUFFICES ASSUME RoutesInv, [RoutesNext]_routesVars PROVE RoutesInv'
    OBVIOUS
  <1>1. CASE AddRoute \/ RemoveRoute
    BY <1>1, RoutesBegin DEF AddRoute, RemoveRoute
  <1>2. CASE SetDNS
    BY <1>2, RoutesBegin DEF SetDNS, ResolverLabels
  <1>3. CASE Refuse \/ ListFails
    BY <1>3, RoutesGiveUp DEF Refuse, ListFails, Reply, locals, Still, Unwritten
  <1>4. CASE Die
    BY <1>4, RoutesGiveUp DEF Die, locals
  <1>5. CASE RouteAdd \/ RouteAddWindows \/ DeleteRoute \/ RouteList
    BY <1>5, RoutesListed
  <1>6. CASE RouteDel \/ Deleted
    BY <1>6, RoutesDeleted
  <1>7. CASE Persist \/ Persisted
    BY <1>7, RoutesWritten
  <1>8. CASE Resolvectl \/ ResolvectlDomain
    BY <1>8, RoutesDNS DEF Resolvectl, ResolvectlDomain, Still, ResolverLabels
  <1>9. CASE Resolved \/ WriteResolvConf
    BY <1>9, RoutesDNS DEF Resolved, WriteResolvConf, Reply, locals, Still, ResolverLabels
  <1>10. CASE AdapterDNS \/ NoAdapter
    BY <1>10, RoutesDNS DEF AdapterDNS, NoAdapter, locals, Still, ResolverLabels
  <1>11. CASE AddressArrives \/ AddressLeaves
    BY <1>11, RoutesDisturbed DEF AddressArrives, AddressLeaves
  <1>12. CASE UNCHANGED routesVars
    BY <1>12 DEF routesVars, kernel, locals, RoutesInv, LabelInv, OnBackends, Undisturbed, Passed,
                 RoutesPersisted, Ended, Lasting, Persistent, Static,
                             StaticWindows
  <1> QED
    BY <1>1, <1>2, <1>3, <1>4, <1>5, <1>6, <1>7, <1>8, <1>9, <1>10, <1>11, <1>12 DEF RoutesNext

\* AddRoute and RemoveRoute leave every backend with the kernel's lasting routes, or with
\* what it had if it failed, and write nothing at all when they return an error.
THEOREM RoutesReachBackends == RoutesSpec => []RoutesPersisted
  <1>1. RoutesInv => RoutesPersisted
    BY DEF RoutesInv
  <1> QED
    BY <1>1, RoutesInvStart, RoutesStep, PTL DEF RoutesSpec
-----------------------------------------------------------------------------
(* The resolver *)

\* A history starts with no call of SetDNS in progress.
LEMMA ResolverInit == RoutesStart => ResolverInv
  BY DEF RoutesStart, ResolverInv, LabelInv, RouteLabels, Unwritten, ResolverLabels,
         ResolverKept, Ended

\* A call begins with the resolver as it is.
LEMMA ResolverBegin ==
    ASSUME ResolverInv, AddRoute \/ RemoveRoute \/ SetDNS
    PROVE  ResolverInv'
  <1> USE DEF ResolverInv, LabelInv, RouteLabels, Unwritten, ResolverLabels, ResolverKept, Ended
  <1>1. CASE AddRoute \/ RemoveRoute
    <2>1. /\ at' = "check" /\ call'.op \in {"add", "remove"} /\ resolv' = began'.resolv
          /\ os' = os
      BY <1>1 DEF AddRoute, RemoveRoute, Begin, resolver
    <2> QED
      BY <2>1
  <1>2. CASE SetDNS
    <2>1. /\ at' \in {"adapter4", "resolvectl", "fallback"} /\ call'.op = "dns"
          /\ resolv' = began'.resolv /\ missed' = {} /\ live' = TRUE
          /\ (at' = "adapter4" => os' = "windows")
          /\ (at' = "resolvectl" => os' = "linux" /\ resolved')
          /\ (at' = "fallback" => os' = "linux" /\ ~resolved')
      BY <1>2 DEF SetDNS, Begin, resolver
    <2> QED
      BY <2>1
  <1> QED
    BY <1>1, <1>2

\* Steps that are not SetDNS's leave the resolver alone.
LEMMA ResolverElsewhere ==
    ASSUME ResolverInv, UNCHANGED <<os, resolver, call, began>>,
           at \in RouteLabels, at' \in RouteLabels \cup {"idle"}
    PROVE  ResolverInv'
  BY DEF ResolverInv, LabelInv, RouteLabels, Unwritten, ResolverLabels, ResolverKept, Ended,
         resolver

\* The steps of SetDNS on Linux.
LEMMA ResolverLinux ==
    ASSUME ResolverInv, Resolvectl \/ ResolvectlDomain \/ Resolved \/ WriteResolvConf
    PROVE  ResolverInv'
  <1> USE DEF ResolverInv, LabelInv, RouteLabels, Unwritten, ResolverLabels, ResolverKept, Ended
  <1>1. CASE Resolvectl
    <2>1. /\ UNCHANGED <<os, call, began, resolved, linked, resolv>>
          /\ at = "resolvectl" /\ at' \in {"domain", "resolved"}
          /\ \/ link' = call.servers /\ live' = live /\ missed' = missed
             \/ live' = FALSE /\ missed' = missed \cup {"resolvectl"}
      BY <1>1 DEF Resolvectl, Live, resolver, Still
    <2> QED
      BY <2>1
  <1>2. CASE ResolvectlDomain
    <2>1. /\ UNCHANGED <<os, call, began, resolved, linked, link, resolv>>
          /\ at = "domain" /\ at' = "resolved"
          /\ \/ live' = live /\ missed' = missed
             \/ live' = FALSE /\ missed' = missed \cup {"resolvectl"}
      BY <1>2 DEF ResolvectlDomain, resolver, Still
    <2> QED
      BY <2>1
  <1>3. CASE Resolved
    <2>1. /\ UNCHANGED <<os, call, began, resolved, linked, link, resolv, missed>>
          /\ at = "resolved" /\ live /\ at' = "idle"
      BY <1>3 DEF Resolved, Reply, resolver, Still
    <2> QED
      BY <2>1
  <1>4. CASE WriteResolvConf
    <2>1. /\ UNCHANGED <<os, call, began, resolved, linked, link>> /\ at' = "idle"
          /\ at = "fallback" \/ (at = "resolved" /\ ~live)
      BY <1>4 DEF WriteResolvConf, resolver, Still
    <2>2. \/ ~NothingToWrite /\ resolv' = call.servers /\ missed' = missed
          \/ NothingToWrite /\ resolv' = resolv /\ missed' = missed
          \/ ~NothingToWrite /\ resolv' = resolv /\ missed' = missed \cup {"resolv.conf"}
      BY <1>4 DEF WriteResolvConf, resolver
    <2>3. /\ at = "fallback" => missed = {} /\ ~resolved
          /\ at = "resolved" => missed = {"resolvectl"}
          /\ os = "linux" /\ resolv = began.resolv
      BY <2>1
    <2> QED
      BY <2>1, <2>2, <2>3 DEF NothingToWrite
  <1> QED
    BY <1>1, <1>2, <1>3, <1>4

\* And on Windows.
LEMMA ResolverWindows ==
    ASSUME ResolverInv, AdapterDNS \/ NoAdapter
    PROVE  ResolverInv'
  <1> USE DEF ResolverInv, LabelInv, RouteLabels, Unwritten, ResolverLabels, ResolverKept, Ended
  <1>1. CASE AdapterDNS
    <2>1. /\ UNCHANGED <<os, call, began, resolved, linked, resolv>>
          /\ \/ at = "adapter4" /\ at' = "adapter6"
             \/ at = "adapter6" /\ at' = "idle"
      BY <1>1 DEF AdapterDNS, Live, resolver, Still
    <2>2. \/ missed' = missed /\ link' = (link \ OfFamily(link, at)) \cup OfFamily(call.servers, at)
          \/ missed' = missed \cup {at} /\ link' = link
      BY <1>1 DEF AdapterDNS, Live, resolver
    <2>3. CASE at = "adapter4"
      BY <2>1, <2>2, <2>3 DEF OfFamily
    <2>4. CASE at = "adapter6"
      <3>1. \A f \in {"adapter4", "adapter6"} \ missed' :
                OfFamily(link', f) = OfFamily(call.servers, f)
        BY <2>2, <2>4 DEF OfFamily
      <3> QED
        BY <2>1, <2>4, <3>1 DEF OfFamily
    <2> QED
      BY <2>1, <2>3, <2>4
  <1>2. CASE NoAdapter
    <2>1. /\ UNCHANGED <<os, call, began, resolved, linked, link, resolv>>
          /\ at = "adapter4" /\ at' = "idle" /\ missed' = {"adapter4", "adapter6"}
      BY <1>2 DEF NoAdapter, resolver, Still
    <2> QED
      BY <2>1
  <1> QED
    BY <1>1, <1>2

\* Every step keeps what is said of the resolvers.
LEMMA ResolverStep == ResolverInv /\ [RoutesNext]_routesVars => ResolverInv'
  <1> SUFFICES ASSUME ResolverInv, [RoutesNext]_routesVars PROVE ResolverInv'
    OBVIOUS
  <1>1. CASE AddRoute \/ RemoveRoute \/ SetDNS
    BY <1>1, ResolverBegin
  <1>2. CASE Refuse \/ ListFails \/ RouteDel \/ Deleted
    BY <1>2, ResolverElsewhere
    DEF Refuse, ListFails, RouteDel, Deleted, Reply, Still, RouteLabels, Unwritten
  <1>3. CASE RouteAdd \/ RouteAddWindows \/ DeleteRoute \/ RouteList
    BY <1>3, ResolverElsewhere
    DEF RouteAdd, RouteAddWindows, Added, DeleteRoute, RouteList, Still, RouteLabels, Unwritten
  <1>4. CASE Persist \/ Persisted
    BY <1>4, ResolverElsewhere DEF Persist, Persisted, Reply, Still, RouteLabels, Unwritten
  <1>5. CASE Resolvectl \/ ResolvectlDomain \/ Resolved \/ WriteResolvConf
    BY <1>5, ResolverLinux
  <1>6. CASE AdapterDNS \/ NoAdapter
    BY <1>6, ResolverWindows
  <1>7. CASE AddressArrives \/ AddressLeaves
    BY <1>7 DEF AddressArrives, AddressLeaves, Shift, resolver, locals, ResolverInv, LabelInv,
                ResolverKept, Ended
  <1>8. CASE Die
    <2>1. /\ UNCHANGED <<os, resolved, linked, link, resolv, call, began, missed>>
          /\ at # "idle" /\ at' = "idle" /\ result' = "crashed"
      BY <1>8 DEF Die, resolver
    <2> QED
      BY <2>1 DEF ResolverInv, LabelInv, RouteLabels, Unwritten, ResolverLabels, ResolverKept, Ended
  <1>9. CASE UNCHANGED routesVars
    BY <1>9 DEF routesVars, resolver, locals, ResolverInv, LabelInv, ResolverKept, Ended
  <1> QED
    BY <1>1, <1>2, <1>3, <1>4, <1>5, <1>6, <1>7, <1>8, <1>9 DEF RoutesNext

\* SetDNS rewrites the host's resolv.conf only where it may, and only says nothing where it
\* has set the servers or something it tried has failed.
THEOREM ResolverIsKept == RoutesSpec => []ResolverKept
  <1>1. ResolverInv => ResolverKept
    BY DEF ResolverInv
  <1> QED
    BY <1>1, ResolverInit, ResolverStep, PTL DEF RoutesSpec

-----------------------------------------------------------------------------
(* Panels *)

Requests == [op : {"add", "remove", "promote"}, addr : IP]
Locals == [todo : SUBSET Sites, target : IP \cup {NoIP}, check : BOOLEAN, refused : BOOLEAN]
Marks == [listed : SUBSET IP, sites : [Sites -> SUBSET IP]]

-----------------------------------------------------------------------------
(* Types *)

\* The variables of a call as they are before its first step.
LEMMA L0Type == L0 \in Locals
  BY DEF L0, Locals

\* Taking a site off the list, with or without noting a refusal.
LEMMA TodoType ==
    ASSUME NEW r \in Locals, NEW s
    PROVE  /\ [r EXCEPT !.todo = @ \ {s}] \in Locals
           /\ [r EXCEPT !.todo = @ \ {s}, !.refused = TRUE] \in Locals
  BY DEF Locals

\* Sites are moved to an address the panel lists, of the right family.
LEMMA PanelTargetsType ==
    ASSUME PanelsTypeOK
    PROVE  /\ Candidates \subseteq listed \cap (Family(addr) \ {addr})
           /\ Targets \subseteq Candidates
  BY DEF PanelsTypeOK, Candidates, Targets, Preferred, Public

\* What the panel lists after a call of the tools is a set of addresses again.
LEMMA ForgetType ==
    ASSUME PanelsTypeOK, Forget
    PROVE  /\ listed' \subseteq IP /\ shared' \subseteq IP /\ main' \subseteq listed'
           /\ UNCHANGED <<kind, conf, sites>>
  BY DEF PanelsTypeOK, Forget

\* So is what the panel lists after it read the interfaces again.
LEMMA RereadType ==
    ASSUME PanelsTypeOK, Reread
    PROVE  /\ listed' \subseteq IP /\ shared' \subseteq IP /\ main' \subseteq listed'
           /\ UNCHANGED <<kind, conf, sites>>
  BY DEF PanelsTypeOK, Reread

\* A panel starts with the lists its hosts are given.
LEMMA InitType == PanelsInit => PanelsTypeOK
  <1> SUFFICES ASSUME PanelsInit PROVE PanelsTypeOK
    OBVIOUS
  <1> USE PanelsAssumption
  <1>1. PICK h \in PanelHosts :
            /\ kind = h.kind /\ bound = h.ips /\ listed = h.ips
            /\ shared = h.shared /\ sites = h.sites
            /\ main = IF h.kind = "plesk" THEN h.shared ELSE {}
    BY DEF PanelsInit
  <1>2. h \in [kind : {"cpanel", "plesk", "interworx"}, ips : SUBSET IP,
               shared : SUBSET IP, sites : [Sites -> SUBSET IP]]
    OBVIOUS
  <1>3. notice \in Requests
    <2>1. PICK ip \in IP : TRUE
      OBVIOUS
    <2>2. [op |-> "add", addr |-> ip] \in [op : {"add"}, addr : IP]
      BY <2>1
    <2>3. (CHOOSE r \in [op : {"add"}, addr : IP] : TRUE) \in [op : {"add"}, addr : IP]
      BY <2>2
    <2> QED
      BY <2>3 DEF PanelsInit, Requests
  <1>4. l \in Locals
    BY L0Type DEF PanelsInit
  <1> QED
    BY <1>1, <1>2, <1>3, <1>4 DEF PanelsInit, PanelsTypeOK, Requests, Locals

\* The calls keep the types of what they begin with.
LEMMA TellType ==
    ASSUME PanelsTypeOK, NEW op \in {"add", "remove", "promote"}, NEW label \in {"list", "reload"},
           Tell(op, label), bound' \subseteq IP
    PROVE  PanelsTypeOK'
  <1>1. notice' \in Requests
    BY DEF Tell, Requests
  <1>2. l' \in Locals
    BY L0Type DEF Tell
  <1>3. before' \in Marks
    BY DEF Tell, PanelsTypeOK, Marks
  <1> QED
    BY <1>1, <1>2, <1>3 DEF Tell, PanelsTypeOK, panel, Requests, Locals, Marks

\* A step that goes on, or returns, keeps the types of the call's own variables.
LEMMA GoType ==
    ASSUME PanelsTypeOK,
           NEW label \in {"idle", "list", "move", "reload", "check", "setMain", "store", "demote"},
           Go(label) \/ Finish("ok") \/ Finish("error"),
           kind' = kind, listed' \subseteq IP, shared' \subseteq IP, main' \subseteq listed',
           conf' \in [{"ADDR", "ADDR6"} -> IP \cup {NoIP}], sites' \in [Sites -> SUBSET IP]
    PROVE  PanelsTypeOK'
  BY DEF PanelsTypeOK, Go, Finish, Frame

\* Likewise a step that starts or goes on with moving sites.
LEMMA MoveType ==
    ASSUME PanelsTypeOK, step' = "move", UNCHANGED outcome, Frame, l' \in Locals,
           UNCHANGED <<kind, listed, shared, main, conf>>, sites' \in [Sites -> SUBSET IP]
    PROVE  PanelsTypeOK'
  BY DEF PanelsTypeOK, Frame, Locals

\* Listing the affected sites yields a set of sites and a target, or none.
LEMMA ListedType ==
    ASSUME PanelsTypeOK, NEW moving \in SUBSET Sites, NEW target \in IP \cup {NoIP},
           NEW check \in BOOLEAN, Listed(moving, target, check)
    PROVE  PanelsTypeOK'
  <1>1. l' \in Locals
    BY L0Type DEF Listed, L0, Locals
  <1> QED
    BY <1>1, MoveType DEF Listed, panel, PanelsTypeOK

\* Every action keeps every variable in its type.
LEMMA TypeStep == PanelsTypeOK /\ [PanelsNext]_panelsVars => PanelsTypeOK'
  <1> SUFFICES ASSUME PanelsTypeOK, [PanelsNext]_panelsVars PROVE PanelsTypeOK'
    OBVIOUS
  <1> USE DEF panel
  <1>0. addr \in IP /\ bound \subseteq IP /\ listed \subseteq IP
    BY DEF PanelsTypeOK, addr
  <1>1. CASE RemoveIP
    BY <1>1, <1>0, TellType DEF RemoveIP
  <1>2. CASE AddIP
    <2>1. notice'.addr \in IP
      BY <1>2 DEF AddIP, Tell
    <2> QED
      BY <1>2, <1>0, <2>1, TellType DEF AddIP
  <1>3. CASE PromoteIP
    BY <1>3, <1>0, TellType DEF PromoteIP
  <1>4. CASE ListOnCpanel
    BY <1>4, <1>0, ListedType, PanelTargetsType, GoType DEF ListOnCpanel, Fails, PanelsTypeOK
  <1>5. CASE ListOnCpanelIPv6
    <2>1. CASE Fails
      BY <2>1, GoType DEF Fails, PanelsTypeOK
    <2>2. CASE ~Fails
      <3>1. PICK found \in SUBSET Sites :
              LET others == (IP6 \cap UNION {sites[s] : s \in found}) \ {addr}
              IN  \E target \in IF others = {} THEN {NoIP} ELSE others :
                      Listed(found, target, FALSE)
        BY <1>5, <2>2 DEF ListOnCpanelIPv6
      <3>2. IP6 \subseteq IP
        BY DEF IP
      <3> QED
        BY <3>1, <3>2, ListedType
    <2> QED
      BY <2>1, <2>2
  <1>6. CASE ListOnPlesk
    BY <1>6, <1>0, ListedType, PanelTargetsType, GoType DEF ListOnPlesk, Fails, PanelsTypeOK
  <1>7. CASE ListOnInterworx
    BY <1>7, <1>0, ListedType, PanelTargetsType, GoType DEF ListOnInterworx, Fails, PanelsTypeOK
  <1>8. CASE MoveSite
    <2>1. PICK s \in l.todo : NextSite(s) /\ (UNCHANGED panel \/
              (sites' = [sites EXCEPT ![s] = Moved(s)] /\ UNCHANGED <<kind, listed, shared, main, conf>>))
      BY <1>8 DEF MoveSite
    <2>2. s \in Sites /\ Moved(s) \subseteq IP
      BY DEF PanelsTypeOK, Moved
    <2>3. l' \in Locals
      <3>1. l \in Locals
        BY DEF PanelsTypeOK, Locals
      <3>2. l' = [l EXCEPT !.todo = @ \ {s}]
        BY <2>1 DEF NextSite
      <3> QED
        BY <3>1, <3>2, TodoType
    <2> QED
      BY <2>1, <2>2, <2>3, MoveType, <1>8 DEF NextSite, PanelsTypeOK, MoveSite
  <1>9. CASE MoveFails
    BY <1>9, GoType DEF MoveFails, Fails, PanelsTypeOK
  <1>10. CASE MoveRefused
    <2>1. l' \in Locals
      <3>1. l \in Locals
        BY DEF PanelsTypeOK, Locals
      <3>2. PICK s \in l.todo : l' = [l EXCEPT !.todo = @ \ {s}, !.refused = TRUE]
        BY <1>10 DEF MoveRefused
      <3> QED
        BY <3>1, <3>2, TodoType
    <2> QED
      BY <1>10, <2>1, MoveType DEF MoveRefused, PanelsTypeOK
  <1>11. CASE Release
    <2>1. CASE Forget
      BY <1>11, <2>1, ForgetType, GoType DEF Release, Fails, PanelsTypeOK
    <2>2. CASE ~Forget
      BY <1>11, <2>2, GoType DEF Release, Fails, PanelsTypeOK
    <2> QED
      BY <2>1, <2>2
  <1>12. CASE ReloadInRemove
    BY <1>12, RereadType, GoType DEF ReloadInRemove, Fails, PanelsTypeOK
  <1>13. CASE MainIPCheck
    BY <1>13, GoType DEF MainIPCheck, Fails, PanelsTypeOK
  <1>14. CASE Reload
    BY <1>14, RereadType, GoType DEF Reload, PanelsTypeOK
  <1>15. CASE SetMainOnCpanel
    BY <1>15, <1>0, GoType DEF SetMainOnCpanel, Fails, PanelsTypeOK
  <1>16. CASE StoreMain
    BY <1>16, <1>0, GoType DEF StoreMain, Fails, PanelsTypeOK
  <1>17. CASE PromoteRow
    BY <1>17, <1>0, GoType DEF PromoteRow, Promote, Where, Fails, PanelsTypeOK
  <1>18. CASE DemoteOthers
    BY <1>18, <1>0, GoType DEF DemoteOthers, Fails, PanelsTypeOK
  <1>19. CASE SetMainOnInterworx
    BY <1>19, GoType DEF SetMainOnInterworx, PanelsTypeOK
  <1>20. CASE UNCHANGED panelsVars
    BY <1>20 DEF panelsVars, PanelsTypeOK
  <1> QED
    BY <1>1, <1>2, <1>3, <1>4, <1>5, <1>6, <1>7, <1>8, <1>9, <1>10, <1>11, <1>12, <1>13,
       <1>14, <1>15, <1>16, <1>17, <1>18, <1>19, <1>20 DEF PanelsNext

\* Every variable of a panel and of the call in progress keeps its type.
THEOREM PanelsTypeCorrect == PanelsSpec => []PanelsTypeOK
  BY InitType, TypeStep, PTL DEF PanelsSpec

-----------------------------------------------------------------------------
(* Sites *)

\* No site on the address has another IPv6 address, and the panel is cPanel.
NoOther ==
    /\ cpanelIPv6
    /\ \A t \in Sites : addr \in before.sites[t] => before.sites[t] \cap IP6 \subseteq {addr}

\* A changed site lost the address and nothing else, and gained at most the target.
Changed(s) ==
    /\ notice.op = "remove" /\ addr \in before.sites[s] /\ addr \notin sites[s]
    /\ before.sites[s] \ {addr} \subseteq sites[s]
    /\ sites[s] \subseteq before.sites[s] \cup ({l.target} \ {NoIP})
    /\ l.target # NoIP => sites[s] \cap Family(addr) # {}
    /\ l.target = NoIP => NoOther

Known == before.listed \cup UNION {before.sites[t] : t \in Sites}

SitesInv ==
    /\ step \in {"list", "move"} => notice.op = "remove"
    /\ step = "list" => sites = before.sites /\ listed = before.listed
    /\ step = "move" /\ l.todo # {} /\ l.target = NoIP => NoOther
    /\ l.target # NoIP => l.target \in (Family(addr) \ {addr}) \cap Known
    /\ \A s \in Sites : sites[s] # before.sites[s] => Changed(s)

\* Steps after the sites, and those that change none, keep the invariant.
LEMMA SitesAside ==
    ASSUME SitesInv, UNCHANGED <<sites, l, notice, before, kind>>, step' \notin {"list", "move"}
    PROVE  SitesInv'
  BY DEF SitesInv, Changed, NoOther, Known, cpanelIPv6, addr

\* A call that begins has changed nothing.
LEMMA SitesTold ==
    ASSUME PanelsTypeOK, NEW op, NEW label, Tell(op, label), label = "list" => op = "remove",
           label # "move"
    PROVE  SitesInv'
  BY DEF SitesInv, Tell, L0, panel

\* A list of sites to move comes with a target, or no site needs one.
LEMMA SitesListed ==
    ASSUME PanelsTypeOK, SitesInv, step = "list", NEW moving, NEW target, NEW check,
           Listed(moving, target, check),
           target # NoIP => target \in (Family(addr) \ {addr}) \cap Known,
           target = NoIP => moving = {} \/ NoOther
    PROVE  SitesInv'
  BY DEF SitesInv, Listed, L0, Frame, panel, NoOther, Known, cpanelIPv6, addr

\* Every action keeps what the removal in progress has changed within SitesInv.
LEMMA SitesStep == PanelsTypeOK /\ SitesInv /\ [PanelsNext]_panelsVars => SitesInv'
  <1> SUFFICES ASSUME PanelsTypeOK, SitesInv, [PanelsNext]_panelsVars PROVE SitesInv'
    OBVIOUS
  <1> USE DEF panel
  <1>0. /\ addr \in IP /\ NoIP \notin IP /\ IP4 \cap IP6 = {}
        /\ sites \in [Sites -> SUBSET IP] /\ before.sites \in [Sites -> SUBSET IP]
        /\ l.todo \subseteq Sites
    BY PanelsAssumption DEF PanelsTypeOK, addr
  <1>f. CASE Fails
    BY <1>f, SitesAside DEF Fails, Finish, Frame
  <1>1. CASE RemoveIP
    BY <1>1, SitesTold DEF RemoveIP
  <1>2. CASE AddIP \/ PromoteIP
    BY <1>2, SitesTold DEF AddIP, PromoteIP
  <1>t. ASSUME step = "list", NEW target \in Targets
        PROVE  target # NoIP /\ target \in (Family(addr) \ {addr}) \cap Known
    BY <1>t, <1>0, PanelTargetsType DEF SitesInv, Known, PanelsTypeOK
  <1>3. CASE ListOnCpanel /\ ~Fails
    <2>1. PICK target \in Targets : Listed(Sites, target, Preferred = {})
      BY <1>3 DEF ListOnCpanel
    <2> QED
      BY <1>3, <2>1, <1>t, SitesListed DEF ListOnCpanel
  <1>4. CASE ListOnCpanelIPv6 /\ ~Fails
    <2>1. PICK found \in SUBSET Sites :
            LET others == (IP6 \cap UNION {sites[s] : s \in found}) \ {addr}
            IN  /\ {s \in Sites : On(s)} \subseteq found
                /\ \E target \in IF others = {} THEN {NoIP} ELSE others :
                       Listed(found, target, FALSE)
      BY <1>4 DEF ListOnCpanelIPv6
    <2> DEFINE others == (IP6 \cap UNION {sites[s] : s \in found}) \ {addr}
    <2>2. PICK target \in IF others = {} THEN {NoIP} ELSE others : Listed(found, target, FALSE)
      BY <2>1
    <2>3. step = "list" /\ cpanelIPv6 /\ addr \in IP6 /\ sites = before.sites /\ Family(addr) = IP6
      BY <1>0, <1>4 DEF ListOnCpanelIPv6, SitesInv, cpanelIPv6, Family
    <2>4. ASSUME target # NoIP PROVE target \in (Family(addr) \ {addr}) \cap Known
      BY <2>2, <2>3, <2>4 DEF Known
    <2>5. ASSUME target = NoIP PROVE NoOther
      <3>1. others = {}
        BY <2>2, <2>5, <1>0 DEF IP
      <3> QED
        BY <2>1, <2>3, <3>1 DEF NoOther, On
    <2> QED
      BY <2>2, <2>3, <2>4, <2>5, SitesListed
  <1>5. CASE ListOnPlesk /\ ~Fails
    <2>1. CASE \E target \in Targets : Listed(Sites, target, FALSE)
      BY <1>5, <2>1, <1>t, SitesListed DEF ListOnPlesk
    <2>2. CASE Listed({}, NoIP, FALSE)
      BY <1>5, <2>2, SitesListed DEF ListOnPlesk
    <2> QED
      BY <1>5, <2>1, <2>2 DEF ListOnPlesk
  <1>6. CASE ListOnInterworx /\ ~Fails
    BY <1>6, <1>t, SitesListed DEF ListOnInterworx
  <1>7. CASE MoveSite
    <2>0. /\ step = "move" /\ step' = "move" /\ UNCHANGED <<kind, notice, before>>
          /\ l'.target = l.target /\ l'.todo \subseteq l.todo
      BY <1>7 DEF MoveSite, NextSite, Frame, PanelsTypeOK
    <2>1. CASE UNCHANGED sites
      BY <2>0, <2>1 DEF SitesInv, Changed, NoOther, Known, cpanelIPv6, addr
    <2>2. CASE ~UNCHANGED sites
      <3>1. PICK s \in l.todo : Affected(s) /\ sites' = [sites EXCEPT ![s] = Moved(s)]
        BY <1>7, <2>2 DEF MoveSite
      <3>2. s \in Sites /\ addr \in sites[s] /\ sites[s] = before.sites[s] /\ notice.op = "remove"
        BY <1>0, <3>1, <2>0 DEF SitesInv, Changed, Affected, On
      <3>3. sites'[s] = Moved(s) /\ \A t \in Sites \ {s} : sites'[t] = sites[t]
        BY <1>0, <3>1
      <3>4. Changed(s)'
        BY <1>0, <2>0, <3>1, <3>2, <3>3
        DEF SitesInv, Changed, Moved, NoOther, Known, cpanelIPv6, addr, Family
      <3>5. \A t \in Sites \ {s} : sites'[t] # before'.sites[t] => Changed(t)'
        BY <2>0, <3>3 DEF SitesInv, Changed, NoOther, cpanelIPv6, addr
      <3> QED
        BY <2>0, <3>4, <3>5 DEF SitesInv, NoOther, Known, cpanelIPv6, addr
    <2> QED
      BY <2>1, <2>2
  <1>8. CASE MoveRefused
    <2>1. l'.target = l.target /\ l'.todo \subseteq l.todo
      BY <1>8 DEF MoveRefused, PanelsTypeOK
    <2> QED
      BY <1>8, <2>1
      DEF MoveRefused, Frame, SitesInv, Changed, NoOther, Known, cpanelIPv6, addr
  <1>9. CASE Release \/ ReloadInRemove \/ MainIPCheck
    BY <1>9, SitesAside
    DEF Release, ReloadInRemove, MainIPCheck, Forget, Reread, Fails, Go, Finish, Frame
  <1>10. CASE Reload \/ SetMainOnCpanel \/ StoreMain
    BY <1>10, SitesAside
    DEF Reload, SetMainOnCpanel, StoreMain, Reread, Fails, Go, Finish, Frame
  <1>11. CASE PromoteRow \/ DemoteOthers \/ SetMainOnInterworx
    BY <1>11, SitesAside
    DEF PromoteRow, DemoteOthers, SetMainOnInterworx, Promote, Fails, Go, Finish, Frame
  <1>12. CASE UNCHANGED panelsVars
    BY <1>12 DEF panelsVars, SitesInv, Changed, NoOther, Known, cpanelIPv6, addr
  <1>13. CASE MoveFails
    BY <1>13, <1>f DEF MoveFails
  <1> QED
    BY <1>f, <1>1, <1>2, <1>3, <1>4, <1>5, <1>6, <1>7, <1>8, <1>9, <1>10, <1>11, <1>12, <1>13
    DEF PanelsNext

\* No call is in progress at first, so nothing is changed.
LEMMA SitesInit == PanelsInit => SitesInv
  BY DEF PanelsInit, SitesInv, L0

\* A site that lost its last address of a family lost it to a removal without a
\* replacement, which only cPanel's IPv6 accounts can.
LEMMA SitesReachable ==
    ASSUME PanelsTypeOK, SitesInv
    PROVE  SitesStayReachable
  <1> SUFFICES ASSUME NEW s \in Sites, NEW f \in {IP4, IP6},
                      before.sites[s] \cap f # {}, sites[s] \cap f = {}
               PROVE  /\ cpanelIPv6 /\ f = IP6
                      /\ \A t \in Sites : addr \in before.sites[t]
                                => before.sites[t] \cap IP6 \subseteq {addr}
    BY DEF SitesStayReachable
  <1>1. Changed(s)
    BY DEF SitesInv
  <1>2. addr \in IP /\ IP4 \cap IP6 = {}
    BY PanelsAssumption DEF PanelsTypeOK, addr
  <1>3. addr \in f
    BY <1>1 DEF Changed
  <1>4. f = Family(addr)
    BY <1>2, <1>3 DEF Family, IP
  <1>5. NoOther
    BY <1>1, <1>4 DEF Changed
  <1> QED
    BY <1>2, <1>3, <1>5 DEF NoOther, cpanelIPv6

\* What a removal changes is what the property allows.
LEMMA Affecting ==
    ASSUME PanelsTypeOK, SitesInv
    PROVE  OnlyAffectedMove
  <1> SUFFICES ASSUME NEW s \in Sites, sites[s] # before.sites[s]
               PROVE  /\ notice.op = "remove" /\ addr \in before.sites[s]
                      /\ sites[s] \ before.sites[s] \subseteq (Family(addr) \ {addr}) \cap Known
    BY DEF OnlyAffectedMove, Known
  <1>1. Changed(s)
    BY DEF SitesInv
  <1> QED
    BY <1>1 DEF Changed, SitesInv

\* removeIP of every panel: however it ends, no site is left without an address of a
\* family it had, but cPanel's IPv6 accounts none of which has another.
THEOREM SitesKeepAnAddress == PanelsSpec => []SitesStayReachable
  BY InitType, TypeStep, SitesInit, SitesStep, SitesReachable, PTL DEF PanelsSpec

\* removeIP of every panel changes only the sites on the address, and gives them at most
\* one address, of the same family, which the panel or a site had.
THEOREM OthersAreLeftAlone == PanelsSpec => []OnlyAffectedMove
  BY InitType, TypeStep, SitesInit, SitesStep, Affecting, PTL DEF PanelsSpec

-----------------------------------------------------------------------------
(* The release of the address, and Plesk's main row *)

\* A site that is not to be moved any more is off the address, or cPanel said no, or the
\* panel does not list the address in the first place.
ReleaseInv ==
    step = "move" =>
        \A s \in Sites \ l.todo : addr \in sites[s] => l.refused \/ addr \notin listed

\* Between the two statements of setMainIP the new address has the main flag.
MainInv == step = "demote" /\ addr \in listed => addr \in main

\* A call gets past the sites only when they are all off the address.
LEMMA ReleaseStep ==
    PanelsTypeOK /\ SitesInv /\ ReleaseInv /\ [PanelsNext]_panelsVars => ReleaseInv'
  <1> SUFFICES ASSUME PanelsTypeOK, SitesInv, ReleaseInv, [PanelsNext]_panelsVars, step' = "move"
               PROVE  ReleaseInv'
    BY DEF ReleaseInv
  <1> USE DEF panel
  <1>f. ~Fails
    BY DEF Fails, Finish
  <1>1. CASE ListOnCpanel \/ ListOnInterworx
    <2>1. l'.todo = Sites
      BY <1>1, <1>f DEF ListOnCpanel, ListOnInterworx, Listed, L0
    <2> QED
      BY <2>1 DEF ReleaseInv
  <1>2. CASE ListOnCpanelIPv6
    <2>1. PICK found \in SUBSET Sites :
            LET others == (IP6 \cap UNION {sites[s] : s \in found}) \ {addr}
            IN  /\ {s \in Sites : On(s)} \subseteq found
                /\ \E target \in IF others = {} THEN {NoIP} ELSE others :
                       Listed(found, target, FALSE)
      BY <1>2, <1>f DEF ListOnCpanelIPv6
    <2>2. {s \in Sites : On(s)} \subseteq found /\ l'.todo = found
      BY <2>1 DEF Listed, L0
    <2>3. UNCHANGED <<sites, notice>>
      BY <2>1 DEF Listed, Frame
    <2> QED
      BY <2>2, <2>3 DEF ReleaseInv, On, addr
  <1>3. CASE ListOnPlesk
    <2>1. UNCHANGED <<sites, notice, listed>> /\ (l'.todo = {} \/ l'.todo = Sites)
      BY <1>3, <1>f DEF ListOnPlesk, Listed, Frame, L0
    <2>2. l'.todo = {} => addr \notin listed \/ \A s \in Sites : ~On(s)
      BY <1>3, <1>f DEF ListOnPlesk, Listed, L0
    <2> QED
      BY <2>1, <2>2 DEF ReleaseInv, On, addr
  <1>4. CASE MoveSite
    <2>1. PICK s \in l.todo :
              /\ NextSite(s) /\ UNCHANGED listed
              /\ \/ ~Affected(s) /\ UNCHANGED sites
                 \/ sites' = [sites EXCEPT ![s] = Moved(s)]
      BY <1>4 DEF MoveSite
    <2>2. /\ step = "move" /\ addr' = addr /\ l'.todo = l.todo \ {s} /\ l'.refused = l.refused
          /\ sites \in [Sites -> SUBSET IP] /\ s \in Sites /\ addr \in IP
      BY <1>4, <2>1 DEF MoveSite, NextSite, Frame, PanelsTypeOK, addr
    <2>3. addr \notin sites'[s]
      <3>1. CASE ~Affected(s) /\ UNCHANGED sites
        BY <3>1 DEF Affected, On
      <3>2. CASE sites' = [sites EXCEPT ![s] = Moved(s)]
        BY <2>2, <3>2, PanelsAssumption DEF Moved, SitesInv
      <3> QED
        BY <2>1, <3>1, <3>2
    <2>4. \A t \in Sites \ {s} : sites'[t] = sites[t]
      BY <2>1, <2>2
    <2> QED
      BY <2>1, <2>2, <2>3, <2>4 DEF ReleaseInv
  <1>5. CASE MoveRefused
    <2>1. l'.refused
      BY <1>5 DEF MoveRefused, PanelsTypeOK
    <2> QED
      BY <2>1 DEF ReleaseInv
  <1>6. CASE UNCHANGED panelsVars
    BY <1>6 DEF panelsVars, ReleaseInv, addr
  <1>7. CASE RemoveIP \/ AddIP \/ PromoteIP \/ MoveFails
    BY <1>7, <1>f DEF RemoveIP, AddIP, PromoteIP, Tell, MoveFails
  <1>8. CASE Release \/ ReloadInRemove \/ MainIPCheck \/ Reload \/ SetMainOnCpanel
             \/ StoreMain \/ PromoteRow \/ DemoteOthers \/ SetMainOnInterworx
    BY <1>8, <1>f
    DEF Release, ReloadInRemove, MainIPCheck, Reload, SetMainOnCpanel, StoreMain,
        PromoteRow, DemoteOthers, SetMainOnInterworx, Go, Finish
  <1> QED
    BY <1>1, <1>2, <1>3, <1>4, <1>5, <1>6, <1>7, <1>8 DEF PanelsNext

\* An address leaves the list by its release, or because the panel found it idle.
LEMMA ReleaseAllowed ==
    ASSUME PanelsTypeOK, ReleaseInv, [PanelsNext]_panelsVars
    PROVE  \A ip \in listed \ listed' :
               (\A s \in Sites : ip \notin sites[s]) \/ (ip = addr /\ l.refused)
  <1> SUFFICES ASSUME NEW ip \in listed, ip \notin listed'
               PROVE  (\A s \in Sites : ip \notin sites[s]) \/ (ip = addr /\ l.refused)
    OBVIOUS
  <1>1. ~(UNCHANGED panel) /\ ~(UNCHANGED listed)
    BY DEF panel
  <1>2. CASE Release
    <2>1. step = "move" /\ l.todo = {} /\ ip = addr
      BY <1>1, <1>2 DEF Release, Forget, Fails
    <2> QED
      BY <2>1 DEF ReleaseInv
  <1>3. CASE Reread
    BY <1>3 DEF Reread
  <1> QED
    BY <1>1, <1>2, <1>3
    DEF PanelsNext, panelsVars, RemoveIP, AddIP, PromoteIP, Tell, ListOnCpanel, ListOnCpanelIPv6,
        ListOnPlesk, ListOnInterworx, Listed, MoveSite, MoveFails, MoveRefused, Fails,
        ReloadInRemove, MainIPCheck, Reload, SetMainOnCpanel, StoreMain, PromoteRow,
        DemoteOthers, SetMainOnInterworx

\* DemoteOthers is reached only through PromoteRow.
LEMMA MainStep == PanelsTypeOK /\ MainInv /\ [PanelsNext]_panelsVars => MainInv'
  <1> SUFFICES ASSUME PanelsTypeOK, MainInv, [PanelsNext]_panelsVars, step' = "demote"
               PROVE  MainInv'
    BY DEF MainInv
  <1>1. CASE PromoteRow
    BY <1>1 DEF PromoteRow, Promote, Where, Fails, Go, Finish, Frame, MainInv, addr
  <1>2. CASE UNCHANGED panelsVars
    BY <1>2 DEF panelsVars, MainInv, addr
  <1> QED
    BY <1>1, <1>2
    DEF PanelsNext, RemoveIP, AddIP, PromoteIP, Tell, ListOnCpanel, ListOnCpanelIPv6,
        ListOnPlesk, ListOnInterworx, Listed, MoveSite, MoveFails, MoveRefused, Fails,
        NextSite, Release, ReloadInRemove, MainIPCheck, Reload, SetMainOnCpanel, StoreMain,
        DemoteOthers, SetMainOnInterworx, Go, Finish, Frame, PanelsTypeOK

\* With MainInv no step takes the last main row away.
LEMMA MainAllowed ==
    ASSUME PanelsTypeOK, MainInv, [PanelsNext]_panelsVars, step \in {"setMain", "demote"},
           kind = "plesk",
           addr \in listed, main # {}
    PROVE  main' # {}
  <1>1. CASE PromoteRow
    BY <1>1 DEF PromoteRow, Promote, Fails, panel
  <1>2. CASE DemoteOthers
    BY <1>2 DEF DemoteOthers, Fails, panel, MainInv
  <1> QED
    BY <1>1, <1>2
    DEF PanelsNext, panelsVars, RemoveIP, AddIP, PromoteIP, Tell, ListOnCpanel, ListOnCpanelIPv6,
        ListOnPlesk, ListOnInterworx, MoveSite, MoveFails, MoveRefused, Release,
        ReloadInRemove, MainIPCheck, Reload, SetMainOnCpanel, StoreMain, SetMainOnInterworx

\* removeIP of every panel: the address is given up only when no site is on it, unless
\* cPanel declined to move one and was not listened to.
THEOREM ReleasedLast == PanelsSpec => ReleasedWhenEmpty
  <1>1. PanelsInit => ReleaseInv
    BY DEF PanelsInit, ReleaseInv
  <1>2. PanelsTypeOK /\ ReleaseInv /\ [PanelsNext]_panelsVars =>
            [\A ip \in listed \ listed' :
                (\A s \in Sites : ip \notin sites[s]) \/ (ip = addr /\ l.refused)]_panelsVars
    BY ReleaseAllowed
  <1> QED
    BY <1>1, <1>2, InitType, TypeStep, SitesInit, SitesStep, ReleaseStep, PTL
    DEF PanelsSpec, ReleasedWhenEmpty

\* plesk.setMainIP never leaves Plesk without a main address while it lists the new one.
THEOREM MainThroughout == PanelsSpec => AlwaysAMain
  <1>1. PanelsInit => MainInv
    BY DEF PanelsInit, MainInv
  <1>2. PanelsTypeOK /\ MainInv /\ [PanelsNext]_panelsVars =>
            [(step \in {"setMain", "demote"} /\ kind = "plesk" /\ addr \in listed /\ main # {})
                 => (main' # {})]_panelsVars
    BY MainAllowed
  <1> QED
    BY <1>1, <1>2, InitType, TypeStep, MainStep, PTL DEF PanelsSpec, AlwaysAMain
=============================================================================
